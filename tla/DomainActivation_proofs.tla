------------------------ MODULE DomainActivation_proofs ------------------------
(***************************************************************************)
(* Proofs about DomainActivation: the states are well typed, no domain is   *)
(* active that nothing earned, and a linked document has its domain on the  *)
(* mail server.                                                             *)
(***************************************************************************)
EXTENDS DomainActivation, TLAPS

\* A call that is under way works on a domain.
HasDomain == \A c \in Calls : op[c].at # "idle" => op[c].dom \in Domains

TypeInv == TypeOK /\ HasDomain

AtStages == {"start", "provision", "link", "sync", "look", "settle", "discard", "server", "doc"}

-----------------------------------------------------------------------------
(* Types. *)

\* What does nothing, is absent or rests is well typed.
LEMMA Constants == Idle \in Op /\ NoDoc \in Doc /\ Resting \in Sweep
  BY WindowAssumption DEF Idle, Op, NoDoc, Doc, Resting, Sweep, Statuses, Hours, Kinds

\* Saving a well-typed record keeps the documents well typed.
LEMMA SaveTyped ==
  ASSUME doc \in [Domains -> Doc], NEW d, NEW rec, d \in Domains => rec \in Doc, Save(d, rec)
  PROVE  doc' \in [Domains -> Doc]
  BY DEF Save

\* A call that ends keeps its type.
LEMMA FinishTyped ==
  ASSUME TypeInv, NEW c \in Calls, Finish(c)
  PROVE  op' \in [Calls -> Op] /\ HasDomain'
  BY Constants DEF Finish, TypeInv, TypeOK, HasDomain, Idle

\* A call that goes on keeps its type and its domain.
LEMMA GotoTyped ==
  ASSUME TypeInv, NEW c \in Calls, op[c].at # "idle", NEW stage \in AtStages, Goto(c, stage)
  PROVE  op' \in [Calls -> Op] /\ HasDomain'
  BY DEF Goto, TypeInv, TypeOK, HasDomain, Op, AtStages

\* The same for a call that learns something on the way.
LEMMA UpdateTyped ==
  ASSUME TypeInv, NEW c \in Calls, op[c].at # "idle", NEW k \in Op, k.dom = op[c].dom,
         op' = [op EXCEPT ![c] = k]
  PROVE  op' \in [Calls -> Op] /\ HasDomain'
  BY DEF TypeInv, TypeOK, HasDomain

\* What a call under way is.
LEMMA CallTyped ==
  ASSUME TypeInv, NEW c \in Calls, op[c].at # "idle"
  PROVE  /\ op[c] \in Op /\ op[c].dom \in Domains
         /\ doc[op[c].dom] \in Doc
         /\ \A seen, status \in Statuses : Written(seen, status, op[c].dom) \in Statuses
  BY DEF TypeInv, TypeOK, HasDomain, Written, Doc

\* The initial states are well typed, and no call knows a domain yet.
LEMMA TypeInit == Init => TypeInv
<1> SUFFICES ASSUME Init PROVE TypeInv
  OBVIOUS
<1>1. doc \in [Domains -> Doc] /\ op \in [Calls -> Op] /\ sweep \in Sweep /\ HasDomain
  BY Constants DEF Init, HasDomain, Idle
<1> QED BY <1>1, WindowAssumption DEF Init, TypeInv, TypeOK, Hours

\* A call that begins is well typed.
LEMMA LoadTyped ==
  ASSUME TypeInv, NEW c \in Calls, NEW kind \in Kinds, NEW d \in Domains, NEW stage \in AtStages,
         Load(c, kind, d, stage)
  PROVE  TypeInv'
<1> USE DEF worldVars, historyVars
<1> DEFINE k == [Idle EXCEPT !.kind = kind, !.dom = d, !.at = stage,
                    !.seen = doc[d].status, !.linked = doc[d].linked, !.issued = doc[d].issued]
<1>1. k \in Op /\ k.dom = d
  BY Constants DEF TypeInv, TypeOK, Op, Doc, AtStages, Idle
<1>2. op' = [op EXCEPT ![c] = k]
  BY DEF Load
<1> HIDE DEF k
<1>3. op' \in [Calls -> Op] /\ HasDomain'
  BY <1>1, <1>2 DEF TypeInv, TypeOK, HasDomain
<1> QED BY <1>3, BoundsAssumption DEF Load, TypeInv, TypeOK

\* A call that is started, at the stage its operation begins with, is well typed.
LEMMA BeginTyped ==
  ASSUME TypeInv, NEW c \in Calls, NEW d \in Domains, Begin(c, d)
  PROVE  TypeInv'
<1> USE DEF worldVars, historyVars, Kinds, AtStages
<1>1. CASE AddBegin(c, d)
  <2> DEFINE k == [Idle EXCEPT !.kind = "add", !.dom = d, !.at = "provision"]
  <2>1. k \in Op /\ k.dom = d
    BY Constants DEF Op, Idle
  <2>2. op' = [op EXCEPT ![c] = k]
    BY <1>1 DEF AddBegin
  <2> HIDE DEF k
  <2>3. op' \in [Calls -> Op] /\ HasDomain'
    BY <2>1, <2>2 DEF TypeInv, TypeOK, HasDomain
  <2> QED BY <1>1, <2>3, BoundsAssumption DEF AddBegin, TypeInv, TypeOK
<1>2. CASE Retry(c, d)
  BY <1>2, LoadTyped DEF Retry
<1> QED BY <1>1, <1>2, LoadTyped
        DEF Begin, Activate, Connect, RestoreDns, Overview, Delete

\* A step of a call under way keeps every variable in its type.
LEMMA CallStepTyped ==
  ASSUME TypeInv, NEW c \in Calls, CallStep(c)
  PROVE  TypeInv'
<1> USE DEF worldVars, boundVars, historyVars, AtStages
<1> DEFINE d == op[c].dom
<1>0. /\ op[c].at # "idle" /\ TypeOK
      /\ op[c] \in Op /\ d \in Domains /\ doc[d] \in Doc
      /\ \A seen, status \in Statuses : Written(seen, status, d) \in Statuses
      /\ op[c].seen \in Statuses
      /\ MaxFaults \in Nat
  <2>1. op[c].at # "idle"
    BY DEF CallStep, At, AddProvision, AddSave, ActivateStart, Provision, Link, Sync,
           RetryProvision, RetryLink, RetryStart, ConnectSave, ConnectReload, Look, Settle,
           Discard, SwitchOn, SaveActive, DeleteRows, DeleteServer, DeleteDoc
  <2> QED BY <2>1, CallTyped, BoundsAssumption DEF TypeInv, Op
<1>1. CASE AddProvision(c)
  <2>1. \/ op' = [op EXCEPT ![c].at = "doc", ![c].linked = TRUE, ![c].issued = TRUE]
        \/ op' = [op EXCEPT ![c].at = "doc", ![c].issued = TRUE]
        \/ Goto(c, "doc")
    BY <1>1 DEF AddProvision
  <2>2. op' \in [Calls -> Op] /\ HasDomain'
    BY <1>0, <2>1, GotoTyped DEF TypeInv, TypeOK, HasDomain, Op
  <2>3. server' \in [Domains -> {"absent", "off", "on"}] /\ faults' \in Nat
    BY <1>0, <1>1 DEF AddProvision, TypeOK, Fault, NoFault
  <2> QED BY <1>1, <2>2, <2>3 DEF AddProvision, TypeInv, TypeOK
<1>2. CASE AddSave(c)
  <2>1. [NoDoc EXCEPT !.life = "kept", !.linked = op[c].linked, !.issued = op[c].issued] \in Doc
    BY <1>0, Constants DEF Op, Doc
  <2>2. doc' \in [Domains -> Doc]
    BY <1>0, <1>2, <2>1 DEF AddSave, TypeOK
  <2> QED BY <1>2, <2>2, FinishTyped DEF AddSave, TypeInv, TypeOK
<1>3. CASE ActivateStart(c)
  <2>1. [doc[d] EXCEPT !.status = Written(op[c].seen, "activating", d), !.since = now] \in Doc
    BY <1>0 DEF Doc, TypeOK, Statuses
  <2>2. doc' \in [Domains -> Doc]
    BY <1>0, <1>3, <2>1, SaveTyped DEF ActivateStart, TypeOK
  <2>3. op' \in [Calls -> Op] /\ HasDomain'
    <3>1. ASSUME NEW ok \in BOOLEAN,
                 op' = [op EXCEPT ![c].at = "provision", ![c].seen = "activating", ![c].ok = ok]
          PROVE  op' \in [Calls -> Op] /\ HasDomain'
      <4> DEFINE k == [op[c] EXCEPT !.at = "provision", !.seen = "activating", !.ok = ok]
      <4>1. k \in Op /\ k.dom = d
        BY <1>0 DEF Op, Statuses
      <4>2. op' = [op EXCEPT ![c] = k]
        BY <3>1
      <4> HIDE DEF k
      <4> QED BY <1>0, <4>1, <4>2, UpdateTyped
    <3>2. CASE d \in cred
      <4>1. op' = [op EXCEPT ![c].at = "provision", ![c].seen = "activating", ![c].ok = TRUE]
        BY <1>3, <3>2 DEF ActivateStart
      <4> QED BY <3>1, <4>1
    <3>3. CASE d \notin cred
      <4>1. op' = [op EXCEPT ![c].at = "provision", ![c].seen = "activating", ![c].ok = FALSE]
        <5>1. (d \in cred) = FALSE
          BY <3>3
        <5>2. op' = [op EXCEPT ![c].at = "provision", ![c].seen = "activating",
                               ![c].ok = d \in cred]
          BY <1>3 DEF ActivateStart
        <5> QED BY <5>1, <5>2, Zenon
      <4> QED BY <3>1, <4>1
    <3> QED BY <3>2, <3>3
  <2> QED BY <1>3, <2>2, <2>3 DEF ActivateStart, TypeInv, TypeOK
<1>4. CASE Provision(c)
  <2>1. \/ op' = [op EXCEPT ![c].at = "link", ![c].linked = TRUE]
        \/ Finish(c)
    BY <1>4 DEF Provision
  <2>2. op' \in [Calls -> Op] /\ HasDomain'
    BY <1>0, <2>1, FinishTyped DEF TypeInv, TypeOK, HasDomain, Op
  <2>3. server' \in [Domains -> {"absent", "off", "on"}] /\ faults' \in Nat
    BY <1>0, <1>4 DEF Provision, Provisioned, TypeOK, Fault, NoFault
  <2> QED BY <1>4, <2>2, <2>3 DEF Provision, TypeInv, TypeOK
<1>5. CASE Link(c)
  <2>1. [doc[d] EXCEPT !.linked = TRUE, !.issued = TRUE] \in Doc
    BY <1>0 DEF Doc
  <2>2. doc' \in [Domains -> Doc]
    BY <1>0, <1>5, <2>1, SaveTyped DEF Link, TypeOK
  <2>3. \/ \E stage \in {"sync", "look"} : op' = [op EXCEPT ![c].at = stage, ![c].issued = TRUE]
        \/ Finish(c)
    BY <1>5 DEF Link
  <2>4. op' \in [Calls -> Op] /\ HasDomain'
    BY <1>0, <2>3, FinishTyped DEF TypeInv, TypeOK, HasDomain, Op
  <2> QED BY <1>0, <1>5, <2>2, <2>4 DEF Link, TypeInv, TypeOK, Fault, NoFault
<1>6. CASE Sync(c)
  <2>1. Finish(c) \/ \E stage \in {"start", "look"} : Goto(c, stage)
    BY <1>6 DEF Sync
  <2>2. op' \in [Calls -> Op] /\ HasDomain'
    BY <1>0, <2>1, FinishTyped, GotoTyped
  <2> QED BY <1>0, <1>6, <2>2 DEF Sync, TypeInv, TypeOK, Fault, NoFault
<1>7. CASE RetryProvision(c)
  <2>1. op' \in [Calls -> Op] /\ HasDomain'
    BY <1>0, <1>7, FinishTyped, GotoTyped DEF RetryProvision
  <2>2. server' \in [Domains -> {"absent", "off", "on"}]
    BY <1>7 DEF RetryProvision, TypeInv, TypeOK
  <2> QED BY <1>0, <1>7, <2>1, <2>2 DEF RetryProvision, TypeInv, TypeOK, Fault, NoFault
<1>8. CASE RetryLink(c)
  <2>1. [doc[d] EXCEPT !.linked = TRUE, !.issued = TRUE,
                  !.status = Written(op[c].seen, "activating", d)] \in Doc
    BY <1>0 DEF Doc, Statuses
  <2>2. doc' \in [Domains -> Doc]
    BY <1>0, <1>8, <2>1, SaveTyped DEF RetryLink, TypeOK
  <2> DEFINE k == [op[c] EXCEPT !.at = "start", !.seen = "activating",
                              !.linked = TRUE, !.issued = TRUE]
  <2>4. k \in Op /\ k.dom = d
    BY <1>0 DEF Op, Statuses
  <2>5. op' = [op EXCEPT ![c] = k]
    BY <1>8 DEF RetryLink
  <2> HIDE DEF k
  <2>3. op' \in [Calls -> Op] /\ HasDomain'
    BY <1>0, <2>4, <2>5, UpdateTyped
  <2> QED BY <1>8, <2>2, <2>3 DEF RetryLink, TypeInv, TypeOK
<1>9. CASE RetryStart(c)
  <2>1. [doc[d] EXCEPT !.status = Written(op[c].seen, "activating", d)] \in Doc
    BY <1>0 DEF Doc, Statuses
  <2>2. doc' \in [Domains -> Doc]
    BY <1>0, <1>9, <2>1, SaveTyped DEF RetryStart, TypeOK
  <2>3. \/ op' = [op EXCEPT ![c].at = "sync", ![c].seen = "activating"]
        \/ Goto(c, "look")
    BY <1>9 DEF RetryStart
  <2>4. op' \in [Calls -> Op] /\ HasDomain'
    BY <1>0, <2>3, GotoTyped DEF TypeOK, Op, HasDomain, Statuses, TypeInv
  <2> QED BY <1>9, <2>2, <2>4 DEF RetryStart, TypeInv, TypeOK
<1>10. CASE ConnectSave(c)
  <2>1. op' \in [Calls -> Op] /\ HasDomain'
    BY <1>0, <1>10, FinishTyped, GotoTyped DEF ConnectSave
  <2> QED BY <1>0, <1>10, <2>1 DEF ConnectSave, TypeInv, TypeOK
<1>11. CASE ConnectReload(c)
  <2>1. \/ op' = [op EXCEPT ![c].at = "look", ![c].seen = "activating"]
        \/ Finish(c)
    BY <1>11 DEF ConnectReload
  <2>2. op' \in [Calls -> Op] /\ HasDomain'
    BY <1>0, <2>1, FinishTyped DEF TypeOK, Op, HasDomain, Statuses, TypeInv
  <2> QED BY <1>11, <2>2 DEF ConnectReload, TypeInv, TypeOK
<1>12. CASE Look(c)
  <2> DEFINE ok == Verified(d, op[c].issued)
             k == [op[c] EXCEPT !.at = "settle", !.ok = ok]
  <2>1. k \in Op /\ k.dom = d
    BY <1>0 DEF Verified, Op
  <2>2. op' = [op EXCEPT ![c] = k]
    BY <1>12 DEF Look
  <2> HIDE DEF k
  <2>3. op' \in [Calls -> Op] /\ HasDomain'
    BY <1>0, <2>1, <2>2, UpdateTyped
  <2> QED BY <1>0, <1>12, <2>3 DEF Look, TypeInv, TypeOK
<1>13. CASE Settle(c)
  <2>1. [doc[d] EXCEPT !.status = Written(op[c].seen, "active", d)] \in Doc
    BY <1>0 DEF Doc, Statuses
  <2>2. [doc[d] EXCEPT !.status = Unverified(d)] \in Doc
    BY <1>0 DEF Doc, Unverified
  <2>3. doc' \in [Domains -> Doc]
    BY <1>0, <1>13, <2>1, <2>2, SaveTyped DEF Settle, TypeOK
  <2>4. op' \in [Calls -> Op] /\ HasDomain'
    BY <1>0, <1>13, FinishTyped, GotoTyped DEF Settle
  <2> QED BY <1>13, <2>3, <2>4 DEF Settle, TypeInv, TypeOK
<1>14. CASE Discard(c)
  BY <1>0, <1>14, FinishTyped DEF Discard, TypeInv, TypeOK
<1>15. CASE SwitchOn(c)
  <2>1. op' \in [Calls -> Op] /\ HasDomain'
    BY <1>0, <1>15, FinishTyped, GotoTyped DEF SwitchOn
  <2>2. server' \in [Domains -> {"absent", "off", "on"}]
    BY <1>15 DEF SwitchOn, TypeInv, TypeOK
  <2> QED BY <1>0, <1>15, <2>1, <2>2 DEF SwitchOn, TypeInv, TypeOK, Fault, NoFault
<1>16. CASE SaveActive(c)
  <2>1. [doc[d] EXCEPT !.status = "active"] \in Doc
    BY <1>0 DEF Doc, Statuses
  <2>2. doc' \in [Domains -> Doc]
    BY <1>0, <1>16, <2>1, SaveTyped DEF SaveActive, TypeOK
  <2> QED BY <1>0, <1>16, <2>2, FinishTyped DEF SaveActive, TypeInv, TypeOK
<1>17. CASE DeleteRows(c)
  <2>1. op' \in [Calls -> Op] /\ HasDomain'
    BY <1>0, <1>17, GotoTyped DEF DeleteRows
  <2> QED BY <1>0, <1>17, <2>1 DEF DeleteRows, TypeInv, TypeOK
<1>18. CASE DeleteServer(c)
  <2>1. op' \in [Calls -> Op] /\ HasDomain'
    BY <1>0, <1>18, GotoTyped DEF DeleteServer
  <2>2. server' \in [Domains -> {"absent", "off", "on"}]
    BY <1>18 DEF DeleteServer, TypeInv, TypeOK
  <2> QED BY <1>0, <1>18, <2>1, <2>2 DEF DeleteServer, TypeInv, TypeOK, Fault, NoFault
<1>19. CASE DeleteDoc(c)
  <2>1. doc' \in [Domains -> Doc]
    BY <1>0, <1>19 DEF DeleteDoc, TypeOK, Doc
  <2> QED BY <1>0, <1>19, <2>1, FinishTyped DEF DeleteDoc, TypeInv, TypeOK
<1> QED BY <1>1, <1>2, <1>3, <1>4, <1>5, <1>6, <1>7, <1>8, <1>9, <1>10, <1>11, <1>12, <1>13,
           <1>14, <1>15, <1>16, <1>17, <1>18, <1>19 DEF CallStep

\* So does a step of the sweep.
LEMMA SweepStepTyped ==
  ASSUME TypeInv, SweepStep
  PROVE  TypeInv'
<1> USE DEF worldVars, boundVars, historyVars, HasDomain
<1>0. sweep \in Sweep /\ doc \in [Domains -> Doc]
  BY DEF TypeInv, TypeOK
<1>1. CASE SweepBegin
  <2> DEFINE list == {d \in Domains : Kept(d) /\ doc[d].status = "activating"}
             since == [d \in Domains |-> IF d \in list THEN doc[d].since ELSE None]
             issued == {d \in list : doc[d].issued}
  <2>1. since \in [Domains -> Hours \cup {None}]
    BY <1>0 DEF Doc
  <2>2. list \in SUBSET Domains /\ issued \in SUBSET Domains /\ now \in Hours
    BY DEF TypeInv, TypeOK
  <2>3. sweep' = [Resting EXCEPT !.at = "next", !.list = list, !.started = now,
                                 !.since = since, !.issued = issued]
    BY <1>1 DEF SweepBegin
  <2> HIDE DEF list, since, issued
  <2>4. sweep' \in Sweep
    BY <2>1, <2>2, <2>3, Constants DEF Sweep
  <2> QED BY <1>1, <2>4 DEF SweepBegin, TypeInv, TypeOK
<1>2. CASE SweepSettle
  <2>1. sweep.cur \in Domains => [doc[sweep.cur] EXCEPT !.status = "active"] \in Doc
    BY <1>0 DEF Doc, Statuses
  <2>2. doc' \in [Domains -> Doc]
    BY <1>0, <1>2, <2>1, SaveTyped DEF SweepSettle
  <2>3. sweep' \in Sweep
    BY <1>0, <1>2 DEF SweepSettle, Sweep
  <2> QED BY <1>2, <2>2, <2>3 DEF SweepSettle, TypeInv, TypeOK
<1>3. CASE SweepDiscard
  <2>1. sweep' \in Sweep
    BY <1>0, <1>3 DEF SweepDiscard, Sweep
  <2> QED BY <1>3, <2>1 DEF SweepDiscard, TypeInv, TypeOK
<1>4. CASE SweepEnd
  BY <1>4, Constants DEF SweepEnd, TypeInv, TypeOK
<1>5. ASSUME NEW d \in Domains, SweepFail(d) PROVE TypeInv'
  <2>1. [doc[d] EXCEPT !.status = "activation_failed"] \in Doc
    BY <1>0 DEF Doc, Statuses
  <2>2. doc' \in [Domains -> Doc]
    BY <1>0, <1>5, <2>1, SaveTyped DEF SweepFail
  <2>3. sweep' \in Sweep
    BY <1>0, <1>5 DEF SweepFail, Sweep
  <2> QED BY <1>5, <2>2, <2>3 DEF SweepFail, TypeInv, TypeOK
<1>6. ASSUME NEW d \in Domains, SweepLook(d) PROVE TypeInv'
  <2>1. \E ok \in BOOLEAN : sweep' = [sweep EXCEPT !.at = "settle", !.cur = d,
                                       !.list = @ \ {d}, !.ok = ok]
    BY <1>6 DEF SweepLook, Verified
  <2>2. sweep' \in Sweep
    BY <1>0, <2>1 DEF Sweep
  <2> QED BY <1>6, <2>2 DEF SweepLook, TypeInv, TypeOK
<1> QED BY <1>1, <1>2, <1>3, <1>4, <1>5, <1>6 DEF SweepStep

\* Every step does.
LEMMA TypeStep == TypeInv /\ [Next]_vars => TypeInv'
<1> SUFFICES ASSUME TypeInv, [Next]_vars PROVE TypeInv'
  OBVIOUS
<1> USE DEF worldVars, boundVars, historyVars
<1>1. ASSUME NEW c \in Calls, CallStep(c) PROVE TypeInv'
  BY <1>1, CallStepTyped
<1>2. ASSUME NEW c \in Calls, NEW d \in Domains, Begin(c, d) PROVE TypeInv'
  BY <1>2, BeginTyped
<1>3. CASE SweepStep
  BY <1>3, SweepStepTyped
<1>4. CASE Tick
  BY <1>4, WindowAssumption DEF Tick, TypeInv, TypeOK, HasDomain, Hours
<1>5. CASE Crash
  <2>1. op' \in [Calls -> Op] /\ HasDomain' /\ sweep' \in Sweep
    BY <1>5, Constants DEF Crash, HasDomain, Idle
  <2> QED BY <1>5, <2>1, BoundsAssumption DEF Crash, Fault, TypeInv, TypeOK
<1>6. ASSUME NEW d \in Domains, Publish(d) \/ Subscribe(d) PROVE TypeInv'
  BY <1>6 DEF Publish, Subscribe, TypeInv, TypeOK, HasDomain
<1>7. CASE UNCHANGED vars
  BY <1>7 DEF vars, TypeInv, TypeOK, HasDomain
<1> QED BY <1>1, <1>2, <1>3, <1>4, <1>5, <1>6, <1>7 DEF Next

\* Every variable keeps its type, whatever the number of domains and calls.
THEOREM TypeCorrect == Spec => []TypeOK
<1>1. TypeInv => TypeOK
  BY DEF TypeInv
<1> QED BY <1>1, TypeInit, TypeStep, PTL DEF Spec

-----------------------------------------------------------------------------
(* No domain is active that nothing earned. *)

Earned(d) == d \in found \cup paid

\* Who is about to write "active" has a check's answer or a plan to show for it,
\* and a document that says so keeps what earned it.
Vouched ==
    /\ entitled \subseteq paid
    /\ \A d \in Domains : doc[d].status = "active" => Earned(d)
    /\ \A c \in Calls :
          /\ op[c].at = "settle" /\ op[c].ok => Earned(op[c].dom)
          /\ op[c].kind = "entitle" /\ op[c].at = "doc" => Earned(op[c].dom)
    /\ sweep.at = "settle" /\ sweep.ok => Earned(sweep.cur)

\* What was found or paid for stays so.
LEMMA EarnedGrows ==
  ASSUME [Next]_vars
  PROVE  found \subseteq found' /\ paid \subseteq paid'
<1> USE DEF worldVars, boundVars, historyVars
<1>1. ASSUME NEW c \in Calls, CallStep(c) PROVE found \subseteq found' /\ paid' = paid
  BY <1>1 DEF CallStep, AddProvision, AddSave, ActivateStart, Provision, Link, Sync,
              RetryProvision, RetryLink, RetryStart, ConnectSave, ConnectReload, Look, Settle,
              Discard, SwitchOn, SaveActive, DeleteRows, DeleteServer, DeleteDoc
<1>2. ASSUME NEW c \in Calls, NEW d \in Domains, Begin(c, d) PROVE UNCHANGED <<found, paid>>
  BY <1>2 DEF Begin, AddBegin, Activate, Retry, Connect, RestoreDns, Overview, Delete, Load
<1>3. SweepStep => found \subseteq found' /\ paid' = paid
  BY DEF SweepStep, SweepBegin, SweepSettle, SweepDiscard, SweepEnd, SweepFail, SweepLook
<1> QED BY <1>1, <1>2, <1>3 DEF Next, Tick, Crash, Publish, Subscribe, vars

\* A document becomes active only by a check's answer, a plan or the sweep.
LEMMA ActiveByCall ==
  ASSUME TypeInv, Vouched, NEW c \in Calls, CallStep(c), NEW q \in Domains,
         doc'[q].status = "active"
  PROVE  Earned(q)
<1> DEFINE d == op[c].dom
<1>0. doc \in [Domains -> Doc] /\ (doc[q].status = "active" => Earned(q))
  BY DEF TypeInv, TypeOK, Vouched
<1>2. CASE AddSave(c)
  BY <1>0, <1>2 DEF AddSave, NoDoc
<1>3. CASE ActivateStart(c)
  <2> DEFINE rec == [doc[d] EXCEPT !.status = Written(op[c].seen, "activating", d), !.since = now]
  <2>1. Save(d, rec)
    BY <1>3 DEF ActivateStart
  <2>2. q = d => rec.status \in {doc[d].status, "activating"}
    BY <1>0 DEF Written, Doc
  <2> HIDE DEF rec
  <2> QED BY <1>0, <2>1, <2>2 DEF Save
<1>4. CASE Link(c)
  <2> DEFINE rec == [doc[d] EXCEPT !.linked = TRUE, !.issued = TRUE]
  <2>1. Save(d, rec) \/ doc' = doc
    BY <1>4 DEF Link
  <2>2. q = d => rec.status = doc[d].status
    BY <1>0 DEF Doc
  <2> HIDE DEF rec
  <2> QED BY <1>0, <2>1, <2>2 DEF Save
<1>5. CASE RetryLink(c)
  <2> DEFINE rec == [doc[d] EXCEPT !.linked = TRUE, !.issued = TRUE,
                              !.status = Written(op[c].seen, "activating", d)]
  <2>1. Save(d, rec)
    BY <1>5 DEF RetryLink
  <2>2. q = d => rec.status \in {doc[d].status, "activating"}
    BY <1>0 DEF Written, Doc
  <2> HIDE DEF rec
  <2> QED BY <1>0, <2>1, <2>2 DEF Save
<1>6. CASE RetryStart(c)
  <2> DEFINE rec == [doc[d] EXCEPT !.status = Written(op[c].seen, "activating", d)]
  <2>1. Save(d, rec) \/ doc' = doc
    BY <1>6 DEF RetryStart
  <2>2. q = d => rec.status \in {doc[d].status, "activating"}
    BY <1>0 DEF Written, Doc
  <2> HIDE DEF rec
  <2> QED BY <1>0, <2>1, <2>2 DEF Save
<1>7. CASE Settle(c)
  <2>1. op[c].ok => Earned(d)
    BY <1>7 DEF Settle, Vouched
  <2> DEFINE rec == [doc[d] EXCEPT !.status = Unverified(d)]
  <2>2. op[c].ok \/ doc' = doc \/ Save(d, rec)
    BY <1>7 DEF Settle
  <2>3. q = d => rec.status = doc[d].status
    BY <1>0 DEF Unverified, Doc
  <2>4. q # d => doc'[q] = doc[q]
    BY <1>0, <1>7 DEF Settle, Save
  <2> HIDE DEF rec
  <2> QED BY <1>0, <2>1, <2>2, <2>3, <2>4 DEF Save
<1>8. CASE SaveActive(c)
  <2>1. Earned(d)
    BY <1>8 DEF SaveActive, At, Vouched
  <2>2. q # d => doc'[q] = doc[q]
    BY <1>0, <1>8 DEF SaveActive, Save
  <2> QED BY <1>0, <2>1, <2>2
<1>9. CASE DeleteDoc(c)
  <2>1. doc'[q].status = doc[q].status
    BY <1>0, <1>9 DEF DeleteDoc, Doc
  <2> QED BY <1>0, <2>1
<1>10. CASE doc' = doc
  BY <1>0, <1>10
<1> QED BY <1>2, <1>3, <1>4, <1>5, <1>6, <1>7, <1>8, <1>9, <1>10
        DEF CallStep, AddProvision, Provision, Sync, RetryProvision, ConnectSave, ConnectReload,
            Look, Discard, SwitchOn, DeleteRows, DeleteServer

\* What the calls and the sweep may write stays vouched for.
LEMMA VouchedStep == TypeInv /\ Vouched /\ [Next]_vars => Vouched'
<1> SUFFICES ASSUME TypeInv, Vouched, [Next]_vars PROVE Vouched'
  OBVIOUS
<1> USE DEF worldVars, boundVars, historyVars
<1>0. /\ found \subseteq found' /\ paid \subseteq paid'
      /\ doc \in [Domains -> Doc] /\ op \in [Calls -> Op] /\ sweep \in Sweep
      /\ published \in SUBSET Domains /\ HasDomain
  BY EarnedGrows DEF TypeInv, TypeOK
<1>1. ASSUME NEW c \in Calls, CallStep(c) PROVE Vouched'
  <2>1. \A q \in Domains : doc'[q].status = "active" => Earned(q)'
    BY <1>0, <1>1, ActiveByCall DEF Earned
  <2>2. entitled' \subseteq paid' /\ sweep' = sweep
    BY <1>0, <1>1
       DEF Vouched, CallStep, AddProvision, AddSave, ActivateStart, Provision, Link, Sync,
           RetryProvision, RetryLink, RetryStart, ConnectSave, ConnectReload, Look, Settle,
           Discard, SwitchOn, SaveActive, DeleteRows, DeleteServer, DeleteDoc
  <2>3. \A b \in Calls \ {c} : op'[b] = op[b]
    BY <1>0, <1>1
       DEF CallStep, AddProvision, AddSave, ActivateStart, Provision, Link, Sync,
           RetryProvision, RetryLink, RetryStart, ConnectSave, ConnectReload, Look, Settle,
           Discard, SwitchOn, SaveActive, DeleteRows, DeleteServer, DeleteDoc, Goto, Finish
  <2>4. op'[c].at = "settle" => Look(c)
    BY <1>0, <1>1
       DEF CallStep, AddProvision, AddSave, ActivateStart, Provision, Link, Sync,
           RetryProvision, RetryLink, RetryStart, ConnectSave, ConnectReload, Settle,
           Discard, SwitchOn, SaveActive, DeleteRows, DeleteServer, DeleteDoc, Goto, Finish, Op,
           Idle
  <2>5. op'[c].at = "settle" /\ op'[c].ok => op'[c].dom \in found' \cup paid'
    BY <1>0, <2>4 DEF Look, Verified, Earned, Op
  <2>6. op'[c].kind = "entitle" /\ op'[c].at = "doc" => SwitchOn(c) /\ Goto(c, "doc")
    BY <1>0, <1>1
       DEF CallStep, AddProvision, AddSave, ActivateStart, Provision, Link, Sync,
           RetryProvision, RetryLink, RetryStart, ConnectSave, ConnectReload, Look, Settle,
           Discard, SwitchOn, SaveActive, DeleteRows, DeleteServer, DeleteDoc, Goto, Finish, Op,
           Idle, At
  <2>7. op'[c].kind = "entitle" /\ op'[c].at = "doc" => op'[c].dom \in found' \cup paid'
    BY <1>0, <2>6, NoneAssumption DEF SwitchOn, HasPlanOrSub, Earned, Vouched, Goto, Op, Finish, Idle
  <2> QED BY <1>0, <2>1, <2>2, <2>3, <2>5, <2>7 DEF Vouched, Earned
<1>2. ASSUME NEW c \in Calls, NEW d \in Domains, Begin(c, d) PROVE Vouched'
  <2>1. /\ \A b \in Calls \ {c} : op'[b] = op[b]
        /\ op'[c].at \notin {"settle", "doc"}
        /\ UNCHANGED <<doc, entitled, paid, found, sweep>>
    <3>1. ASSUME NEW kind, NEW stage \in {"start", "provision", "look"}, Load(c, kind, d, stage)
          PROVE  /\ \A b \in Calls \ {c} : op'[b] = op[b]
                 /\ op'[c].at \notin {"settle", "doc"}
                 /\ UNCHANGED <<doc, entitled, paid, found, sweep>>
      BY <1>0, <3>1 DEF Load, Idle
    <3>2. CASE AddBegin(c, d)
      BY <1>0, <3>2 DEF AddBegin, Idle
    <3>3. CASE Retry(c, d)
      BY <3>1, <3>3 DEF Retry
    <3> QED BY <1>2, <3>1, <3>2, <3>3
            DEF Begin, Activate, Connect, RestoreDns, Overview, Delete
  <2> QED BY <2>1 DEF Vouched, Earned
<1>3. CASE SweepStep
  <2>1. UNCHANGED <<op, entitled, paid>>
    BY <1>3 DEF SweepStep, SweepBegin, SweepSettle, SweepDiscard, SweepEnd, SweepFail, SweepLook
  <2>2. ASSUME NEW q \in Domains, doc'[q].status = "active" PROVE Earned(q)
    <3>1. doc' = doc \/ SweepSettle \/ \E d \in Domains : SweepFail(d)
      BY <1>3 DEF SweepStep, SweepBegin, SweepDiscard, SweepEnd, SweepLook
    <3>2. CASE doc' = doc
      BY <2>2, <3>2 DEF Vouched
    <3>3. CASE SweepSettle
      BY <1>0, <2>2, <3>3 DEF SweepSettle, Save, Vouched, Doc
    <3>4. ASSUME NEW d \in Domains, SweepFail(d) PROVE Earned(q)
      BY <1>0, <2>2, <3>4 DEF SweepFail, Save, Vouched, Doc
    <3> QED BY <3>1, <3>2, <3>3, <3>4
  <2>3. sweep'.at = "settle" /\ sweep'.ok => sweep'.cur \in found' \cup paid'
    <3>1. ASSUME NEW d \in Domains, SweepLook(d), sweep'.ok PROVE sweep'.cur \in found' \cup paid'
      BY <1>0, <3>1 DEF SweepLook, Sweep, Verified, Earned
    <3>2. SweepBegin \/ SweepSettle \/ SweepDiscard \/ SweepEnd => sweep'.at # "settle"
      <4>1. CASE SweepBegin
        <5> DEFINE list == {d \in Domains : Kept(d) /\ doc[d].status = "activating"}
                   since == [d \in Domains |-> IF d \in list THEN doc[d].since ELSE None]
                   issued == {d \in list : doc[d].issued}
        <5>1. sweep' = [Resting EXCEPT !.at = "next", !.list = list, !.started = now,
                                       !.since = since, !.issued = issued]
          BY <4>1 DEF SweepBegin
        <5> HIDE DEF list, since, issued
        <5> QED BY <5>1, Constants DEF Sweep
      <4>2. CASE SweepSettle
        BY <1>0, <4>2 DEF SweepSettle, Sweep
      <4>3. CASE SweepDiscard
        BY <1>0, <4>3 DEF SweepDiscard, Sweep
      <4>4. CASE SweepEnd
        BY <4>4 DEF SweepEnd, Resting
      <4> QED BY <4>1, <4>2, <4>3, <4>4
    <3>3. ASSUME NEW d \in Domains, SweepFail(d) PROVE sweep'.at # "settle"
      BY <1>0, <3>3 DEF SweepFail, Sweep
    <3>4. sweep'.at = "settle" => \E d \in Domains : SweepLook(d)
      BY <1>3, <3>2, <3>3 DEF SweepStep
    <3> QED BY <3>1, <3>4
  <2> QED BY <1>0, <2>1, <2>2, <2>3 DEF Vouched, Earned
<1>4. CASE Tick
  BY <1>4 DEF Tick, Vouched, Earned
<1>5. CASE Crash
  BY <1>5 DEF Crash, Vouched, Earned, Idle, Resting
<1>6. ASSUME NEW d \in Domains, Publish(d) \/ Subscribe(d) PROVE Vouched'
  BY <1>6 DEF Publish, Subscribe, Vouched, Earned
<1>7. CASE UNCHANGED vars
  BY <1>7 DEF vars, Vouched, Earned
<1> QED BY <1>1, <1>2, <1>3, <1>4, <1>5, <1>6, <1>7 DEF Next

\* No domain is active that neither a check ever found nor a plan or subscription
\* ever vouched for (finalizeIfVerified, GET /me/domains/:domainId/dns-status).
THEOREM ActiveIsEarned == Spec => []ActiveEarned
<1>1. Init => Vouched
  BY DEF Init, Vouched, NoDoc, Idle, Resting
<1>2. Vouched => ActiveEarned
  BY DEF Vouched, ActiveEarned, Earned
<1> QED BY <1>1, <1>2, TypeInit, TypeStep, VouchedStep, PTL DEF Spec

-----------------------------------------------------------------------------
(* A linked document has its domain on the mail server. *)

\* Why a domain may be missing from the mail server.
Excused(d) == Deleting(d) \/ d \in cut

\* A document that was never made has no call but the one that adds it, and what
\* that call knows to be on the server is there; a domain that a call is about
\* to link is there, unless its document is gone.
Served ==
    /\ \A d \in Domains :
          doc[d].life # "gone" /\ doc[d].linked /\ server[d] = "absent" => Excused(d)
    /\ \A d \in Domains : doc[d].life = "new" => ~doc[d].linked
    /\ \A c \in Calls : op[c].at # "idle" =>
          /\ doc[op[c].dom].life = "new" <=> op[c].kind = "add"
          /\ op[c].kind = "add" /\ op[c].linked => server[op[c].dom] # "absent"
          /\ op[c].at = "link" /\ doc[op[c].dom].life = "kept" /\ server[op[c].dom] = "absent"
                => Excused(op[c].dom)
    /\ \A b, c \in Calls : op[b].at # "idle" /\ op[c].kind = "add" /\ op[c].at # "idle"
                            /\ op[b].dom = op[c].dom => b = c

Ok(d) == server[d] = "absent" => Excused(d)

\* A call that goes on is the same call on the same domain, or it ends.
LEMMA SameCall ==
  ASSUME TypeInv, NEW c \in Calls, CallStep(c)
  PROVE  /\ \A b \in Calls \ {c} : op'[b] = op[b]
         /\ op[c].at # "idle"
         /\ op'[c].at # "idle" => op'[c].kind = op[c].kind /\ op'[c].dom = op[c].dom
         /\ UNCHANGED <<sweep, cut>>
<1>0. op \in [Calls -> Op]
  BY DEF TypeInv, TypeOK
<1> USE DEF worldVars, boundVars, historyVars
<1>1. /\ UNCHANGED <<sweep, cut>>
      /\ op[c].at # "idle"
  BY DEF At, CallStep, AddProvision, AddSave, ActivateStart, Provision, Link, Sync,
         RetryProvision, RetryLink, RetryStart, ConnectSave, ConnectReload, Look, Settle,
         Discard, SwitchOn, SaveActive, DeleteRows, DeleteServer, DeleteDoc
<1>2. \A b \in Calls \ {c} : op'[b] = op[b]
  BY <1>0
     DEF CallStep, AddProvision, AddSave, ActivateStart, Provision, Link, Sync,
         RetryProvision, RetryLink, RetryStart, ConnectSave, ConnectReload, Look, Settle,
         Discard, SwitchOn, SaveActive, DeleteRows, DeleteServer, DeleteDoc, Goto, Finish
<1>3. CASE Finish(c)
  BY <1>0, <1>1, <1>2, <1>3 DEF Finish, Idle
<1>4. ASSUME ~Finish(c)
      PROVE  op'[c].kind = op[c].kind /\ op'[c].dom = op[c].dom
  BY <1>0, <1>4
     DEF CallStep, AddProvision, AddSave, ActivateStart, Provision, Link, Sync,
         RetryProvision, RetryLink, RetryStart, ConnectSave, ConnectReload, Look, Settle,
         Discard, SwitchOn, SaveActive, DeleteRows, DeleteServer, DeleteDoc, Goto, Op
<1> QED BY <1>1, <1>2, <1>3, <1>4

\* A saved record of a document keeps its life, and is linked only by the steps
\* that link it.
LEMMA DocByCall ==
  ASSUME TypeInv, NEW c \in Calls, CallStep(c), NEW q \in Domains
  PROVE  /\ \/ doc'[q].life = doc[q].life
            \/ AddSave(c) /\ q = op[c].dom
            \/ DeleteDoc(c) /\ q = op[c].dom /\ doc'[q].life = "gone"
         /\ \/ doc'[q].linked = doc[q].linked
            \/ AddSave(c) /\ q = op[c].dom
            \/ (Link(c) \/ RetryLink(c)) /\ q = op[c].dom /\ Kept(q)
<1> DEFINE d == op[c].dom
           Same == doc'[q].life = doc[q].life /\ doc'[q].linked = doc[q].linked
<1>0. doc \in [Domains -> Doc]
  BY DEF TypeInv, TypeOK
<1>1. ASSUME NEW rec, Save(d, rec),
             q = d => rec.life = doc[d].life /\ rec.linked = doc[d].linked
      PROVE  Same
  BY <1>0, <1>1 DEF Save
<1>2. CASE AddSave(c)
  BY <1>0, <1>2 DEF AddSave
<1>3. CASE ActivateStart(c)
  <2> DEFINE rec == [doc[d] EXCEPT !.status = Written(op[c].seen, "activating", d), !.since = now]
  <2>1. Save(d, rec) /\ (q = d => rec.life = doc[d].life /\ rec.linked = doc[d].linked)
    BY <1>0, <1>3 DEF ActivateStart, Doc
  <2> HIDE DEF rec
  <2> QED BY <1>1, <2>1
<1>4. CASE Link(c)
  <2> DEFINE rec == [doc[d] EXCEPT !.linked = TRUE, !.issued = TRUE]
  <2>1. (Save(d, rec) \/ doc' = doc) /\ (q = d => rec.life = doc[d].life)
    BY <1>0, <1>4 DEF Link, Doc
  <2> HIDE DEF rec
  <2> QED BY <1>0, <1>4, <2>1 DEF Save
<1>5. CASE RetryLink(c)
  <2> DEFINE rec == [doc[d] EXCEPT !.linked = TRUE, !.issued = TRUE,
                              !.status = Written(op[c].seen, "activating", d)]
  <2>1. Save(d, rec) /\ (q = d => rec.life = doc[d].life)
    BY <1>0, <1>5 DEF RetryLink, Doc
  <2> HIDE DEF rec
  <2> QED BY <1>0, <1>5, <2>1 DEF Save
<1>6. CASE RetryStart(c)
  <2> DEFINE rec == [doc[d] EXCEPT !.status = Written(op[c].seen, "activating", d)]
  <2>1. /\ Save(d, rec) \/ doc' = doc
        /\ q = d => rec.life = doc[d].life /\ rec.linked = doc[d].linked
    BY <1>0, <1>6 DEF RetryStart, Doc
  <2> HIDE DEF rec
  <2> QED BY <1>1, <2>1
<1>7. CASE Settle(c)
  <2> DEFINE rec == [doc[d] EXCEPT !.status = Unverified(d)]
             won == [doc[d] EXCEPT !.status = Written(op[c].seen, "active", d)]
  <2>1. /\ Save(d, rec) \/ Save(d, won) \/ doc' = doc
        /\ q = d => rec.life = doc[d].life /\ rec.linked = doc[d].linked
        /\ q = d => won.life = doc[d].life /\ won.linked = doc[d].linked
    BY <1>0, <1>7 DEF Settle, Doc
  <2> HIDE DEF rec, won
  <2> QED BY <1>1, <2>1
<1>8. CASE SaveActive(c)
  <2> DEFINE rec == [doc[d] EXCEPT !.status = "active"]
  <2>1. Save(d, rec) /\ (q = d => rec.life = doc[d].life /\ rec.linked = doc[d].linked)
    BY <1>0, <1>8 DEF SaveActive, Doc
  <2> HIDE DEF rec
  <2> QED BY <1>1, <2>1
<1>9. CASE DeleteDoc(c)
  BY <1>0, <1>9 DEF DeleteDoc, Doc
<1>10. CASE doc' = doc
  BY <1>10
<1> QED BY <1>2, <1>3, <1>4, <1>5, <1>6, <1>7, <1>8, <1>9, <1>10
        DEF CallStep, AddProvision, Provision, Sync, RetryProvision, ConnectSave, ConnectReload,
            Look, Discard, SwitchOn, DeleteRows, DeleteServer

\* Only a deletion takes a domain off the mail server.
LEMMA ServerByCall ==
  ASSUME TypeInv, NEW c \in Calls, CallStep(c), NEW q \in Domains
  PROVE  server'[q] = "absent" =>
            server[q] = "absent" \/ (DeleteServer(c) /\ q = op[c].dom)
<1>0. server \in [Domains -> {"absent", "off", "on"}]
  BY DEF TypeInv, TypeOK
<1>1. CASE AddProvision(c)
  BY <1>0, <1>1 DEF AddProvision
<1>2. CASE Provision(c)
  BY <1>0, <1>2 DEF Provision, Provisioned
<1>3. CASE RetryProvision(c)
  BY <1>0, <1>3 DEF RetryProvision
<1>4. CASE SwitchOn(c)
  BY <1>0, <1>4 DEF SwitchOn
<1>5. CASE DeleteServer(c)
  BY <1>0, <1>5 DEF DeleteServer
<1>6. CASE server' = server
  BY <1>6
<1> QED BY <1>1, <1>2, <1>3, <1>4, <1>5, <1>6
        DEF worldVars, CallStep, AddSave, ActivateStart, Link, Sync, RetryLink, RetryStart,
            ConnectSave, ConnectReload, Look, Settle, Discard, SaveActive, DeleteRows, DeleteDoc

\* The sweep and the world around write neither life nor link, nor the server.
LEMMA DocBySweep ==
  ASSUME TypeInv, SweepStep, NEW q \in Domains
  PROVE  /\ doc'[q].life = doc[q].life /\ doc'[q].linked = doc[q].linked
         /\ UNCHANGED <<server, op, cut>>
<1> USE DEF worldVars, historyVars
<1>0. doc \in [Domains -> Doc]
  BY DEF TypeInv, TypeOK
<1>1. UNCHANGED <<server, op, cut>>
  BY DEF SweepStep, SweepBegin, SweepSettle, SweepDiscard, SweepEnd, SweepFail, SweepLook
<1>2. ASSUME NEW d, NEW rec, Save(d, rec),
             q = d => rec.life = doc[d].life /\ rec.linked = doc[d].linked
      PROVE  doc'[q].life = doc[q].life /\ doc'[q].linked = doc[q].linked
  BY <1>0, <1>2 DEF Save
<1>3. CASE SweepSettle
  <2> DEFINE d == sweep.cur
             rec == [doc[d] EXCEPT !.status = "active"]
  <2>1. /\ Save(d, rec) \/ doc' = doc
        /\ q = d => rec.life = doc[d].life /\ rec.linked = doc[d].linked
    BY <1>0, <1>3 DEF SweepSettle, Doc
  <2> HIDE DEF rec, d
  <2> QED BY <1>1, <1>2, <2>1
<1>4. ASSUME NEW d \in Domains, SweepFail(d)
      PROVE  doc'[q].life = doc[q].life /\ doc'[q].linked = doc[q].linked
  <2> DEFINE rec == [doc[d] EXCEPT !.status = "activation_failed"]
  <2>1. Save(d, rec) /\ (q = d => rec.life = doc[d].life /\ rec.linked = doc[d].linked)
    BY <1>0, <1>4 DEF SweepFail, Doc
  <2> HIDE DEF rec
  <2> QED BY <1>2, <2>1
<1>5. CASE doc' = doc
  BY <1>1, <1>5
<1> QED BY <1>1, <1>3, <1>4, <1>5 DEF SweepStep, SweepBegin, SweepDiscard, SweepEnd, SweepLook

\* A domain that is there, or missing for a reason, is so after a call's step,
\* unless its document goes.
LEMMA OkKept ==
  ASSUME TypeInv, NEW c \in Calls, CallStep(c), NEW q \in Domains, Ok(q),
         doc'[q].life # "gone"
  PROVE  Ok(q)'
<1> SUFFICES ASSUME server'[q] = "absent" PROVE Excused(q)'
  BY DEF Ok
<1>0. op \in [Calls -> Op] /\ doc \in [Domains -> Doc]
  BY DEF TypeInv, TypeOK
<1>1. CASE DeleteServer(c) /\ q = op[c].dom
  <2>1. op'[c].dom = q /\ op'[c].kind = "delete" /\ op'[c].at = "doc"
    BY <1>0, <1>1 DEF DeleteServer, Goto, At, Op
  <2> QED BY <2>1 DEF Excused, Deleting, At
<1>2. CASE server[q] = "absent"
  <2>1. Excused(q)
    BY <1>2 DEF Ok
  <2>2. CASE q \in cut
    BY <2>2, SameCall DEF Excused
  <2>3. ASSUME NEW b \in Calls, op[b].dom = q, At(b, {"delete"}, "doc") PROVE Excused(q)'
    <3>1. CASE b # c
      BY <2>3, <3>1, SameCall DEF Excused, Deleting, At
    <3>2. CASE b = c
      <4>1. DeleteDoc(c)
        BY <1>0, <2>3, <3>2
           DEF At, CallStep, AddProvision, AddSave, ActivateStart, Provision, Link, Sync,
               RetryProvision, RetryLink, RetryStart, ConnectSave, ConnectReload, Look, Settle,
               Discard, SwitchOn, SaveActive, DeleteRows, DeleteServer
      <4> QED BY <1>0, <2>3, <3>2, <4>1 DEF DeleteDoc, Doc
    <3> QED BY <3>1, <3>2
  <2> QED BY <2>1, <2>2, <2>3 DEF Excused, Deleting
<1> QED BY <1>1, <1>2, ServerByCall

\* What a call that goes on may count on.
Trusted(c) ==
    /\ doc[op[c].dom].life = "new" <=> op[c].kind = "add"
    /\ op[c].kind = "add" /\ op[c].linked => server[op[c].dom] # "absent"
    /\ op[c].at = "link" /\ doc[op[c].dom].life = "kept" => Ok(op[c].dom)

\* The call that takes the step.
LEMMA TrustedStep ==
  ASSUME TypeInv, Served, NEW c \in Calls, CallStep(c), op'[c].at # "idle"
  PROVE  Trusted(c)'
<1> DEFINE d == op[c].dom
<1>0. /\ op \in [Calls -> Op] /\ doc \in [Domains -> Doc] /\ d \in Domains
      /\ server \in [Domains -> {"absent", "off", "on"}]
      /\ op'[c].kind = op[c].kind /\ op'[c].dom = d
      /\ doc[d].life = "new" <=> op[c].kind = "add"
      /\ op[c].kind = "add" /\ op[c].linked => server[d] # "absent"
      /\ op[c].at = "link" /\ doc[d].life = "kept" => Ok(d)
  BY SameCall DEF TypeInv, TypeOK, HasDomain, Served, Ok
<1>1. doc'[d].life = doc[d].life
  <2>1. ~AddSave(c) /\ ~DeleteDoc(c)
    BY <1>0 DEF AddSave, DeleteDoc, Finish, Idle
  <2> QED BY <1>0, <2>1, DocByCall
<1>2. op'[c].kind = "add" /\ op'[c].linked => server'[d] # "absent"
  <2> SUFFICES ASSUME op[c].kind = "add", op'[c].linked PROVE server'[d] # "absent"
    BY <1>0
  <2>1. CASE AddProvision(c)
    BY <1>0, <2>1 DEF AddProvision, Goto, Op
  <2>2. ASSUME ~AddProvision(c) PROVE op'[c].linked = op[c].linked
    <3>1. AddSave(c) \/ Sync(c) \/ Look(c) \/ Settle(c) \/ Discard(c)
      BY <2>2 DEF At, CallStep, ActivateStart, Provision, Link, RetryProvision, RetryLink,
                  RetryStart, ConnectSave, ConnectReload, SwitchOn, SaveActive, DeleteRows,
                  DeleteServer, DeleteDoc
    <3>2. Finish(c) => op'[c].at = "idle"
      BY <1>0 DEF Finish, Idle
    <3>3. CASE Look(c)
      BY <1>0, <3>3 DEF Look, Op
    <3>4. ASSUME NEW stage, Goto(c, stage) PROVE op'[c].linked = op[c].linked
      <4>1. op[c] \in Op /\ op'[c] = [op[c] EXCEPT !.at = stage]
        BY <1>0, <3>4 DEF Goto
      <4> QED BY <4>1 DEF Op
    <3> QED BY <3>1, <3>2, <3>3, <3>4 DEF AddSave, Sync, Settle, Discard
  <2>3. ~DeleteServer(c)
    BY DEF DeleteServer, At
  <2> QED BY <1>0, <2>1, <2>2, <2>3, ServerByCall
<1>3. op'[c].at = "link" => server'[d] # "absent"
  <2>1. op'[c].at = "link" => Provision(c) \/ RetryProvision(c)
    BY <1>0 DEF CallStep, AddProvision, AddSave, ActivateStart, Link, Sync, RetryLink, RetryStart,
                ConnectSave, ConnectReload, Look, Settle, Discard, SwitchOn, SaveActive,
                DeleteRows, DeleteServer, DeleteDoc, Goto, Finish, Op, Idle
  <2>2. CASE Provision(c)
    BY <1>0, <2>2 DEF Provision, Provisioned, Finish, Idle
  <2>3. CASE RetryProvision(c)
    BY <1>0, <2>3 DEF RetryProvision, Finish, Idle
  <2> QED BY <2>1, <2>2, <2>3
<1> QED BY <1>0, <1>1, <1>2, <1>3 DEF Trusted, Ok

\* A call that takes no step keeps what it may count on.
LEMMA TrustedKept ==
  ASSUME TypeInv, Served, NEW c \in Calls, CallStep(c), NEW b \in Calls, b # c,
         op[b].at # "idle"
  PROVE  Trusted(b)'
<1> DEFINE d == op[b].dom
<1>0. /\ op \in [Calls -> Op] /\ doc \in [Domains -> Doc] /\ d \in Domains
      /\ op'[b] = op[b]
      /\ doc[d].life = "new" <=> op[b].kind = "add"
      /\ op[b].kind = "add" /\ op[b].linked => server[d] # "absent"
      /\ op[b].at = "link" /\ doc[d].life = "kept" => Ok(d)
  BY SameCall DEF TypeInv, TypeOK, HasDomain, Served, Ok
<1>1. op[c].kind = "add" \/ op[b].kind = "add" => op[c].dom # d
  BY <1>0, SameCall DEF Served
<1>2. ~(AddSave(c) /\ d = op[c].dom)
  BY <1>1 DEF AddSave, At
<1>3. doc'[d].life = doc[d].life \/ (doc'[d].life = "gone" /\ doc[d].life # "new")
  <2>1. DeleteDoc(c) /\ d = op[c].dom => doc[d].life # "new"
    BY <1>0, <1>1
  <2> QED BY <1>0, <1>2, <2>1, DocByCall
<1>4. doc'[d].life = "new" <=> op[b].kind = "add"
  BY <1>0, <1>3
<1>5. op[b].kind = "add" /\ op[b].linked => server'[d] # "absent"
  BY <1>0, <1>1, ServerByCall
<1>6. op[b].at = "link" /\ doc'[d].life = "kept" => Ok(d)'
  BY <1>0, <1>3, OkKept
<1> QED BY <1>0, <1>4, <1>5, <1>6 DEF Trusted

\* Calls keep documents and mail server together.
LEMMA ServedByCall ==
  ASSUME TypeInv, Served, NEW c \in Calls, CallStep(c)
  PROVE  Served'
<1>0. /\ op \in [Calls -> Op] /\ doc \in [Domains -> Doc] /\ op[c].dom \in Domains
      /\ op[c].at # "idle" /\ \A b \in Calls \ {c} : op'[b] = op[b]
      /\ op'[c].at # "idle" => op'[c].kind = op[c].kind /\ op'[c].dom = op[c].dom
  BY SameCall DEF TypeInv, TypeOK, HasDomain
<1>1. ASSUME NEW q \in Domains, doc'[q].life # "gone", doc'[q].linked PROVE Ok(q)'
  <2>1. doc[q].life # "gone" /\ doc[q].linked => Ok(q)
    BY DEF Served, Ok
  <2>2. CASE AddSave(c) /\ q = op[c].dom
    <3>1. op[c].linked
      BY <1>0, <1>1, <2>2 DEF AddSave, NoDoc
    <3>2. server[q] # "absent"
      BY <1>0, <2>2, <3>1 DEF Served, AddSave, At
    <3>3. Ok(q)
      BY <3>2 DEF Ok
    <3> QED BY <1>1, <3>3, OkKept
  <2>3. CASE (Link(c) \/ RetryLink(c)) /\ q = op[c].dom /\ Kept(q)
    <3>1. op[c].at = "link"
      BY <2>3 DEF Link, RetryLink, At
    <3>2. Ok(q)
      BY <1>0, <2>3, <3>1 DEF Served, Ok, Kept
    <3> QED BY <1>1, <3>2, OkKept
  <2>4. CASE doc'[q].linked = doc[q].linked /\ doc'[q].life = doc[q].life
    BY <1>1, <2>1, <2>4, OkKept
  <2> QED BY <1>1, <2>2, <2>3, <2>4, DocByCall
<1>2. ASSUME NEW q \in Domains, doc'[q].life = "new" PROVE ~doc'[q].linked
  <2>1. ~(AddSave(c) /\ q = op[c].dom)
    BY <1>0, <1>2 DEF AddSave, NoDoc
  <2>2. doc[q].life = "new" /\ ~doc[q].linked
    BY <1>2, <2>1, DocByCall DEF Served
  <2> QED BY <2>1, <2>2, DocByCall DEF Kept
<1>3. ASSUME NEW b \in Calls, op'[b].at # "idle" PROVE Trusted(b)'
  <2>1. CASE b = c
    BY <1>3, <2>1, TrustedStep
  <2>2. CASE b # c
    BY <1>0, <1>3, <2>2, TrustedKept
  <2> QED BY <2>1, <2>2
<1>4. ASSUME NEW a \in Calls, NEW b \in Calls, op'[a].at # "idle", op'[b].at # "idle",
             op'[b].kind = "add", op'[a].dom = op'[b].dom
      PROVE  a = b
  <2>1. op[a].at # "idle" /\ op[b].at # "idle" /\ op[b].kind = "add" /\ op[a].dom = op[b].dom
    BY <1>0, <1>4
  <2> QED BY <2>1 DEF Served
<1> QED BY <1>1, <1>2, <1>3, <1>4 DEF Served, Trusted, Ok

\* Every step does.
LEMMA ServedStep == TypeInv /\ Served /\ [Next]_vars => Served'
<1> SUFFICES ASSUME TypeInv, Served, [Next]_vars PROVE Served'
  OBVIOUS
<1> USE DEF worldVars, boundVars, historyVars
<1>0. op \in [Calls -> Op] /\ doc \in [Domains -> Doc] /\ HasDomain
  BY DEF TypeInv, TypeOK
<1>1. ASSUME NEW c \in Calls, CallStep(c) PROVE Served'
  BY <1>1, ServedByCall
<1>2. ASSUME NEW c \in Calls, NEW d \in Domains, Begin(c, d) PROVE Served'
  <2>1. /\ \A b \in Calls \ {c} : op'[b] = op[b]
        /\ op[c] = Idle /\ op'[c].dom = d /\ op'[c].at # "link"
        /\ \/ /\ op'[c].kind = "add" /\ ~op'[c].linked /\ doc[d].life = "new"
              /\ \A b \in Calls : op[b].dom # d
           \/ op'[c].kind # "add" /\ doc[d].life = "kept"
        /\ UNCHANGED <<doc, server, cut>>
    <3>1. ASSUME NEW kind \in Kinds \ {"add"}, NEW stage \in {"start", "provision", "look"},
                 Load(c, kind, d, stage)
          PROVE  /\ \A b \in Calls \ {c} : op'[b] = op[b]
                 /\ op[c] = Idle /\ op'[c].dom = d /\ op'[c].at # "link"
                 /\ op'[c].kind # "add" /\ doc[d].life = "kept"
                 /\ UNCHANGED <<doc, server, cut>>
      BY <1>0, <3>1 DEF Load, Idle, Kept
    <3>2. CASE AddBegin(c, d)
      BY <1>0, <3>2 DEF AddBegin, Idle
    <3>3. CASE Retry(c, d)
      BY <3>1, <3>3 DEF Retry, Kinds
    <3>4. CASE Activate(c, d) \/ Connect(c, d) \/ RestoreDns(c, d) \/ Overview(c, d) \/ Delete(c, d)
      BY <3>1, <3>4 DEF Activate, Connect, RestoreDns, Overview, Delete, Kinds
    <3> QED BY <1>2, <3>2, <3>3, <3>4 DEF Begin
  <2>2. \A q \in Domains : Excused(q) => Excused(q)'
    <3>1. \A b \in Calls : op[b].at = "doc" => op'[b] = op[b]
      BY <2>1 DEF Idle
    <3> QED BY <2>1, <3>1 DEF Excused, Deleting, At
  <2>3. ASSUME NEW b \in Calls, op'[b].at # "idle" PROVE Trusted(b)'
    <3>1. CASE b = c
      BY <2>1, <3>1 DEF Trusted
    <3>2. CASE b # c
      BY <1>0, <2>1, <2>2, <2>3, <3>2 DEF Trusted, Served, Ok, HasDomain
    <3> QED BY <3>1, <3>2
  <2>4. ASSUME NEW a \in Calls, NEW b \in Calls, op'[a].at # "idle", op'[b].at # "idle",
               op'[b].kind = "add", op'[a].dom = op'[b].dom
        PROVE  a = b
    <3>1. CASE a # c /\ b # c
      BY <2>1, <2>4, <3>1 DEF Served
    <3>2. CASE a = c /\ b # c
      BY <1>0, <2>1, <2>4, <3>2 DEF Served
    <3>3. CASE a # c /\ b = c
      BY <2>1, <2>4, <3>3
    <3> QED BY <3>1, <3>2, <3>3
  <2> QED BY <2>1, <2>2, <2>3, <2>4 DEF Served, Trusted, Ok
<1>3. ASSUME /\ \A q \in Domains : /\ doc'[q].life = doc[q].life
                                   /\ doc'[q].linked = doc[q].linked
             /\ UNCHANGED <<server, op, cut>>
      PROVE  Served'
  <2>1. \A q \in Domains : Excused(q) => Excused(q)'
    BY <1>3 DEF Excused, Deleting, At
  <2> QED BY <1>0, <1>3, <2>1 DEF Served, HasDomain
<1>4. CASE Crash
  <2>1. \A q \in Domains : Excused(q) => Excused(q)'
    BY <1>4 DEF Crash, Excused
  <2> QED BY <1>4, <2>1 DEF Crash, Served, Idle
<1>5. CASE SweepStep
  <2>1. \A q \in Domains : /\ doc'[q].life = doc[q].life /\ doc'[q].linked = doc[q].linked
    BY <1>5, DocBySweep
  <2>2. UNCHANGED <<server, op, cut>>
    BY <1>5 DEF SweepStep, SweepBegin, SweepSettle, SweepDiscard, SweepEnd, SweepFail, SweepLook
  <2> QED BY <1>3, <2>1, <2>2
<1>6. ASSUME NEW d \in Domains, Publish(d) \/ Subscribe(d) PROVE Served'
  BY <1>3, <1>6 DEF Publish, Subscribe
<1> QED BY <1>1, <1>2, <1>3, <1>4, <1>5, <1>6 DEF Next, Tick, vars

\* A document that names a domain of the mail server names one that is there,
\* unless a deletion that removed it is about to remove the document or was cut
\* off before it could (executeDeletionCascade against activateDomain, retryVerify
\* and the creation of the domain).
THEOREM LinkedServed == Spec => []LinkedIsServed
<1>1. Init => Served
  BY DEF Init, Served, NoDoc, Idle
<1>2. Served => LinkedIsServed
  BY DEF Served, LinkedIsServed, Excused, Kept
<1> QED BY <1>1, <1>2, TypeInit, TypeStep, ServedStep, PTL DEF Spec

=============================================================================
