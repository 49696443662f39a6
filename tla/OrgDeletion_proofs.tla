-------------------------- MODULE OrgDeletion_proofs --------------------------
(***************************************************************************)
(* Proofs about OrgDeletion: the states are well typed, at most one record  *)
(* is active, nothing is purged before the registrant is barred, a purge    *)
(* that no administrator forced has waited its two periods, and concurrent  *)
(* confirmations guess at a code a bounded number of times.                 *)
(***************************************************************************)
EXTENDS OrgDeletion, FiniteSetTheorems, TLAPS

\* The fields of a call and of a record, for the steps that change one of them.
AtStages == {"idle", "create", "save", "tenant", "status", "infra", "claim",
             "block", "purge", "remove", "complete"}

\* The call that does nothing, and the record not made yet, are well typed.
LEMMA Constants == Idle \in Op /\ NoRec \in Rec
  BY SetsAssumption, BoundsAssumption
  DEF Idle, Op, NoRec, Rec, Stages, ActiveStages, TenantStatuses, Waits, Kinds

\* A call that goes on keeps its type.
LEMMA GotoTyped ==
  ASSUME op \in [Calls -> Op], NEW c \in Calls, NEW stage \in AtStages, Goto(c, stage)
  PROVE  op' \in [Calls -> Op]
  BY DEF Goto, Op, AtStages

\* A call that ends keeps its type.
LEMMA FinishTyped ==
  ASSUME op \in [Calls -> Op], NEW c \in Calls, Finish(c)
  PROVE  op' \in [Calls -> Op]
  BY Constants DEF Finish

\* A call that begins with a well-typed operation keeps its type.
LEMMA BeginTyped ==
  ASSUME TypeOK, NEW c \in Calls, NEW k \in Op, Begin(c, k)
  PROVE  op' \in [Calls -> Op] /\ begun' \in Nat
  BY BoundsAssumption DEF Begin, TypeOK

\* Ending a record, with its code kept or cleared, keeps its type.
LEMMA EndTyped ==
  ASSUME rec \in [Records -> Rec], NEW r, NEW stage \in Stages, NEW k \in Codes \cup {None},
         \/ rec' = [rec EXCEPT ![r].stage = stage, ![r].code = k]
         \/ rec' = [rec EXCEPT ![r].stage = stage]
  PROVE  rec' \in [Records -> Rec]
  BY DEF Rec

\* A call that works on a record has one.
HasRecord ==
    \A c \in Calls :
        op[c].kind \in {"confirm", "cancel", "initiate", "generate", "verify"}
            => op[c].rec \in Records

TypeInv == TypeOK /\ HasRecord

\* Init is well typed.
LEMMA TypeInit == Init => TypeOK
<1> SUFFICES ASSUME Init PROVE TypeOK
  OBVIOUS
<1>1. waited \in SUBSET (Records \X Waits)
  BY DEF Init
<1>2. rec \in [Records -> Rec] /\ op \in [Calls -> Op] /\ guesses \in [Codes -> Nat]
  BY Constants DEF Init
<1> QED BY <1>1, <1>2 DEF Init, TypeOK, TenantStatuses

\* Starting a call keeps every variable in its type.
LEMMA TypeStarts ==
  ASSUME TypeOK, NEW c \in Calls, Starts(c)
  PROVE  TypeOK'
<1> USE DEF tenantVars, historyVars
<1>1. CASE Request(c)
  <2> DEFINE k == [Idle EXCEPT !.kind = "request", !.at = "create", !.seen = tenant]
  <2>1. k \in Op
    BY Constants DEF TypeOK, Op, Kinds
  <2> QED BY <1>1, <2>1, BeginTyped DEF Request, TypeOK
<1>2. CASE ForceDelete(c)
  <2> DEFINE k == [Idle EXCEPT !.kind = "force", !.at = "create", !.seen = tenant]
             l(r) == [Idle EXCEPT !.kind = "force", !.at = "block", !.rec = r,
                                   !.code = rec[r].code]
  <2>1. k \in Op
    BY Constants DEF TypeOK, Op, Kinds
  <2>2. \A r \in Active : l(r) \in Op
    BY Constants DEF TypeOK, Op, Kinds, Active, Rec
  <2>3. CASE Begin(c, k)
    BY <1>2, <2>1, <2>3, BeginTyped DEF ForceDelete, TypeOK
  <2>4. ASSUME NEW r \in Active, Begin(c, l(r)) PROVE TypeOK'
    <3>1. op' \in [Calls -> Op] /\ begun' \in Nat
      BY <2>2, <2>4, BeginTyped
    <3> QED BY <1>2, <3>1 DEF ForceDelete, TypeOK
  <2> QED BY <1>2, <2>3, <2>4 DEF ForceDelete
<1>3. ASSUME NEW kind \in {"confirm", "cancel", "initiate"}, NEW r \in Records, Load(c, kind, r)
      PROVE  TypeOK'
  <2> DEFINE k == [Idle EXCEPT !.kind = kind, !.at = "save", !.rec = r,
                             !.code = IF kind = "cancel" THEN rec[r].code ELSE None]
  <2>1. k \in Op
    BY Constants DEF TypeOK, Op, Kinds, Rec
  <2> QED BY <1>3, <2>1, BeginTyped DEF Load, TypeOK
<1>4. ASSUME NEW r \in Records, NEW person \in People, Generate(c, person, r)
      PROVE  TypeOK'
  <2> DEFINE k == [Idle EXCEPT !.kind = "generate", !.at = "save", !.rec = r,
                             !.by = person, !.stage = rec[r].stage]
  <2>1. k \in Op
    BY Constants DEF TypeOK, Op, Kinds, Rec
  <2> QED BY <1>4, <2>1, BeginTyped DEF Generate, TypeOK
<1>5. ASSUME NEW r \in Records, NEW person \in People, NEW right \in BOOLEAN,
             Verify(c, person, r, right)
      PROVE  TypeOK'
  <2> DEFINE k == [Idle EXCEPT !.kind = "verify", !.at = "claim", !.rec = r,
                             !.code = rec[r].code, !.right = right]
  <2>1. k \in Op
    BY Constants DEF TypeOK, Op, Kinds, Rec
  <2> QED BY <1>5, <2>1, BeginTyped DEF Verify, TypeOK
<1>6. ASSUME NEW kind \in {"suspend", "reactivate"}, Route(c, kind)
      PROVE  TypeOK'
  <2> DEFINE k == [Idle EXCEPT !.kind = kind, !.at = "status", !.seen = tenant]
  <2>1. k \in Op
    BY Constants DEF TypeOK, Op, Kinds
  <2> QED BY <1>6, <2>1, BeginTyped DEF Route, TypeOK
<1>7. ASSUME NEW r \in Records, Confirm(c, r) \/ Cancel(c, r) \/ Initiate(c, r)
      PROVE  TypeOK'
  BY <1>3, <1>7 DEF Confirm, Cancel, Initiate
<1> QED BY <1>1, <1>2, <1>4, <1>5, <1>6, <1>7 DEF Starts

\* A step of a call that is under way keeps every variable in its type.
LEMMA TypeSteps ==
  ASSUME TypeInv, TypeOK, NEW c \in Calls, Steps(c)
  PROVE  TypeOK'
<1> USE DEF tenantVars, historyVars
<1>0. /\ op \in [Calls -> Op] /\ rec \in [Records -> Rec]
      /\ op[c].rec \in Records \cup {None} /\ op[c].seen \in TenantStatuses
      /\ op[c].by \in People \cup {None} /\ op[c].code \in Codes \cup {None}
  BY DEF TypeOK, Op
<1>1. ASSUME NEW r \in Records, Create(c, r)
      PROVE  TypeOK'
  <2>1. op' \in [Calls -> Op]
    BY <1>0, <1>1, FinishTyped DEF Create, Op
  <2>2. rec' \in [Records -> Rec]
    <3> DEFINE new == [NoRec EXCEPT !.stage = "requested", !.prev = op[c].seen]
    <3>1. new \in Rec
      BY <1>0, Constants DEF Rec, Stages, ActiveStages
    <3> QED BY <1>0, <1>1, <3>1 DEF Create
  <2> QED BY <1>1, <2>1, <2>2 DEF Create, TypeOK
<1>2. CASE CreateClashes(c)
  BY <1>0, <1>2, FinishTyped DEF CreateClashes, TypeOK
<1>3. CASE ConfirmSave(c)
  <2>1. op' \in [Calls -> Op]
    BY <1>0, <1>3, FinishTyped, GotoTyped DEF ConfirmSave, AtStages
  <2>2. rec' \in [Records -> Rec]
    BY <1>0, <1>3 DEF ConfirmSave, Rec, Stages, ActiveStages
  <2> QED BY <1>3, <2>1, <2>2 DEF ConfirmSave, TypeOK
<1>4. CASE LoadTenant(c)
  <2>1. op' \in [Calls -> Op]
    BY <1>0, <1>4, FinishTyped DEF LoadTenant, TypeOK, Op
  <2> QED BY <1>4, <2>1 DEF LoadTenant, TypeOK
<1>5. CASE SaveStatus(c)
  <2>1. op' \in [Calls -> Op]
    BY <1>0, <1>5, FinishTyped, GotoTyped DEF SaveStatus, AtStages
  <2>2. tenant' \in TenantStatuses
    <3>1. op[c].kind = "cancel" /\ op[c].rec \in Records => rec[op[c].rec].prev \in TenantStatuses
      BY <1>0 DEF Rec
    <3>2. tenant' \in {tenant, Target(c)}
      BY <1>5 DEF SaveStatus
    <3>3. op[c].kind # "cancel" => Target(c) \in TenantStatuses
      BY DEF Target, TypeOK, TenantStatuses
    <3>4. CASE op[c].kind = "cancel" /\ op[c].rec \in Records
      BY <3>1, <3>2, <3>4 DEF Target, TypeOK
    <3> QED BY <3>2, <3>3, <3>4 DEF TypeOK, TypeInv, HasRecord
  <2> QED BY <1>5, <2>1, <2>2 DEF SaveStatus, TypeOK
<1>6. CASE SwitchInfra(c)
  BY <1>0, <1>6, FinishTyped DEF SwitchInfra, TypeOK
<1>7. CASE CancelSave(c)
  <2>1. op' \in [Calls -> Op]
    BY <1>0, <1>7, GotoTyped DEF CancelSave, AtStages
  <2>2. rec' \in [Records -> Rec]
    <3> DEFINE r == op[c].rec
    <3>1. "cancelled" \in Stages
      BY DEF Stages, ActiveStages
    <3>2. CASE op[c].code = None
      <4>1. rec' = [rec EXCEPT ![r].stage = "cancelled"]
        <5>1. rec' = [rec EXCEPT ![r].stage = "cancelled", ![r].code = @]
          BY <1>7, <3>2 DEF CancelSave
        <5>2. ASSUME NEW q \in Records
              PROVE  rec'[q] = [rec EXCEPT ![r].stage = "cancelled"][q]
          BY <5>1, <1>0 DEF Rec
        <5> QED BY <5>1, <5>2, <1>0
      <4> QED BY <1>0, <3>1, <4>1, EndTyped
    <3>3. CASE op[c].code # None
      <4>1. rec' = [rec EXCEPT ![r].stage = "cancelled", ![r].code = None]
        BY <1>7, <3>3 DEF CancelSave
      <4> QED BY <1>0, <3>1, <4>1, EndTyped
    <3> QED BY <3>2, <3>3
  <2> QED BY <1>7, <2>1, <2>2 DEF CancelSave, TypeOK
<1>8. CASE InitiateSave(c)
  <2>1. rec' \in [Records -> Rec]
    <3> DEFINE r == op[c].rec
    <3>1. \/ rec' = rec
          \/ rec' = [rec EXCEPT ![r].stage = "otp_initiated", ![r].due = @ \ {"lock"}]
      BY <1>8 DEF InitiateSave
    <3> QED BY <1>0, <3>1 DEF Rec, Stages, ActiveStages
  <2> QED BY <1>0, <1>8, <2>1, FinishTyped DEF InitiateSave, TypeOK
<1>9. CASE NotSent(c)
  BY <1>0, <1>9, FinishTyped, BoundsAssumption DEF NotSent, TypeOK
<1>10. ASSUME NEW k \in Codes, GenerateSave(c, k)
       PROVE  TypeOK'
  <2>1. rec' \in [Records -> Rec]
    <3> DEFINE r == op[c].rec
               stage == IF op[c].stage = "final_otp_sent" THEN rec[r].stage
                        ELSE "final_otp_sent"
    <3>1. r \in Records => stage \in Stages
      BY <1>0 DEF Rec, Stages, ActiveStages
    <3>2. \/ rec' = rec
          \/ rec' = [rec EXCEPT ![r].stage = stage, ![r].code = k, ![r].to = op[c].by,
                                ![r].live = TRUE, ![r].attempts = 0]
      BY <1>10 DEF GenerateSave
    <3> HIDE DEF stage
    <3> QED BY <1>0, <3>1, <3>2, BoundsAssumption DEF Rec
  <2> QED BY <1>0, <1>10, <2>1, FinishTyped DEF GenerateSave, TypeOK
<1>11. CASE Claim(c)
  <2>1. rec' \in [Records -> Rec]
    BY <1>0, <1>11, BoundsAssumption DEF Claim, Claimable, Rec
  <2>2. op' \in [Calls -> Op]
    BY <1>0, <1>11, FinishTyped, GotoTyped DEF Claim, AtStages
  <2>3. guesses' \in [Codes -> Nat]
    BY <1>11 DEF Claim, TypeOK
  <2> QED BY <1>11, <2>1, <2>2, <2>3 DEF Claim, TypeOK
<1>12. CASE Block(c)
  BY <1>0, <1>12, GotoTyped DEF Block, AtStages, TypeOK
<1>13. CASE Purge(c)
  BY <1>0, <1>13, GotoTyped DEF Purge, AtStages, TypeOK
<1>14. CASE PurgeFails(c)
  BY <1>0, <1>14, FinishTyped, BoundsAssumption DEF PurgeFails, TypeOK
<1>15. CASE Remove(c)
  BY <1>0, <1>15, GotoTyped DEF Remove, AtStages, TypeOK, TenantStatuses
<1>16. CASE Complete(c)
  <2>1. rec' \in [Records -> Rec]
    <3> DEFINE r == op[c].rec
    <3>1. "completed" \in Stages
      BY DEF Stages, ActiveStages
    <3>2. CASE op[c].code = None
      <4>1. rec' = [rec EXCEPT ![r].stage = "completed"]
        <5>1. rec' = [rec EXCEPT ![r].stage = "completed", ![r].code = @]
          BY <1>16, <3>2 DEF Complete
        <5>2. ASSUME NEW q \in Records
              PROVE  rec'[q] = [rec EXCEPT ![r].stage = "completed"][q]
          BY <5>1, <1>0 DEF Rec
        <5> QED BY <5>1, <5>2, <1>0
      <4> QED BY <1>0, <3>1, <4>1, EndTyped
    <3>3. CASE op[c].code # None
      <4>1. rec' = [rec EXCEPT ![r].stage = "completed", ![r].code = None]
        BY <1>16, <3>3 DEF Complete
      <4> QED BY <1>0, <3>1, <4>1, EndTyped
    <3> QED BY <3>2, <3>3
  <2> QED BY <1>0, <1>16, <2>1, FinishTyped DEF Complete, TypeOK
<1> QED BY <1>1, <1>2, <1>3, <1>4, <1>5, <1>6, <1>7, <1>8, <1>9, <1>10, <1>11, <1>12,
           <1>13, <1>14, <1>15, <1>16 DEF Steps

\* Every step keeps every variable in its type.
LEMMA TypeStep == TypeInv /\ [Next]_vars => TypeOK'
<1> SUFFICES ASSUME TypeInv, TypeOK, [Next]_vars PROVE TypeOK'
  BY DEF TypeInv
<1> USE DEF tenantVars, historyVars
<1>1. ASSUME NEW c \in Calls, Starts(c) \/ Steps(c) PROVE TypeOK'
  BY <1>1, TypeStarts, TypeSteps
<1>2. ASSUME NEW r \in Records, CodeExpires(r) PROVE TypeOK'
  <2>1. rec' \in [Records -> Rec]
    BY <1>2 DEF CodeExpires, TypeOK, Rec
  <2> QED BY <1>2, <2>1 DEF CodeExpires, TypeOK
<1>3. ASSUME NEW r \in Records, NEW wait \in Waits, Pass(r, wait) PROVE TypeOK'
  <2>1. rec' \in [Records -> Rec]
    BY <1>3 DEF Pass, TypeOK, Rec
  <2>2. waited' \in SUBSET (Records \X Waits)
    BY <1>3 DEF Pass, TypeOK
  <2> QED BY <1>3, <2>1, <2>2 DEF Pass, TypeOK
<1>4. ASSUME NEW has \in BOOLEAN, SetDomains(has) PROVE TypeOK'
  BY <1>4 DEF SetDomains, TypeOK
<1>5. CASE Crash
  <2>1. op' \in [Calls -> Op]
    BY <1>5, Constants DEF Crash
  <2> QED BY <1>5, <2>1, BoundsAssumption DEF Crash, TypeOK
<1>6. CASE UNCHANGED vars
  BY <1>6 DEF vars, TypeOK
<1> QED BY <1>1, <1>2, <1>3, <1>4, <1>5, <1>6 DEF Next

\* A call that begins, and what it is.
LEMMA StartedCall ==
  ASSUME TypeOK, NEW c \in Calls, Starts(c)
  PROVE  /\ \A d \in Calls \ {c} : op'[d] = op[d]
         /\ \/ op'[c].kind \in {"request", "force", "suspend", "reactivate"}
            \/ op'[c].rec \in Records
<1> USE DEF Begin, Idle
<1>0. op \in [Calls -> Op]
  BY DEF TypeOK
<1>1. CASE Request(c)
  BY <1>0, <1>1 DEF Request
<1>2. CASE ForceDelete(c)
  BY <1>0, <1>2 DEF ForceDelete
<1>3. ASSUME NEW r \in Records, Confirm(c, r) \/ Cancel(c, r) \/ Initiate(c, r)
      PROVE  op'[c].rec \in Records /\ \A d \in Calls \ {c} : op'[d] = op[d]
  BY <1>0, <1>3 DEF Confirm, Cancel, Initiate, Load
<1>4. ASSUME NEW r \in Records, NEW person \in People, Generate(c, person, r)
      PROVE  op'[c].rec \in Records /\ \A d \in Calls \ {c} : op'[d] = op[d]
  BY <1>0, <1>4 DEF Generate
<1>5. ASSUME NEW r \in Records, NEW person \in People, NEW right \in BOOLEAN,
             Verify(c, person, r, right)
      PROVE  op'[c].rec \in Records /\ \A d \in Calls \ {c} : op'[d] = op[d]
  BY <1>0, <1>5 DEF Verify
<1>6. ASSUME NEW kind \in {"suspend", "reactivate"}, Route(c, kind)
      PROVE  op'[c].kind = kind /\ \A d \in Calls \ {c} : op'[d] = op[d]
  BY <1>0, <1>6 DEF Route
<1> QED BY <1>1, <1>2, <1>3, <1>4, <1>5, <1>6 DEF Starts

\* A call that goes on is the same operation on the same record, or it ends.
LEMMA GoneOn ==
  ASSUME TypeOK, NEW c \in Calls, Steps(c)
  PROVE  /\ \A d \in Calls \ {c} : op'[d] = op[d]
         /\ \/ op'[c] = Idle
            \/ /\ op'[c].kind = op[c].kind
               /\ \/ op[c].kind = "force"
                  \/ /\ op'[c].rec = op[c].rec /\ op'[c].code = op[c].code
                     /\ op'[c].right = op[c].right
<1>0. op \in [Calls -> Op]
  BY DEF TypeOK
<1>1. CASE Finish(c)
  BY <1>0, <1>1 DEF Finish
<1>2. CASE \E stage \in AtStages : Goto(c, stage)
  BY <1>0, <1>2 DEF Goto, Op
<1>3. ASSUME NEW r \in Records, op[c].kind = "force",
             op' = [op EXCEPT ![c].at = "block", ![c].rec = r]
      PROVE  op'[c].kind = op[c].kind /\ \A d \in Calls \ {c} : op'[d] = op[d]
  BY <1>0, <1>3 DEF Op
<1>4. ASSUME op' = [op EXCEPT ![c].at = "status", ![c].seen = tenant]
      PROVE  /\ op'[c].kind = op[c].kind /\ op'[c].rec = op[c].rec
             /\ op'[c].code = op[c].code /\ op'[c].right = op[c].right
             /\ \A d \in Calls \ {c} : op'[d] = op[d]
  BY <1>0, <1>4 DEF Op
<1>5. ASSUME NEW r \in Records, Create(c, r), ~Finish(c)
      PROVE  op[c].kind = "force" /\ op' = [op EXCEPT ![c].at = "block", ![c].rec = r]
  BY <1>5 DEF Create
<1>6. ASSUME LoadTenant(c), ~Finish(c)
      PROVE  op' = [op EXCEPT ![c].at = "status", ![c].seen = tenant]
  BY <1>6 DEF LoadTenant
<1>7. ASSUME ~\E r \in Records : Create(c, r), ~LoadTenant(c)
      PROVE  Finish(c) \/ \E stage \in AtStages : Goto(c, stage)
  BY <1>7 DEF Steps, CreateClashes, ConfirmSave, SaveStatus, SwitchInfra, CancelSave,
              InitiateSave, NotSent, GenerateSave, Claim, Block, Purge, PurgeFails, Remove,
              Complete, AtStages
<1> QED BY <1>1, <1>2, <1>3, <1>4, <1>5, <1>6, <1>7

\* A call gets its record when it begins and keeps it while it goes on.
LEMMA RecordStep == TypeInv /\ [Next]_vars => HasRecord'
<1> SUFFICES ASSUME TypeInv, TypeOK, HasRecord, [Next]_vars,
                    NEW d \in Calls,
                    op'[d].kind \in {"confirm", "cancel", "initiate", "generate", "verify"}
             PROVE  op'[d].rec \in Records
  BY DEF TypeInv, HasRecord
<1>1. CASE op'[d] = op[d]
  BY <1>1 DEF HasRecord
<1>2. ASSUME NEW c \in Calls, Starts(c), op'[d] # op[d] PROVE op'[d].rec \in Records
  BY <1>2, StartedCall
<1>3. ASSUME NEW c \in Calls, Steps(c), op'[d] # op[d] PROVE op'[d].rec \in Records
  <2>1. op'[d] # Idle
    BY NoneAssumption DEF Idle, Kinds
  <2> QED BY <1>3, <2>1, GoneOn DEF HasRecord
<1>4. CASE Crash
  BY <1>4, NoneAssumption DEF Crash, Idle, Kinds
<1>5. ASSUME ~\E c \in Calls : Starts(c) \/ Steps(c), ~Crash PROVE op' = op
  BY <1>5 DEF Next, vars, CodeExpires, Pass, SetDomains
<1> QED BY <1>1, <1>2, <1>3, <1>4, <1>5

\* The type invariant and what each call knows of its record, together.
LEMMA InitTyped == Init => TypeInv
  BY TypeInit, NoneAssumption DEF Init, TypeInv, HasRecord, Idle, Kinds

\* Every step keeps it.
LEMMA TypeInvStep == TypeInv /\ [Next]_vars => TypeInv'
  BY TypeStep, RecordStep DEF TypeInv

\* Every variable keeps its type, whatever the number of calls, records and codes.
THEOREM TypeCorrect == Spec => []TypeOK
<1>1. TypeInv => TypeOK
  BY DEF TypeInv
<1> QED BY <1>1, InitTyped, TypeInvStep, PTL DEF Spec

-----------------------------------------------------------------------------
(* At most one record is active. *)

\* Two active records are one.
Alone == \A r, s \in Active : r = s

\* A step that makes at most record r active, and only when no other one is,
\* leaves at most one.
LEMMA AloneKept ==
  ASSUME Alone, NEW r,
         \A s \in Records : s # r /\ rec'[s].stage \in ActiveStages => rec[s].stage \in ActiveStages,
         \/ ~Clashes(r)
         \/ r \in Records /\ rec'[r].stage \in ActiveStages => rec[r].stage \in ActiveStages
  PROVE  Alone'
  BY DEF Alone, Active, Clashes

\* The unique index keeps at most one record active.
LEMMA AloneStep == TypeInv /\ Alone /\ [Next]_vars => Alone'
<1> SUFFICES ASSUME TypeInv, TypeOK, Alone, [Next]_vars PROVE Alone'
  BY DEF TypeInv
<1>0. rec \in [Records -> Rec]
  BY DEF TypeOK
<1>1. CASE rec' = rec
  BY <1>1 DEF Alone, Active
<1>2. ASSUME NEW c \in Calls, NEW r \in Records, Create(c, r) PROVE Alone'
  BY <1>0, <1>2, AloneKept DEF Create
<1>3. ASSUME NEW c \in Calls, ConfirmSave(c), rec' # rec PROVE Alone'
  <2> DEFINE r == op[c].rec
  <2>1. ~Clashes(r) /\ \A s \in Records : s # r => rec'[s] = rec[s]
    BY <1>0, <1>3 DEF ConfirmSave
  <2> QED BY <2>1, AloneKept
<1>4. ASSUME NEW c \in Calls, InitiateSave(c), rec' # rec PROVE Alone'
  <2> DEFINE r == op[c].rec
  <2>1. ~Clashes(r) /\ \A s \in Records : s # r => rec'[s] = rec[s]
    BY <1>0, <1>4 DEF InitiateSave
  <2> QED BY <2>1, AloneKept
<1>5. ASSUME NEW c \in Calls, NEW k \in Codes, GenerateSave(c, k), rec' # rec PROVE Alone'
  <2> DEFINE r == op[c].rec
             stage == IF op[c].stage = "final_otp_sent" THEN rec[r].stage ELSE "final_otp_sent"
  <2>1. \A s \in Records : s # r => rec'[s] = rec[s]
    BY <1>0, <1>5 DEF GenerateSave
  <2>2. r \in Records => rec'[r].stage = stage
    BY <1>0, <1>5 DEF GenerateSave, Rec
  <2>3. stage \in ActiveStages => ~Clashes(r)
    BY <1>5 DEF GenerateSave
  <2> QED BY <2>1, <2>2, <2>3, AloneKept
<1>6. ASSUME NEW c \in Calls, CancelSave(c) PROVE Alone'
  <2>1. \A s \in Records : rec'[s].stage \in {rec[s].stage, "cancelled"}
    BY <1>0, <1>6 DEF CancelSave, Rec
  <2> QED BY <2>1 DEF Alone, Active, ActiveStages
<1>7. ASSUME NEW c \in Calls, Complete(c) PROVE Alone'
  <2>1. \A s \in Records : rec'[s].stage \in {rec[s].stage, "completed"}
    BY <1>0, <1>7 DEF Complete, Rec
  <2> QED BY <2>1 DEF Alone, Active, ActiveStages
<1>8. ASSUME NEW c \in Calls, Claim(c) PROVE Alone'
  <2>1. \A s \in Records : rec'[s].stage = rec[s].stage
    BY <1>0, <1>8 DEF Claim, Rec
  <2> QED BY <2>1 DEF Alone, Active
<1>9. ASSUME NEW r \in Records, CodeExpires(r) \/ \E wait \in Waits : Pass(r, wait)
      PROVE  Alone'
  <2>1. \A s \in Records : rec'[s].stage = rec[s].stage
    BY <1>0, <1>9 DEF CodeExpires, Pass, Rec
  <2> QED BY <2>1 DEF Alone, Active
<1>10. ASSUME NEW c \in Calls, Starts(c) PROVE rec' = rec
  BY <1>10 DEF Starts, Request, ForceDelete, Confirm, Cancel, Initiate, Load, Generate, Verify,
               Route
<1>11. ASSUME NEW c \in Calls, Steps(c),
              ~\E r \in Records : Create(c, r), ~ConfirmSave(c), ~CancelSave(c),
              ~InitiateSave(c), ~\E k \in Codes : GenerateSave(c, k), ~Claim(c), ~Complete(c)
       PROVE  rec' = rec
  BY <1>11 DEF Steps, CreateClashes, LoadTenant, SaveStatus, SwitchInfra, NotSent, Block, Purge,
               PurgeFails, Remove
<1>12. SetDomains(TRUE) \/ SetDomains(FALSE) \/ Crash \/ UNCHANGED vars => rec' = rec
  BY DEF SetDomains, Crash, vars
<1> QED BY <1>1, <1>2, <1>3, <1>4, <1>5, <1>6, <1>7, <1>8, <1>9, <1>10, <1>11, <1>12 DEF Next

\* However calls race, at most one record of the tenant is active (the unique
\* partial index of OrganisationDeletion).
THEOREM OneRecord == Spec => []OneActive
<1>1. Init => TypeInv /\ Alone
  BY InitTyped DEF Init, Alone, Active, NoRec, ActiveStages
<1>2. TypeInv /\ Alone /\ [Next]_vars => (TypeInv /\ Alone)'
  BY TypeInvStep, AloneStep
<1>3. Alone => OneActive
  <2> SUFFICES ASSUME Alone PROVE Cardinality(Active) <= 1
    BY DEF OneActive
  <2>1. CASE Active = {}
    BY <2>1, FS_EmptySet
  <2>2. ASSUME NEW r \in Active PROVE Cardinality(Active) <= 1
    <3>1. Active = {r}
      BY DEF Alone
    <3> QED BY <3>1, FS_Singleton
  <2> QED BY <2>1, <2>2
<1> QED BY <1>1, <1>2, <1>3, PTL DEF Spec

-----------------------------------------------------------------------------
(* The registrant is barred before anything is purged. *)

\* The stages that follow blockRegistrationIdentity.
PastBlock == {"purge", "remove", "complete"}

\* No call and no record remembers a tenant that was deleted, so that no status
\* that is restored can be that; whoever is past the block has blocked.
Barred ==
    /\ BarredFirst
    /\ \A c \in Calls : op[c].seen # "deleted" /\ (op[c].at \in PastBlock => blocked)
    /\ \A r \in Records : rec[r].prev # "deleted"

\* A call that begins is before the block and has seen a tenant that is there.
LEMMA StartedBefore ==
  ASSUME TypeOK, NEW c \in Calls, Starts(c)
  PROVE  /\ op'[c].at \notin PastBlock /\ op'[c].seen # "deleted"
         /\ UNCHANGED <<tenant, infra, blocked, rec>>
<1> USE DEF Begin, Idle, PastBlock, tenantVars
<1>0. op \in [Calls -> Op]
  BY DEF TypeOK
<1>1. CASE Request(c)
  BY <1>0, <1>1 DEF Request
<1>2. CASE ForceDelete(c)
  <2>1. op'[c].at \in {"create", "block"} /\ op'[c].seen \in {tenant, "active"}
    <3>1. CASE Active = {}
      BY <1>0, <1>2, <3>1 DEF ForceDelete
    <3>2. CASE \E r \in Active : Begin(c, [Idle EXCEPT !.kind = "force", !.at = "block",
                                            !.rec = r, !.code = rec[r].code])
      BY <1>0, <3>2
    <3> QED BY <1>2, <3>1, <3>2 DEF ForceDelete
  <2> QED BY <1>2, <2>1 DEF ForceDelete
<1>3. ASSUME NEW r \in Records, Confirm(c, r) \/ Cancel(c, r) \/ Initiate(c, r)
      PROVE  /\ op'[c].at \notin PastBlock /\ op'[c].seen # "deleted"
             /\ UNCHANGED <<tenant, infra, blocked, rec>>
  BY <1>0, <1>3 DEF Confirm, Cancel, Initiate, Load
<1>4. ASSUME NEW r \in Records, NEW person \in People, Generate(c, person, r)
      PROVE  /\ op'[c].at \notin PastBlock /\ op'[c].seen # "deleted"
             /\ UNCHANGED <<tenant, infra, blocked, rec>>
  BY <1>0, <1>4 DEF Generate
<1>5. ASSUME NEW r \in Records, NEW person \in People, NEW right \in BOOLEAN,
             Verify(c, person, r, right)
      PROVE  /\ op'[c].at \notin PastBlock /\ op'[c].seen # "deleted"
             /\ UNCHANGED <<tenant, infra, blocked, rec>>
  BY <1>0, <1>5 DEF Verify
<1>6. ASSUME NEW kind \in {"suspend", "reactivate"}, Route(c, kind)
      PROVE  /\ op'[c].at \notin PastBlock /\ op'[c].seen # "deleted"
             /\ UNCHANGED <<tenant, infra, blocked, rec>>
  BY <1>0, <1>6 DEF Route
<1> QED BY <1>1, <1>2, <1>3, <1>4, <1>5, <1>6 DEF Starts

\* A call that goes on gets past the block only by Block, and reads the status
\* only of a tenant that is there.
LEMMA GoneOnBefore ==
  ASSUME TypeOK, Barred, NEW c \in Calls, Steps(c)
  PROVE  /\ op'[c].seen # "deleted"
         /\ op'[c].at \in PastBlock => op[c].at \in PastBlock \/ Block(c)
<1> USE DEF PastBlock
<1>0. op \in [Calls -> Op] /\ op[c].seen # "deleted"
  BY DEF TypeOK, Barred
<1>1. CASE Finish(c)
  BY <1>0, <1>1 DEF Finish, Idle
<1>2. ASSUME NEW stage \in AtStages, Goto(c, stage)
      PROVE  op'[c].at = stage /\ op'[c].seen # "deleted"
  BY <1>0, <1>2 DEF Goto, Op
<1>3. ASSUME NEW r \in Records, Create(c, r), ~Finish(c)
      PROVE  op'[c].at = "block" /\ op'[c].seen # "deleted"
  BY <1>0, <1>3 DEF Create, Op
<1>4. ASSUME LoadTenant(c), ~Finish(c)
      PROVE  op'[c].at = "status" /\ op'[c].seen # "deleted"
  BY <1>0, <1>4 DEF LoadTenant, Op
<1>5. ASSUME ~\E r \in Records : Create(c, r), ~LoadTenant(c), ~Finish(c)
      PROVE  \E stage \in AtStages : /\ Goto(c, stage)
                                     /\ stage \in PastBlock => op[c].at \in PastBlock \/ Block(c)
  BY <1>5 DEF Steps, CreateClashes, ConfirmSave, SaveStatus, SwitchInfra, CancelSave,
              InitiateSave, NotSent, GenerateSave, Claim, Block, Purge, PurgeFails, Remove,
              Complete, AtStages
<1> QED BY <1>1, <1>2, <1>3, <1>4, <1>5

\* The status a record restores is the one its request saw.
LEMMA PrevKept ==
  ASSUME TypeOK, Barred, NEW c \in Calls, Steps(c)
  PROVE  \A r \in Records : rec'[r].prev # "deleted"
<1> SUFFICES ASSUME NEW q \in Records PROVE rec'[q].prev # "deleted"
  OBVIOUS
<1>0. /\ rec \in [Records -> Rec] /\ rec[q].prev # "deleted" /\ op[c].seen # "deleted"
  BY DEF TypeOK, Barred
<1>1. ASSUME NEW r \in Records, Create(c, r) PROVE rec'[q].prev # "deleted"
  BY <1>0, <1>1 DEF Create, NoRec
<1>2. CASE ConfirmSave(c)
  BY <1>0, <1>2 DEF ConfirmSave, Rec
<1>3. CASE CancelSave(c)
  BY <1>0, <1>3 DEF CancelSave, Rec
<1>4. CASE InitiateSave(c)
  BY <1>0, <1>4 DEF InitiateSave, Rec
<1>5. ASSUME NEW k \in Codes, GenerateSave(c, k) PROVE rec'[q].prev # "deleted"
  <2> DEFINE r == op[c].rec
             stage == IF op[c].stage = "final_otp_sent" THEN rec[r].stage
                      ELSE "final_otp_sent"
  <2>1. \/ rec' = rec
        \/ rec' = [rec EXCEPT ![r].stage = stage, ![r].code = k, ![r].to = op[c].by,
                              ![r].live = TRUE, ![r].attempts = 0]
    BY <1>5 DEF GenerateSave
  <2> HIDE DEF stage
  <2> QED BY <1>0, <2>1 DEF Rec
<1>6. CASE Claim(c)
  BY <1>0, <1>6 DEF Claim, Rec
<1>7. CASE Complete(c)
  BY <1>0, <1>7 DEF Complete, Rec
<1>8. ASSUME rec' = rec PROVE rec'[q].prev # "deleted"
  BY <1>0, <1>8
<1> QED BY <1>1, <1>2, <1>3, <1>4, <1>5, <1>6, <1>7, <1>8
        DEF Steps, CreateClashes, LoadTenant, SaveStatus, SwitchInfra, NotSent, Block, Purge,
            PurgeFails, Remove

\* What a step of a call does to the tenant it does while the block stands.
LEMMA GoneWhenBlocked ==
  ASSUME TypeInv, TypeOK, Barred, NEW c \in Calls, Steps(c)
  PROVE  /\ (blocked => blocked')
         /\ tenant' = "deleted" \/ infra' = "gone" => blocked'
<1> USE DEF tenantVars, PastBlock
<1>1. CASE SaveStatus(c)
  <2>1. Target(c) = "deleted" => tenant = "deleted"
    BY DEF Target, Barred, TypeInv, HasRecord
  <2> QED BY <1>1, <2>1 DEF SaveStatus, Barred, BarredFirst
<1>2. CASE SwitchInfra(c)
  BY <1>2 DEF SwitchInfra, Barred, BarredFirst
<1>3. CASE Block(c)
  BY <1>3 DEF Block
<1>4. CASE Purge(c)
  BY <1>4 DEF Purge, Barred
<1>5. CASE Remove(c)
  BY <1>5 DEF Remove, Barred
<1>6. ASSUME UNCHANGED <<tenant, infra, blocked>>
      PROVE  /\ (blocked => blocked')
             /\ tenant' = "deleted" \/ infra' = "gone" => blocked'
  BY <1>6 DEF Barred, BarredFirst
<1> QED BY <1>1, <1>2, <1>3, <1>4, <1>5, <1>6
        DEF Steps, Create, CreateClashes, ConfirmSave, LoadTenant, CancelSave, InitiateSave,
            NotSent, GenerateSave, Claim, PurgeFails, Complete

\* Every step keeps the block ahead of the purge.
LEMMA BarredStep == TypeInv /\ Barred /\ [Next]_vars => Barred'
<1> SUFFICES ASSUME TypeInv, TypeOK, Barred, [Next]_vars PROVE Barred'
  BY DEF TypeInv
<1> USE DEF tenantVars
<1>1. ASSUME NEW c \in Calls, Starts(c) PROVE Barred'
  BY <1>1, StartedCall, StartedBefore DEF Barred, BarredFirst
<1>2. ASSUME NEW c \in Calls, Steps(c) PROVE Barred'
  <2>1. /\ (blocked => blocked') /\ BarredFirst'
        /\ \A r \in Records : rec'[r].prev # "deleted"
    BY <1>2, PrevKept, GoneWhenBlocked DEF BarredFirst
  <2>2. ASSUME NEW d \in Calls
        PROVE  op'[d].seen # "deleted" /\ (op'[d].at \in PastBlock => blocked')
    <3>1. CASE d # c
      BY <1>2, <2>1, <3>1, GoneOn DEF Barred
    <3>2. CASE d = c
      <4>1. Block(c) => blocked'
        BY DEF Block
      <4> QED BY <1>2, <2>1, <3>2, <4>1, GoneOnBefore DEF Barred, PastBlock
    <3> QED BY <3>1, <3>2
  <2> QED BY <2>1, <2>2 DEF Barred
<1>3. ASSUME NEW r \in Records, CodeExpires(r) \/ \E wait \in Waits : Pass(r, wait)
      PROVE  Barred'
  <2>1. \A q \in Records : rec'[q].prev = rec[q].prev
    BY <1>3 DEF CodeExpires, Pass, TypeOK, Rec
  <2> QED BY <1>3, <2>1 DEF CodeExpires, Pass, Barred, BarredFirst
<1>4. ASSUME NEW has \in BOOLEAN, SetDomains(has) PROVE Barred'
  BY <1>4 DEF SetDomains, Barred, BarredFirst
<1>5. CASE Crash
  BY <1>5 DEF Crash, Barred, BarredFirst, Idle, PastBlock
<1>6. CASE UNCHANGED vars
  BY <1>6 DEF vars, Barred, BarredFirst
<1> QED BY <1>1, <1>2, <1>3, <1>4, <1>5, <1>6 DEF Next

\* Whatever fails or restarts on the way, an organisation that has lost anything
\* to a purge has a barred registrant (finaliseDeletion).
THEOREM BarredBeforePurge == Spec => []BarredFirst
<1>1. Init => TypeInv /\ Barred
  BY InitTyped DEF Init, Barred, BarredFirst, Idle, NoRec, PastBlock
<1>2. TypeInv /\ Barred /\ [Next]_vars => (TypeInv /\ Barred)'
  BY TypeInvStep, BarredStep
<1>3. Barred => BarredFirst
  BY DEF Barred
<1> QED BY <1>1, <1>2, <1>3, PTL DEF Spec

-----------------------------------------------------------------------------
(* A purge that nobody forced is earned. *)

\* What a record's stage and dates say has happened to it.
Dated ==
    \A r \in Records :
       /\ \A wait \in rec[r].due : <<r, wait>> \in waited
       /\ rec[r].stage \in {"otp_initiated", "final_otp_sent"} => <<r, "suspension">> \in waited
       /\ rec[r].stage = "final_otp_sent" => <<r, "lock">> \in waited
       /\ rec[r].code \in issued \cup {None}

\* What a call that goes on may rely on, though its record has changed since.
Waited(k) ==
    /\ k.kind = "initiate" => <<k.rec, "suspension">> \in waited
    /\ k.kind \in {"generate", "verify"} => \A wait \in Waits : <<k.rec, wait>> \in waited
    /\ k.kind = "verify" => k.code \in issued \cup {None}

Entitled ==
    \A c \in Calls :
       /\ Waited(op[c])
       /\ op[c].kind = "verify" /\ op[c].at \in Finalising => op[c].right /\ op[c].code # None

\* The history only grows.
LEMMA HistoryGrows ==
  [Next]_vars => issued \subseteq issued' /\ waited \subseteq waited'
<1> USE DEF historyVars
<1>1. ASSUME NEW c \in Calls, Starts(c) PROVE UNCHANGED <<issued, waited>>
  BY <1>1 DEF Starts, Request, ForceDelete, Confirm, Cancel, Initiate, Load, Generate, Verify,
              Route
<1>2. ASSUME NEW c \in Calls, Steps(c) PROVE issued \subseteq issued' /\ waited' = waited
  BY <1>2 DEF Steps, Create, CreateClashes, ConfirmSave, LoadTenant, SaveStatus, SwitchInfra,
              CancelSave, InitiateSave, NotSent, GenerateSave, Claim, Block, Purge, PurgeFails,
              Remove, Complete
<1> QED BY <1>1, <1>2 DEF Next, CodeExpires, Pass, SetDomains, Crash, vars

\* A call begins with what its record says has happened.
LEMMA StartedEntitled ==
  ASSUME TypeOK, Dated, NEW c \in Calls, Starts(c)
  PROVE  /\ (Waited(op[c]))'
         /\ op'[c].at = "block" => op'[c].kind = "force"
         /\ op'[c].at \notin Finalising \ {"block"}
         /\ UNCHANGED <<rec, issued, waited>>
<1> USE DEF Begin, Idle, tenantVars, historyVars, Waited, Finalising
<1>0. op \in [Calls -> Op] /\ rec \in [Records -> Rec] /\ None \notin Kinds
  BY NoneAssumption DEF TypeOK
<1>1. CASE Request(c)
  BY <1>0, <1>1 DEF Request
<1>2. CASE ForceDelete(c)
  <2>1. op'[c].at \in {"create", "block"} /\ op'[c].kind = "force"
    <3>1. CASE Active = {}
      BY <1>0, <1>2, <3>1 DEF ForceDelete
    <3>2. CASE \E r \in Active : Begin(c, [Idle EXCEPT !.kind = "force", !.at = "block",
                                            !.rec = r, !.code = rec[r].code])
      BY <1>0, <3>2
    <3> QED BY <1>2, <3>1, <3>2 DEF ForceDelete
  <2> QED BY <1>2, <2>1 DEF ForceDelete
<1>3. ASSUME NEW r \in Records, Confirm(c, r) \/ Cancel(c, r)
      PROVE  op'[c].at = "save" /\ op'[c].kind \in {"confirm", "cancel"}
             /\ UNCHANGED <<rec, issued, waited>>
  BY <1>0, <1>3 DEF Confirm, Cancel, Load
<1>4. ASSUME NEW r \in Records, Initiate(c, r)
      PROVE  /\ op'[c].at = "save" /\ op'[c].kind = "initiate"
             /\ <<op'[c].rec, "suspension">> \in waited'
             /\ UNCHANGED <<rec, issued, waited>>
  BY <1>0, <1>4 DEF Initiate, Load, SuspensionOver, Dated
<1>5. ASSUME NEW r \in Records, NEW person \in People, Generate(c, person, r)
      PROVE  /\ op'[c].at = "save" /\ op'[c].kind = "generate"
             /\ \A wait \in Waits : <<op'[c].rec, wait>> \in waited'
             /\ UNCHANGED <<rec, issued, waited>>
  <2>1. \A wait \in Waits : <<r, wait>> \in waited
    BY <1>5 DEF Generate, LockOver, Dated, Waits
  <2> QED BY <1>0, <1>5, <2>1 DEF Generate
<1>6. ASSUME NEW r \in Records, NEW person \in People, NEW right \in BOOLEAN,
             Verify(c, person, r, right)
      PROVE  /\ op'[c].at = "claim" /\ op'[c].kind = "verify"
             /\ \A wait \in Waits : <<op'[c].rec, wait>> \in waited'
             /\ op'[c].code \in issued' \cup {None}
             /\ UNCHANGED <<rec, issued, waited>>
  <2>1. (\A wait \in Waits : <<r, wait>> \in waited) /\ rec[r].code \in issued \cup {None}
    BY <1>6 DEF Verify, Dated, Waits
  <2> QED BY <1>0, <1>6, <2>1 DEF Verify
<1>7. ASSUME NEW kind \in {"suspend", "reactivate"}, Route(c, kind)
      PROVE  /\ op'[c].at = "status" /\ op'[c].kind = kind
             /\ UNCHANGED <<rec, issued, waited>>
  BY <1>0, <1>7 DEF Route
<1> QED BY <1>1, <1>2, <1>3, <1>4, <1>5, <1>6, <1>7 DEF Starts

\* Nothing but a claimed attempt with the right code leads a guess to the purge.
LEMMA RightCode ==
  ASSUME TypeOK, NEW c \in Calls, Steps(c),
         op'[c].at \in Finalising, op[c].at \notin Finalising, op[c].kind = "verify"
  PROVE  op[c].right /\ op[c].code # None
<1> USE DEF Finalising
<1>0. op \in [Calls -> Op]
  BY DEF TypeOK
<1>1. ~Finish(c)
  BY <1>0 DEF Finish, Idle
<1>2. ASSUME NEW r \in Records, Create(c, r) PROVE FALSE
  BY <1>1, <1>2 DEF Create
<1>3. CASE LoadTenant(c)
  BY <1>0, <1>1, <1>3 DEF LoadTenant, Op
<1>4. CASE Claim(c)
  BY <1>1, <1>4 DEF Claim
<1>5. ASSUME NEW stage \in AtStages \ Finalising, Goto(c, stage) PROVE FALSE
  BY <1>0, <1>5 DEF Goto, Op
<1> QED BY <1>1, <1>2, <1>3, <1>4, <1>5
        DEF Steps, CreateClashes, ConfirmSave, SaveStatus, SwitchInfra, CancelSave, InitiateSave,
            NotSent, GenerateSave, Block, Purge, PurgeFails, Remove, Complete, AtStages

\* Whoever writes a record writes only what it may rely on.
LEMMA DatedSteps ==
  ASSUME TypeInv, TypeOK, Dated, Entitled, [Next]_vars, NEW c \in Calls, Steps(c)
  PROVE  Dated'
<1> SUFFICES ASSUME NEW q \in Records
             PROVE  /\ \A wait \in rec'[q].due : <<q, wait>> \in waited
                    /\ rec'[q].stage \in {"otp_initiated", "final_otp_sent"}
                          => <<q, "suspension">> \in waited
                    /\ rec'[q].stage = "final_otp_sent" => <<q, "lock">> \in waited
                    /\ rec'[q].code \in issued' \cup {None}
  BY HistoryGrows DEF Dated
<1>0. /\ rec \in [Records -> Rec] /\ issued \subseteq issued'
      /\ \A wait \in rec[q].due : <<q, wait>> \in waited
      /\ rec[q].stage \in {"otp_initiated", "final_otp_sent"} => <<q, "suspension">> \in waited
      /\ rec[q].stage = "final_otp_sent" => <<q, "lock">> \in waited
      /\ rec[q].code \in issued \cup {None}
  BY HistoryGrows DEF TypeOK, Dated
<1>1. ASSUME NEW r \in Records, Create(c, r), r = q
      PROVE  rec'[q].due = {} /\ rec'[q].stage = "requested" /\ rec'[q].code = None
  BY <1>0, <1>1 DEF Create, NoRec
<1>2. ASSUME ConfirmSave(c), rec'[q] # rec[q]
      PROVE  /\ rec'[q].due \subseteq rec[q].due /\ rec'[q].stage = "name_confirmed"
             /\ rec'[q].code = rec[q].code
  BY <1>0, <1>2 DEF ConfirmSave, Rec
<1>3. ASSUME CancelSave(c) \/ Complete(c), rec'[q] # rec[q]
      PROVE  /\ rec'[q].due = rec[q].due /\ rec'[q].stage \in {"cancelled", "completed"}
             /\ rec'[q].code \in {rec[q].code, None}
  BY <1>0, <1>3 DEF CancelSave, Complete, Rec
<1>4. ASSUME InitiateSave(c), rec'[q] # rec[q]
      PROVE  /\ rec'[q].due \subseteq rec[q].due /\ rec'[q].stage = "otp_initiated"
             /\ rec'[q].code = rec[q].code /\ <<q, "suspension">> \in waited
  <2>1. q = op[c].rec /\ op[c].kind = "initiate"
    BY <1>0, <1>4 DEF InitiateSave, At
  <2> QED BY <1>0, <1>4, <2>1 DEF InitiateSave, Rec, Entitled, Waited
<1>5. ASSUME NEW k \in Codes, GenerateSave(c, k), rec'[q] # rec[q]
      PROVE  /\ rec'[q].due = rec[q].due /\ rec'[q].code \in issued'
             /\ \A wait \in Waits : <<q, wait>> \in waited
  <2> DEFINE r == op[c].rec
             stage == IF op[c].stage = "final_otp_sent" THEN rec[r].stage
                      ELSE "final_otp_sent"
  <2>1. rec' = [rec EXCEPT ![r].stage = stage, ![r].code = k, ![r].to = op[c].by,
                           ![r].live = TRUE, ![r].attempts = 0]
    BY <1>5 DEF GenerateSave
  <2>2. op[c].kind = "generate" /\ k \in issued'
    BY <1>5 DEF GenerateSave, At
  <2>3. q = r /\ rec'[q].due = rec[q].due /\ rec'[q].code = k
    <3> HIDE DEF stage
    <3> QED BY <1>0, <1>5, <2>1 DEF Rec
  <2> QED BY <2>2, <2>3 DEF Entitled, Waited
<1>6. ASSUME Claim(c)
      PROVE  /\ rec'[q].due = rec[q].due /\ rec'[q].stage = rec[q].stage
             /\ rec'[q].code = rec[q].code
  BY <1>0, <1>6 DEF Claim, Rec
<1>7. ASSUME NEW r \in Records, Create(c, r), r # q
      PROVE  rec'[q] = rec[q]
  BY <1>0, <1>7 DEF Create
<1>8. ASSUME ~\E r \in Records : Create(c, r), ~ConfirmSave(c), ~CancelSave(c), ~Complete(c),
             ~InitiateSave(c), ~\E k \in Codes : GenerateSave(c, k), ~Claim(c)
      PROVE  rec' = rec
  BY <1>8 DEF Steps, CreateClashes, LoadTenant, SaveStatus, SwitchInfra, NotSent, Block, Purge,
              PurgeFails, Remove
<1>9. CASE rec'[q] = rec[q]
  BY <1>0, <1>9
<1>10. CASE Claim(c)
  BY <1>0, <1>6, <1>10
<1>11. CASE \E k \in Codes : GenerateSave(c, k)
  BY <1>0, <1>5, <1>9, <1>11 DEF Waits
<1>12. CASE ConfirmSave(c) \/ CancelSave(c) \/ Complete(c) \/ InitiateSave(c)
  BY <1>0, <1>2, <1>3, <1>4, <1>9, <1>12
<1>13. CASE \E r \in Records : Create(c, r)
  BY <1>0, <1>1, <1>7, <1>9, <1>13
<1> QED BY <1>8, <1>9, <1>10, <1>11, <1>12, <1>13

\* What a call may rely on stays true as the history grows.
LEMMA WaitedKept ==
  ASSUME NEW k, Waited(k), [Next]_vars
  PROVE  Waited(k)'
  BY HistoryGrows DEF Waited

\* Every step keeps records and calls honest.
LEMMA EarnedStep ==
  TypeInv /\ Dated /\ Entitled /\ [Next]_vars => Dated' /\ Entitled'
<1> SUFFICES ASSUME TypeInv, TypeOK, Dated, Entitled, [Next]_vars PROVE Dated' /\ Entitled'
  BY DEF TypeInv
<1> USE DEF tenantVars, historyVars
<1>0. issued \subseteq issued' /\ waited \subseteq waited'
  BY HistoryGrows
<1>1. ASSUME rec' = rec PROVE Dated'
  BY <1>0, <1>1 DEF Dated
<1>2. ASSUME op' = op PROVE Entitled'
  BY <1>0, <1>2 DEF Entitled, Waited
<1>3. ASSUME NEW c \in Calls, Starts(c) PROVE Dated' /\ Entitled'
  <2>1. ASSUME NEW d \in Calls, d # c
        PROVE  /\ (Waited(op[d]))'
               /\ op'[d].kind = "verify" /\ op'[d].at \in Finalising
                     => op'[d].right /\ op'[d].code # None
    BY <1>0, <1>3, <2>1, StartedCall DEF Entitled, Waited
  <2>2. /\ (Waited(op[c]))'
        /\ op'[c].at = "block" => op'[c].kind = "force"
        /\ op'[c].at \notin Finalising \ {"block"}
    BY <1>3, StartedEntitled DEF Waited
  <2>3. op'[c].kind = "verify" => op'[c].at \notin Finalising
    BY <2>2 DEF Finalising
  <2>4. Entitled'
    BY <2>1, <2>2, <2>3 DEF Entitled
  <2> QED BY <1>1, <1>3, <2>4, StartedEntitled
<1>4. ASSUME NEW c \in Calls, Steps(c) PROVE Dated' /\ Entitled'
  <2>1. ASSUME NEW d \in Calls, op'[d] = op[d]
        PROVE  /\ (Waited(op[d]))'
               /\ op'[d].kind = "verify" /\ op'[d].at \in Finalising
                     => op'[d].right /\ op'[d].code # None
    BY <1>0, <2>1 DEF Entitled, Waited
  <2>2. CASE op'[c] = Idle
    <3>1. /\ (Waited(op[c]))' /\ op'[c].kind # "verify"
      BY <2>2, NoneAssumption DEF Waited, Idle, Kinds
    <3> QED BY <1>4, <2>1, <3>1, DatedSteps, GoneOn DEF Entitled
  <2>3. CASE op'[c].kind = op[c].kind /\ op[c].kind = "force"
    <3>1. /\ (Waited(op[c]))' /\ op'[c].kind # "verify"
      BY <2>3 DEF Waited
    <3> QED BY <1>4, <2>1, <3>1, DatedSteps, GoneOn DEF Entitled
  <2>4. CASE /\ op'[c].kind = op[c].kind /\ op'[c].rec = op[c].rec
             /\ op'[c].code = op[c].code /\ op'[c].right = op[c].right
    <3>1. (Waited(op[c]))'
      BY <1>0, <2>4 DEF Entitled, Waited
    <3>2. op'[c].kind = "verify" /\ op'[c].at \in Finalising => op'[c].right /\ op'[c].code # None
      BY <1>4, <2>4, RightCode DEF Entitled
    <3> QED BY <1>4, <2>1, <3>1, <3>2, DatedSteps, GoneOn DEF Entitled
  <2> QED BY <1>4, <2>2, <2>3, <2>4, GoneOn
<1>5. ASSUME NEW r \in Records, NEW wait \in Waits, Pass(r, wait) PROVE Dated' /\ Entitled'
  <2>1. ASSUME NEW q \in Records
        PROVE  /\ rec'[q].due \subseteq rec[q].due \cup (IF q = r THEN {wait} ELSE {})
               /\ rec'[q].stage = rec[q].stage /\ rec'[q].code = rec[q].code
    BY <1>5 DEF Pass, TypeOK, Rec
  <2>2. <<r, wait>> \in waited' /\ op' = op
    BY <1>5 DEF Pass
  <2> QED BY <1>0, <1>2, <2>1, <2>2 DEF Dated
<1>6. ASSUME NEW r \in Records, CodeExpires(r) PROVE Dated' /\ Entitled'
  <2>1. ASSUME NEW q \in Records
        PROVE  /\ rec'[q].due = rec[q].due
               /\ rec'[q].stage = rec[q].stage /\ rec'[q].code = rec[q].code
    BY <1>6 DEF CodeExpires, TypeOK, Rec
  <2> QED BY <1>0, <1>2, <1>6, <2>1 DEF Dated, CodeExpires
<1>7. ASSUME NEW has \in BOOLEAN, SetDomains(has) PROVE Dated' /\ Entitled'
  BY <1>1, <1>2, <1>7 DEF SetDomains
<1>8. CASE Crash
  <2>1. Entitled'
    BY <1>8, NoneAssumption DEF Crash, Entitled, Waited, Idle, Kinds
  <2> QED BY <1>1, <1>8, <2>1 DEF Crash
<1>9. CASE UNCHANGED vars
  BY <1>1, <1>2, <1>9 DEF vars
<1> QED BY <1>3, <1>4, <1>5, <1>6, <1>7, <1>8, <1>9 DEF Next

\* A purge that nobody forced has a right code behind it and both waiting times
\* of its record, though every call acts on a record it loaded earlier
\* (confirmOrganisationName to verifyFinalOtp).
THEOREM PurgeIsEarned == Spec => []Earned
<1>1. Init => TypeInv /\ Dated /\ Entitled
  BY InitTyped, NoneAssumption DEF Init, Dated, Entitled, Waited, Idle, NoRec, Kinds
<1>2. TypeInv /\ Dated /\ Entitled /\ [Next]_vars => (TypeInv /\ Dated /\ Entitled)'
  BY TypeInvStep, EarnedStep
<1>3. Entitled => Earned
  BY DEF Entitled, Earned, Waited
<1> QED BY <1>1, <1>2, <1>3, PTL DEF Spec

-----------------------------------------------------------------------------
(* Guesses of one code are bounded. *)

\* A guess under way, and those that were loaded with code k.
Pends(c) == op[c].kind = "verify" /\ op[c].at = "claim"
Pending(k) == {c \in Calls : Pends(c) /\ op[c].code = k}
Current(k) == \E r \in Records : rec[r].code = k

\* A code belongs to the one record it was issued for, and whoever guesses it
\* does so on that record.
OneOwner ==
    /\ \A r \in Records : rec[r].code # None => rec[r].code \in issued
    /\ \A c \in Calls : Pends(c) /\ op[c].code # None => op[c].code \in issued
    /\ \A r, s \in Records : rec[r].code # None /\ rec[r].code = rec[s].code => r = s
    /\ \A c \in Calls, r \in Records :
          Pends(c) /\ op[c].code # None /\ op[c].code = rec[r].code => op[c].rec = r

\* While a code is current its guesses are among the record's attempts; when it
\* is no more, only guesses under way are left, and one call took it away.
Slack == MaxAttempts + Cardinality(Calls) - 1
Counted ==
    /\ \A k \in Codes \ issued : guesses[k] = 0
    /\ \A k \in issued, r \in Records : rec[r].code = k => guesses[k] <= rec[r].attempts
    /\ \A k \in issued : ~Current(k) => guesses[k] + Cardinality(Pending(k)) <= Slack

GuessInv == TypeInv /\ OneOwner /\ Counted

\* Guesses under way are finitely many, and not all calls if one does something else.
LEMMA PendingSmall ==
  ASSUME NEW k
  PROVE  /\ IsFiniteSet(Pending(k)) /\ Cardinality(Pending(k)) \in Nat
         /\ Cardinality(Calls) \in Nat
         /\ \A c \in Calls \ Pending(k) : Cardinality(Pending(k)) <= Cardinality(Calls) - 1
<1>1. IsFiniteSet(Calls)
  BY SetsAssumption
<1>2. IsFiniteSet(Pending(k))
  BY <1>1, FS_Subset DEF Pending
<1>3. Cardinality(Pending(k)) \in Nat /\ Cardinality(Calls) \in Nat
  BY <1>1, <1>2, FS_CardinalityType
<1>4. ASSUME NEW c \in Calls \ Pending(k)
      PROVE  Cardinality(Pending(k)) <= Cardinality(Calls) - 1
  <2>1. IsFiniteSet(Calls \ {c}) /\ Cardinality(Calls \ {c}) = Cardinality(Calls) - 1
    BY <1>1, FS_RemoveElement
  <2>2. Pending(k) \subseteq Calls \ {c}
    BY <1>4 DEF Pending
  <2> QED BY <2>1, <2>2, FS_Subset
<1> QED BY <1>2, <1>3, <1>4

\* Fewer guesses under way count less.
LEMMA PendingShrinks ==
  ASSUME NEW k, \A d \in Calls : Pends(d)' => Pends(d) /\ op'[d].code = op[d].code
  PROVE  /\ Pending(k)' \subseteq Pending(k)
         /\ Cardinality(Pending(k)') \in Nat
         /\ Cardinality(Pending(k)') <= Cardinality(Pending(k))
<1>1. Pending(k)' \subseteq Pending(k)
  BY DEF Pending
<1>2. IsFiniteSet(Pending(k))
  BY PendingSmall
<1>3. IsFiniteSet(Pending(k)') /\ Cardinality(Pending(k)') <= Cardinality(Pending(k))
  BY <1>1, <1>2, FS_Subset
<1> QED BY <1>1, <1>3, FS_CardinalityType

\* A step that guesses nothing and issues nothing keeps the count, though a call
\* that is no guess under way may take a code away.
LEMMA Released ==
  ASSUME GuessInv,
         \A r \in Records :
            \/ rec'[r].code = rec[r].code /\ rec'[r].attempts = rec[r].attempts
            \/ rec'[r].code = None /\ \E c \in Calls : ~Pends(c),
         UNCHANGED <<guesses, issued>>,
         \A d \in Calls : Pends(d)' => /\ Pends(d) /\ op'[d].code = op[d].code
                                       /\ op'[d].rec = op[d].rec
  PROVE  (OneOwner /\ Counted)'
<1> USE DEF GuessInv
<1>1. OneOwner'
  BY DEF OneOwner, Pends
<1>2. ASSUME NEW k \in issued, ~Current(k)'
      PROVE  guesses[k] + Cardinality(Pending(k)') <= Slack
  <2>1. Cardinality(Pending(k)') \in Nat /\ Cardinality(Pending(k)') <= Cardinality(Pending(k))
    BY PendingShrinks
  <2>2. guesses[k] \in Nat /\ Cardinality(Pending(k)) \in Nat /\ Cardinality(Calls) \in Nat
    BY <1>2, PendingSmall DEF TypeInv, TypeOK
  <2>3. CASE ~Current(k)
    <3>1. guesses[k] + Cardinality(Pending(k)) <= Slack
      BY <1>2, <2>3 DEF Counted
    <3> QED BY <2>1, <2>2, <3>1, BoundsAssumption DEF Slack
  <2>4. ASSUME NEW r \in Records, rec[r].code = k
        PROVE  guesses[k] + Cardinality(Pending(k)') <= Slack
    <3>1. rec'[r].code # k
      BY <1>2 DEF Current
    <3>2. PICK c \in Calls : ~Pends(c)
      BY <2>4, <3>1
    <3>3. guesses[k] <= rec[r].attempts
      BY <1>2, <2>4 DEF Counted
    <3>4. rec[r].attempts \in 0..MaxAttempts
      BY DEF TypeInv, TypeOK, Rec
    <3>5. c \in Calls \ Pending(k)
      BY <3>2 DEF Pending
    <3>6. Cardinality(Pending(k)) <= Cardinality(Calls) - 1
      BY <3>5, PendingSmall
    <3> QED BY <2>1, <2>2, <3>3, <3>4, <3>6, BoundsAssumption DEF Slack
  <2> QED BY <2>3, <2>4 DEF Current
<1>3. Slack' = Slack
  BY DEF Slack
<1>4. Counted'
  <2>1. \A k \in Codes \ issued : guesses[k] = 0
    BY DEF Counted
  <2>2. ASSUME NEW k \in issued, NEW r \in Records, rec'[r].code = k
        PROVE  guesses[k] <= rec'[r].attempts
    <3>1. k # None
      BY <2>2, SetsAssumption DEF TypeInv, TypeOK
    <3> QED BY <2>2, <3>1 DEF Counted
  <2> QED BY <1>2, <1>3, <2>1, <2>2 DEF Counted
<1> QED BY <1>1, <1>4

\* A guess that begins is for the code and on the record it was loaded from.
LEMMA GuessBegins ==
  ASSUME GuessInv, NEW c \in Calls, Starts(c)
  PROVE  (OneOwner /\ Counted)'
<1> USE DEF GuessInv
<1>1. UNCHANGED <<rec, guesses, issued>>
  BY DEF Starts, Request, ForceDelete, Confirm, Cancel, Initiate, Load, Generate, Verify, Route,
         historyVars
<1>2. op \in [Calls -> Op] /\ ~Pends(c) /\ \A d \in Calls \ {c} : op'[d] = op[d]
  <2>1. op[c] = Idle
    BY DEF Starts, Request, ForceDelete, Confirm, Cancel, Initiate, Load, Generate, Verify, Route,
           Begin
  <2> QED BY <2>1, StartedCall DEF TypeInv, TypeOK, Pends, Idle
<1>3. CASE ~Pends(c)'
  BY <1>1, <1>2, <1>3, Released DEF Pends
<1>4. CASE Pends(c)'
  <2>1. PICK r \in Records : op'[c].rec = r /\ op'[c].code = rec[r].code
    <3>1. ASSUME NEW r \in Records, NEW person \in People, NEW right \in BOOLEAN,
                 Verify(c, person, r, right)
          PROVE  op'[c].rec = r /\ op'[c].code = rec[r].code
      BY <1>2, <3>1 DEF Verify, Begin, Idle
    <3>2. CASE Request(c)
      BY <1>2, <1>4, <3>2 DEF Request, Begin, Idle, Pends
    <3>3. CASE ForceDelete(c)
      BY <1>2, <1>4, <3>3 DEF ForceDelete, Begin, Idle, Pends
    <3>4. ASSUME NEW r \in Records, Confirm(c, r) \/ Cancel(c, r) \/ Initiate(c, r)
          PROVE  FALSE
      <4>1. PICK kind : Load(c, kind, r)
        BY <3>4 DEF Confirm, Cancel, Initiate
      <4>2. op'[c].at = "save"
        BY <1>2, <4>1 DEF Load, Begin, Idle
      <4> QED BY <1>4, <4>2 DEF Pends
    <3>5. ASSUME NEW r \in Records, NEW person \in People, Generate(c, person, r)
          PROVE  FALSE
      BY <1>2, <1>4, <3>5 DEF Generate, Begin, Idle, Pends
    <3>6. ASSUME NEW kind \in {"suspend", "reactivate"}, Route(c, kind) PROVE FALSE
      BY <1>2, <1>4, <3>6 DEF Route, Begin, Idle, Pends
    <3> QED BY <3>1, <3>2, <3>3, <3>4, <3>5, <3>6 DEF Starts
  <2>2. OneOwner'
    BY <1>1, <1>2, <2>1 DEF OneOwner, Pends
  <2>3. ASSUME NEW k \in issued, ~Current(k) PROVE Pending(k)' = Pending(k)
    <3>1. op'[c].code # k
      BY <2>1, <2>3 DEF Current
    <3> QED BY <1>2, <3>1 DEF Pending, Pends
  <2>4. Counted'
    BY <1>1, <2>3 DEF Counted, Current, Slack
  <2> QED BY <2>2, <2>4
<1> QED BY <1>3, <1>4

\* A new code starts uncounted; the one it replaces keeps what it had.
LEMMA CodeIssued ==
  ASSUME GuessInv, NEW c \in Calls, NEW k \in Codes, GenerateSave(c, k)
  PROVE  (OneOwner /\ Counted)'
<1> USE DEF GuessInv
<1> DEFINE r == op[c].rec
<1>1. /\ k \notin issued /\ issued' = issued \cup {k} /\ UNCHANGED guesses /\ k # None
      /\ op[c].kind = "generate" /\ ~Pends(c) /\ r \in Records
  BY SetsAssumption DEF GenerateSave, At, Pends, TypeInv, HasRecord
<1>2. \A d \in Calls : Pends(d)' => d # c /\ op'[d] = op[d] /\ Pends(d)
  <2>1. op \in [Calls -> Op] /\ op' = [op EXCEPT ![c] = Idle]
    BY DEF GenerateSave, Finish, TypeInv, TypeOK
  <2> QED BY <2>1 DEF Pends, Idle
<1>3. /\ rec \in [Records -> Rec] /\ guesses \in [Codes -> Nat] /\ issued \subseteq Codes
  BY DEF TypeInv, TypeOK
<1>4. \/ rec' = rec
      \/ /\ rec'[r].code = k /\ rec'[r].attempts = 0
         /\ \A x \in Records \ {r} : rec'[x] = rec[x]
  <2> DEFINE stage == IF op[c].stage = "final_otp_sent" THEN rec[r].stage ELSE "final_otp_sent"
             new == [rec[r] EXCEPT !.stage = stage, !.code = k, !.to = op[c].by,
                                   !.live = TRUE, !.attempts = 0]
  <2>1. rec' = rec \/ rec' = [rec EXCEPT ![r] = new]
    BY <1>1, <1>3 DEF GenerateSave
  <2>2. rec[r] \in Rec
    BY <1>1, <1>3
  <2> HIDE DEF stage
  <2>3. new.code = k /\ new.attempts = 0
    BY <2>2 DEF Rec
  <2> HIDE DEF new
  <2> QED BY <1>1, <1>3, <2>1, <2>3
<1>5. OneOwner'
  <2>1. /\ \A x \in Records : rec[x].code # k
        /\ \A d \in Calls : Pends(d) => op[d].code # k
    BY <1>1 DEF OneOwner
  <2> QED BY <1>1, <1>2, <1>4, <2>1 DEF OneOwner
<1>6. \A x \in Codes \ issued' : guesses'[x] = 0
  BY <1>1, <1>3 DEF Counted
<1>7. ASSUME NEW x \in issued', NEW y \in Records, rec'[y].code = x
      PROVE  guesses'[x] <= rec'[y].attempts
  <2>1. CASE y = r /\ rec'[r].code = k /\ rec'[r].attempts = 0
    BY <1>1, <1>7, <2>1 DEF Counted
  <2>2. CASE rec'[y] = rec[y]
    <3>1. x \in issued
      BY <1>1, <1>7, <2>2, <1>3, SetsAssumption DEF OneOwner
    <3> QED BY <1>1, <1>7, <2>2, <3>1 DEF Counted
  <2> QED BY <1>4, <2>1, <2>2
<1>8. ASSUME NEW x \in issued', ~Current(x)'
      PROVE  guesses'[x] + Cardinality(Pending(x)') <= Slack
  <2>1. /\ Cardinality(Pending(x)') \in Nat /\ Cardinality(Pending(x)') <= Cardinality(Pending(x))
        /\ Cardinality(Pending(x)) \in Nat /\ Cardinality(Calls) \in Nat
    BY <1>2, PendingShrinks, PendingSmall
  <2>2. Cardinality(Pending(x)) <= Cardinality(Calls) - 1
    <3>1. c \in Calls \ Pending(x)
      BY <1>1 DEF Pending
    <3> QED BY <3>1, PendingSmall
  <2>3. guesses[x] \in Nat /\ guesses' = guesses
    BY <1>1, <1>3, <1>8
  <2>4. CASE x = k
    <3>1. guesses[x] = 0
      BY <1>1, <2>4 DEF Counted
    <3> QED BY <2>1, <2>2, <2>3, <3>1, BoundsAssumption DEF Slack
  <2>5. CASE x \in issued /\ ~Current(x)
    <3>1. guesses[x] + Cardinality(Pending(x)) <= Slack
      BY <2>5 DEF Counted
    <3> QED BY <2>1, <2>3, <3>1, BoundsAssumption DEF Slack
  <2>6. CASE x \in issued /\ Current(x)
    <3>1. PICK y \in Records : rec[y].code = x
      BY <2>6 DEF Current
    <3>2. guesses[x] <= rec[y].attempts /\ rec[y].attempts \in 0..MaxAttempts
      BY <1>3, <2>6, <3>1 DEF Counted, Rec
    <3> QED BY <2>1, <2>2, <2>3, <3>2, BoundsAssumption DEF Slack
  <2> QED BY <1>1, <1>8, <2>4, <2>5, <2>6
<1>9. Slack' = Slack
  BY DEF Slack
<1>10. Counted'
  BY <1>6, <1>7, <1>8, <1>9 DEF Counted
<1> QED BY <1>5, <1>10

\* A guess is one attempt of its record, current or not, and one less under way.
LEMMA CodeGuessed ==
  ASSUME GuessInv, NEW c \in Calls, Claim(c)
  PROVE  (OneOwner /\ Counted)'
<1> USE DEF GuessInv
<1> DEFINE r == op[c].rec
           k == op[c].code
<1>1. /\ rec \in [Records -> Rec] /\ guesses \in [Codes -> Nat] /\ issued \subseteq Codes
      /\ op \in [Calls -> Op] /\ k \in Codes \cup {None} /\ r \in Records /\ Pends(c)
      /\ UNCHANGED issued
  BY DEF TypeInv, TypeOK, HasRecord, Claim, At, Pends, Op
<1>2. \A d \in Calls : Pends(d)' => d # c /\ op'[d] = op[d] /\ Pends(d)
  <2>1. ~Pends(c)' /\ \A d \in Calls \ {c} : op'[d] = op[d]
    BY <1>1 DEF Claim, Goto, Finish, Idle, Pends, Op
  <2> QED BY <2>1 DEF Pends
<1>3. CASE ~Claimable(r)
  <2>1. UNCHANGED <<rec, guesses>>
    BY <1>3 DEF Claim
  <2> QED BY <1>1, <1>2, <2>1, Released
<1>4. CASE Claimable(r)
  <2>1. /\ \A x \in Records : rec'[x].code = rec[x].code
        /\ \A x \in Records \ {r} : rec'[x] = rec[x]
        /\ rec'[r].attempts = rec[r].attempts + 1
        /\ \A x \in Records : rec[x].attempts \in Nat
    <3>1. rec' = [rec EXCEPT ![r].attempts = @ + 1]
      BY <1>4 DEF Claim
    <3> QED BY <1>1, <3>1, BoundsAssumption DEF Rec
  <2>2. \A x \in Codes : guesses'[x] = IF x = k THEN guesses[x] + 1 ELSE guesses[x]
    BY <1>1, <1>4, SetsAssumption DEF Claim
  <2>3. OneOwner'
    BY <1>1, <1>2, <2>1 DEF OneOwner
  <2>4. \A x \in Codes \ issued' : guesses'[x] = 0
    <3>1. k \in issued \/ k = None
      BY <1>1 DEF OneOwner
    <3> QED BY <1>1, <2>2, <3>1, SetsAssumption DEF Counted
  <2>5. ASSUME NEW x \in issued', NEW y \in Records, rec'[y].code = x
        PROVE  guesses'[x] <= rec'[y].attempts
    <3>1. x \in issued /\ x \in Codes /\ rec[y].code = x
      BY <1>1, <2>1, <2>5
    <3>2. guesses[x] <= rec[y].attempts /\ guesses[x] \in Nat /\ rec[y].attempts \in Nat
      BY <1>1, <2>1, <3>1 DEF Counted
    <3>3. CASE x = k
      <4>1. y = r
        BY <1>1, <3>1, <3>3, SetsAssumption DEF OneOwner
      <4> QED BY <2>1, <2>2, <3>1, <3>2, <3>3, <4>1
    <3>4. CASE x # k
      <4>1. guesses'[x] = guesses[x]
        BY <2>2, <3>1, <3>4
      <4>2. rec'[y].attempts >= rec[y].attempts
        <5>1. CASE y = r
          BY <2>1, <3>2, <5>1
        <5>2. CASE y # r
          BY <2>1, <3>2, <5>2
        <5> QED BY <5>1, <5>2
      <4>3. rec'[y].attempts \in Nat
        BY <2>1
      <4> QED BY <3>2, <4>1, <4>2, <4>3
    <3> QED BY <3>3, <3>4
  <2>6. ASSUME NEW x \in issued', ~Current(x)'
        PROVE  guesses'[x] + Cardinality(Pending(x)') <= Slack
    <3>1. x \in issued /\ x \in Codes /\ ~Current(x)
      BY <1>1, <2>1, <2>6 DEF Current
    <3>2. guesses[x] + Cardinality(Pending(x)) <= Slack
      BY <3>1 DEF Counted
    <3>3. /\ Cardinality(Pending(x)') \in Nat /\ Cardinality(Pending(x)') <= Cardinality(Pending(x))
          /\ Cardinality(Pending(x)) \in Nat /\ Cardinality(Calls) \in Nat /\ guesses[x] \in Nat
      BY <1>1, <1>2, <3>1, PendingShrinks, PendingSmall
    <3>4. CASE x # k
      BY <2>2, <3>1, <3>2, <3>3, <3>4, BoundsAssumption DEF Slack
    <3>5. CASE x = k
      <4>1. Pending(x)' = Pending(x) \ {c} /\ c \in Pending(x)
        <5>1. \A d \in Calls \ {c} : op'[d] = op[d]
          BY <1>1 DEF Claim, Goto, Finish
        <5> QED BY <1>1, <1>2, <3>5, <5>1 DEF Pending, Pends
      <4>2. Cardinality(Pending(x) \ {c}) = Cardinality(Pending(x)) - 1
        BY <4>1, PendingSmall, FS_RemoveElement
      <4>3. guesses'[x] = guesses[x] + 1
        BY <2>2, <3>1, <3>5
      <4> QED BY <3>2, <3>3, <4>1, <4>2, <4>3, BoundsAssumption DEF Slack
    <3> QED BY <3>4, <3>5
  <2>7. Slack' = Slack
    BY DEF Slack
  <2>8. Counted'
    BY <2>4, <2>5, <2>6, <2>7 DEF Counted
  <2> QED BY <2>3, <2>8
<1> QED BY <1>3, <1>4

\* No other step guesses or issues a code; a record is made, cancelled or
\* completed by a call that is no guess under way.
LEMMA OtherSteps ==
  ASSUME GuessInv, NEW c \in Calls, Steps(c), ~Claim(c), ~\E k \in Codes : GenerateSave(c, k)
  PROVE  (OneOwner /\ Counted)'
<1> USE DEF GuessInv
<1>1. /\ rec \in [Records -> Rec] /\ op \in [Calls -> Op]
      /\ ~Pends(c) /\ UNCHANGED <<guesses, issued>>
  BY DEF Steps, Create, CreateClashes, ConfirmSave, LoadTenant, SaveStatus, SwitchInfra,
         CancelSave, InitiateSave, NotSent, Block, Purge, PurgeFails, Remove, Complete, At, Pends,
         historyVars, TypeInv, TypeOK
<1>2. ~Pends(c)'
  <2>1. ASSUME NEW stage \in AtStages \ {"claim"}, Goto(c, stage) PROVE op'[c].at = stage
    BY <1>1, <2>1 DEF Goto, Op
  <2>2. Finish(c) => op'[c] = Idle
    BY <1>1 DEF Finish
  <2>3. CASE LoadTenant(c)
    <3>1. CASE op' = [op EXCEPT ![c].at = "status", ![c].seen = tenant]
      BY <1>1, <3>1 DEF Op, Pends
    <3> QED BY <2>2, <2>3, <3>1 DEF LoadTenant, Pends, Idle
  <2>4. ASSUME NEW r \in Records, Create(c, r) PROVE ~Pends(c)'
    <3>1. CASE op' = [op EXCEPT ![c].at = "block", ![c].rec = r]
      BY <1>1, <3>1 DEF Op, Pends
    <3> QED BY <2>2, <2>4, <3>1 DEF Create, Pends, Idle
  <2>5. ASSUME ~LoadTenant(c), ~\E r \in Records : Create(c, r)
        PROVE  Finish(c) \/ \E stage \in AtStages \ {"claim"} : Goto(c, stage)
    BY <2>5 DEF Steps, CreateClashes, ConfirmSave, SaveStatus, SwitchInfra, CancelSave,
                InitiateSave, NotSent, Block, Purge, PurgeFails, Remove, Complete, AtStages
  <2> QED BY <2>1, <2>2, <2>3, <2>4, <2>5 DEF Pends, Idle
<1>3. \A d \in Calls : Pends(d)' => /\ Pends(d) /\ op'[d].code = op[d].code
                                    /\ op'[d].rec = op[d].rec
  <2>1. \A d \in Calls \ {c} : op'[d] = op[d]
    BY GoneOn DEF TypeInv
  <2> QED BY <1>2, <2>1 DEF Pends
<1>4. ASSUME NEW r \in Records
      PROVE  \/ rec'[r].code = rec[r].code /\ rec'[r].attempts = rec[r].attempts
             \/ rec'[r].code = None
  <2>1. ASSUME NEW x \in Records, Create(c, x)
        PROVE  rec'[r] = rec[r] \/ rec'[r].code = None
    BY <1>1, <2>1 DEF Create, NoRec
  <2>2. CASE ConfirmSave(c)
    BY <1>1, <2>2 DEF ConfirmSave, Rec
  <2>3. CASE InitiateSave(c)
    BY <1>1, <2>3 DEF InitiateSave, Rec
  <2>4. CASE CancelSave(c)
    BY <1>1, <2>4 DEF CancelSave, Rec
  <2>5. CASE Complete(c)
    BY <1>1, <2>5 DEF Complete, Rec
  <2>6. CASE UNCHANGED rec
    BY <2>6
  <2> QED BY <2>1, <2>2, <2>3, <2>4, <2>5, <2>6
      DEF Steps, CreateClashes, LoadTenant, SaveStatus, SwitchInfra, NotSent, Block, Purge,
          PurgeFails, Remove
<1> QED BY <1>1, <1>3, <1>4, Released

\* The count is kept.
LEMMA GuessStep == GuessInv /\ [Next]_vars => GuessInv'
<1> SUFFICES ASSUME GuessInv, [Next]_vars PROVE (OneOwner /\ Counted)'
  BY TypeInvStep DEF GuessInv
<1>1. ASSUME NEW c \in Calls, Starts(c) PROVE (OneOwner /\ Counted)'
  BY <1>1, GuessBegins
<1>2. ASSUME NEW c \in Calls, Steps(c) PROVE (OneOwner /\ Counted)'
  BY <1>2, CodeGuessed, CodeIssued, OtherSteps
<1>3. ASSUME NEW r \in Records, CodeExpires(r) \/ \E wait \in Waits : Pass(r, wait)
      PROVE  (OneOwner /\ Counted)'
  <2>1. \A x \in Records : rec'[x].code = rec[x].code /\ rec'[x].attempts = rec[x].attempts
    BY <1>3 DEF GuessInv, TypeInv, TypeOK, CodeExpires, Pass, Rec
  <2>2. UNCHANGED <<op, guesses, issued>>
    BY <1>3 DEF CodeExpires, Pass, historyVars
  <2> QED BY <2>1, <2>2, Released DEF Pends
<1>4. CASE Crash
  <2>1. \A d \in Calls : ~Pends(d)'
    BY <1>4 DEF Crash, Pends, Idle
  <2>2. UNCHANGED <<rec, guesses, issued>>
    BY <1>4 DEF Crash
  <2> QED BY <2>1, <2>2, Released
<1>5. CASE UNCHANGED <<rec, op, guesses, issued>>
  BY <1>5, Released DEF Pends
<1>6. (\E has \in BOOLEAN : SetDomains(has)) \/ UNCHANGED vars
        => UNCHANGED <<rec, op, guesses, issued>>
  BY DEF SetDomains, vars, historyVars
<1> QED BY <1>1, <1>2, <1>3, <1>4, <1>5, <1>6 DEF Next

\* However many guess at once, one code is compared at most maxOtpAttempts times
\* and once more by each guess that was under way when its record got another
\* code (verifyFinalOtp claims an attempt before it compares).
THEOREM GuessesAreBounded == ASSUME Calls # {} PROVE Spec => []GuessesBounded
<1>1. Cardinality(Calls) \in Nat \ {0}
  <2>1. IsFiniteSet(Calls)
    BY SetsAssumption
  <2>2. Cardinality(Calls) \in Nat /\ Cardinality(Calls) # 0
    BY <2>1, FS_CardinalityType, FS_EmptySet
  <2> QED BY <2>2
<1>2. Init => GuessInv
  <2> SUFFICES ASSUME Init PROVE OneOwner /\ Counted
    BY InitTyped DEF GuessInv
  <2>1. /\ \A r \in Records : rec[r].code = None
        /\ \A c \in Calls : ~Pends(c)
        /\ issued = {} /\ guesses = [k \in Codes |-> 0]
    BY DEF Init, NoRec, Idle, Pends
  <2> QED BY <2>1 DEF OneOwner, Counted
<1>3. GuessInv => GuessesBounded
  <2> SUFFICES ASSUME GuessInv, NEW k \in Codes PROVE guesses[k] <= Slack
    BY DEF GuessesBounded, Slack
  <2>1. guesses[k] \in Nat /\ Cardinality(Pending(k)) \in Nat
    BY PendingSmall DEF GuessInv, TypeInv, TypeOK
  <2>2. CASE k \notin issued
    <3>1. guesses[k] = 0
      BY <2>2 DEF GuessInv, Counted
    <3> QED BY <1>1, <3>1, BoundsAssumption DEF Slack
  <2>3. CASE k \in issued /\ ~Current(k)
    <3>1. guesses[k] + Cardinality(Pending(k)) <= Slack
      BY <2>3 DEF GuessInv, Counted
    <3> QED BY <1>1, <2>1, <3>1, BoundsAssumption DEF Slack
  <2>4. ASSUME NEW r \in Records, rec[r].code = k, k \in issued PROVE guesses[k] <= Slack
    <3>1. guesses[k] <= rec[r].attempts /\ rec[r].attempts \in 0..MaxAttempts
      BY <2>4 DEF GuessInv, TypeInv, TypeOK, Counted, Rec
    <3> QED BY <1>1, <2>1, <3>1, BoundsAssumption DEF Slack
  <2> QED BY <2>2, <2>3, <2>4 DEF Current
<1> QED BY <1>2, <1>3, GuessStep, PTL DEF Spec

=============================================================================
