---------------------------- MODULE Mailboxes_proofs ----------------------------
(***************************************************************************)
(* Proofs about Mailboxes: the states are well typed, every seat of the     *)
(* tenant's counter is accounted for, and so the limit holds however        *)
(* creations, deletions and the sweep interleave; and a mailbox's account   *)
(* follows its document through every operation that meets no other.        *)
(***************************************************************************)
EXTENDS Mailboxes, FiniteSetTheorems, TLAPS

\* Where an operation works on one mailbox.
BoxStages == Reserving \cup {"off", "seat"}

\* What an operation knows at its stage: its mailbox, and that a creation is
\* never at a stage of another operation.
ShapeOf(k) ==
    /\ k.at \in BoxStages => k.box \in Mailboxes
    /\ k.kind = "create" => k.at \in Reserving \cup {"off"}

Shape == \A p \in Procs : ShapeOf(op[p])

TypeInv == TypeOK /\ Shape

-----------------------------------------------------------------------------
(* Types. *)

\* An idle process is well typed.
LEMMA IdleTyped == Idle \in Op /\ ShapeOf(Idle)
  BY KindsAssumption DEF Idle, Op, Kinds, Stages, ShapeOf, BoxStages, Reserving

\* A process that does something well formed keeps the operations well formed.
LEMMA SetOp ==
  ASSUME TypeInv, NEW p \in Procs, NEW k \in Op, ShapeOf(k), op' = [op EXCEPT ![p] = k]
  PROVE  op' \in [Procs -> Op] /\ Shape'
  BY DEF TypeInv, TypeOK, Shape, ShapeOf

\* A process that goes to the next stage of its operation.
LEMMA GotoTyped ==
  ASSUME TypeInv, NEW p \in Procs, NEW stage \in Stages, Goto(p, stage),
         stage \in BoxStages => op[p].box \in Mailboxes,
         op[p].kind = "create" => stage \in Reserving \cup {"off"}
  PROVE  op' \in [Procs -> Op] /\ Shape'
<1> DEFINE k == [op[p] EXCEPT !.at = stage]
<1>1. k \in Op /\ ShapeOf(k) /\ op' = [op EXCEPT ![p] = k]
  BY DEF Goto, TypeInv, TypeOK, Op, ShapeOf
<1> QED BY <1>1, SetOp

\* A process that ends its operation.
LEMMA FinishTyped ==
  ASSUME TypeInv, NEW p \in Procs, Finish(p)
  PROVE  op' \in [Procs -> Op] /\ Shape'
  BY IdleTyped, SetOp DEF Finish

\* A process that goes on to the next of its list, if there is one.
LEMMA ProceedTyped ==
  ASSUME TypeInv, NEW p \in Procs, op[p].kind # "create", Proceed(p)
  PROVE  op' \in [Procs -> Op] /\ Shape'
<1> DEFINE k == [op[p] EXCEPT !.at = "pick", !.box = None, !.removed = FALSE]
<1>1. k \in Op /\ ShapeOf(k)
  BY DEF TypeInv, TypeOK, Op, Stages, ShapeOf, BoxStages, Reserving
<1>2. CASE op[p].todo = {}
  BY <1>2, IdleTyped, SetOp DEF Proceed
<1>3. CASE op[p].todo # {}
  <2>1. op' = [op EXCEPT ![p] = k]
    BY <1>3 DEF Proceed
  <2> QED BY <1>1, <2>1, SetOp
<1> QED BY <1>2, <1>3

\* What an operation may touch are mailboxes.
LEMMA TouchedTyped ==
  ASSUME NEW k \in Op
  PROVE  Touched(k) \subseteq Mailboxes
  BY DEF Touched, Op

\* An operation that begins is well formed.
LEMMA BeginTyped ==
  ASSUME TypeInv, NEW p \in Procs, NEW k \in Op, ShapeOf(k), Begin(p, k)
  PROVE  /\ op' \in [Procs -> Op] /\ Shape'
         /\ requests' \in Nat /\ disturbed' \in SUBSET Mailboxes
<1>1. op' \in [Procs -> Op] /\ Shape'
  BY SetOp DEF Begin
<1>2. requests' \in Nat
  BY DEF Begin, TypeInv, TypeOK
<1>3. disturbed' \in SUBSET Mailboxes
  BY TouchedTyped DEF Begin, TypeInv, TypeOK
<1> QED BY <1>1, <1>2, <1>3

\* The mail server's answer keeps the accounts well typed.
LEMMA AccountTyped ==
  ASSUME TypeInv, NEW m \in Mailboxes, NEW v \in {"none", "on", "off"}, SetAccount(m, v)
  PROVE  /\ account' \in [Mailboxes -> {"none", "on", "off"}]
         /\ disturbed' \in SUBSET Mailboxes /\ faults' \in Nat
  BY DEF SetAccount, TypeInv, TypeOK

\* A seat given back leaves the counter a natural number.
LEMMA GiveBackTyped ==
  ASSUME TypeInv, NEW rightful \in BOOLEAN, GiveBackSeat(rightful)
  PROVE  seats' \in Nat /\ short' \in Int
<1>1. seats' \in Nat
  BY DEF GiveBackSeat, TypeInv, TypeOK
<1>2. short' \in {short, short + 1, short - 1}
  BY DEF GiveBackSeat, TypeInv, TypeOK
<1> QED BY <1>1, <1>2 DEF TypeInv, TypeOK

\* The initial states are well typed.
LEMMA TypeInit == Init => TypeInv
<1> SUFFICES ASSUME Init PROVE TypeInv
  OBVIOUS
<1>1. doc \in [Mailboxes -> Doc]
  BY DEF Init, Doc, Statuses
<1>2. op \in [Procs -> Op] /\ Shape
  BY IdleTyped DEF Init, Shape
<1>3. account \in [Mailboxes -> {"none", "on", "off"}] /\ domain \in [Domains -> Statuses]
  BY DEF Init, Statuses
<1>6. trial \in BOOLEAN
  BY Zenon DEF Init
<1>4. /\ tenant \in Statuses /\ seats \in Nat /\ short \in Int
      /\ faults \in Nat /\ requests \in Nat
  BY DEF Init, Statuses
<1>5. old \in SUBSET Mailboxes /\ leaked \in SUBSET Mailboxes /\ disturbed \in SUBSET Mailboxes
  BY DEF Init
<1> QED BY <1>1, <1>2, <1>3, <1>4, <1>5, <1>6 DEF TypeInv, TypeOK

\* Documents of well-typed values.
LEMMA DocTyped ==
  ASSUME TypeInv, NEW m \in Mailboxes
  PROVE  /\ doc[m] \in Doc
         /\ \A s \in Statuses : [doc[m] EXCEPT !.status = s] \in Doc
         /\ \A s \in Statuses, a \in BOOLEAN :
               [doc[m] EXCEPT !.status = s, !.admin = a] \in Doc
         /\ \A s \in Statuses :
               [doc[m] EXCEPT !.hold = FALSE, !.status = s] \in Doc
         /\ [doc[m] EXCEPT !.state = "gone"] \in Doc
  BY DEF TypeInv, TypeOK, Doc

\* A step of a creation keeps every variable in its type.
LEMMA CreateTyped ==
  ASSUME TypeInv, NEW p \in Procs, CreateSteps(p)
  PROVE  TypeInv'
<1> USE DEF tenantVars, historyVars, ReadOnly
<1> DEFINE m == op[p].box
<1>0. op[p] \in Op /\ ShapeOf(op[p])
  BY DEF TypeInv, TypeOK, Shape
<1>a. ASSUME NEW stage \in Reserving, NEW passes, NEW next \in Reserving,
             Check(p, stage, passes, next)
      PROVE  TypeInv'
  <2>1. Goto(p, next) \/ Goto(p, "giveback")
    BY <1>a DEF Check
  <2>2. m \in Mailboxes
    BY <1>a, <1>0 DEF Check, Creating, ShapeOf, BoxStages
  <2>3. op' \in [Procs -> Op] /\ Shape'
    BY <1>a, <2>1, <2>2, GotoTyped DEF Stages, Reserving
  <2> QED BY <1>a, <2>3 DEF Check, TypeInv, TypeOK
<1>1. CASE CheckDomain(p)
  BY <1>1, <1>a DEF CheckDomain, Reserving
<1>2. CASE CheckHeld(p)
  BY <1>2, <1>a DEF CheckHeld, Reserving
<1>3. CASE CheckLimit(p)
  BY <1>3, <1>a DEF CheckLimit, Reserving
<1>4. CASE CheckAddress(p)
  BY <1>4, <1>a DEF CheckAddress, Reserving
<1>5. CASE EnsureThrows(p)
  <2>1. m \in Mailboxes
    BY <1>0, <1>5 DEF EnsureThrows, Creating, ShapeOf, BoxStages, Reserving
  <2>2. op' \in [Procs -> Op] /\ Shape'
    BY <1>5, FinishTyped DEF EnsureThrows
  <2> QED BY <1>5, <2>1, <2>2 DEF EnsureThrows, TypeInv, TypeOK
<1>6. CASE CreateAccount(p)
  <2>1. m \in Mailboxes
    BY <1>0, <1>6 DEF CreateAccount, Creating, ShapeOf, BoxStages, Reserving
  <2>2. Goto(p, "row") \/ Goto(p, "giveback")
    BY <1>6 DEF CreateAccount
  <2>3. op' \in [Procs -> Op] /\ Shape'
    BY <2>1, <2>2, GotoTyped DEF Stages, Reserving
  <2>4. account' \in [Mailboxes -> {"none", "on", "off"}] /\ faults' \in Nat
    BY <1>6 DEF CreateAccount, TypeInv, TypeOK
  <2> QED BY <1>6, <2>3, <2>4 DEF CreateAccount, TypeInv, TypeOK
<1>7. CASE InsertRow(p)
  <2>1. m \in Mailboxes
    BY <1>0, <1>7 DEF InsertRow, Creating, ShapeOf, BoxStages, Reserving
  <2>2. op' \in [Procs -> Op] /\ Shape'
    BY <1>7, <2>1, GotoTyped, FinishTyped DEF InsertRow, Stages, Reserving
  <2>3. [state |-> "live", status |-> IF op[p].hold THEN "suspended" ELSE "active",
         hold |-> op[p].hold, admin |-> FALSE] \in Doc
    BY <1>0 DEF Doc, Statuses, Op
  <2>4. doc' \in [Mailboxes -> Doc]
    BY <1>7, <2>3 DEF InsertRow, TypeInv, TypeOK
  <2> QED BY <1>7, <2>2, <2>4 DEF InsertRow, TypeInv, TypeOK
<1>8. CASE InsertFails(p)
  <2>1. m \in Mailboxes
    BY <1>0, <1>8 DEF InsertFails, Creating, ShapeOf, BoxStages, Reserving
  <2>2. op' \in [Procs -> Op] /\ Shape'
    BY <1>8, FinishTyped DEF InsertFails
  <2> QED BY <1>8, <2>1, <2>2 DEF InsertFails, TypeInv, TypeOK
<1>9. CASE HoldAccount(p)
  <2>1. m \in Mailboxes
    BY <1>0, <1>9 DEF HoldAccount, Creating, ShapeOf, BoxStages
  <2>2. op' \in [Procs -> Op] /\ Shape'
    BY <1>9, FinishTyped DEF HoldAccount
  <2>3. /\ account' \in [Mailboxes -> {"none", "on", "off"}]
        /\ disturbed' \in SUBSET Mailboxes /\ faults' \in Nat
    BY <1>9, <2>1, AccountTyped DEF HoldAccount
  <2> QED BY <1>9, <2>2, <2>3 DEF HoldAccount, TypeInv, TypeOK
<1>10. CASE RollBack(p)
  <2>1. op' \in [Procs -> Op] /\ Shape'
    BY <1>10, FinishTyped DEF RollBack
  <2>2. seats' \in Nat /\ short' \in Int
    BY <1>10, GiveBackTyped DEF RollBack
  <2> QED BY <1>10, <2>1, <2>2 DEF RollBack, TypeInv, TypeOK
<1> QED BY <1>1, <1>2, <1>3, <1>4, <1>5, <1>6, <1>7, <1>8, <1>9, <1>10 DEF CreateSteps

\* A step of another operation keeps every variable in its type.
LEMMA OtherTyped ==
  ASSUME TypeInv, NEW p \in Procs, OtherSteps(p)
  PROVE  TypeInv'
<1> USE DEF tenantVars, historyVars, ReadOnly
<1> DEFINE m == op[p].box
<1>0. op[p] \in Op /\ ShapeOf(op[p])
  BY DEF TypeInv, TypeOK, Shape
<1>b. op[p].at \in {"account", "row", "seat"} => m \in Mailboxes
  BY <1>0 DEF ShapeOf, BoxStages, Reserving
<1>1. CASE DeleteAccount(p)
  <2>1. op' \in [Procs -> Op] /\ Shape'
    BY <1>1, <1>b, GotoTyped DEF DeleteAccount, Stages, Reserving
  <2>2. /\ account' \in [Mailboxes -> {"none", "on", "off"}]
        /\ disturbed' \in SUBSET Mailboxes /\ faults' \in Nat
    BY <1>1, <1>b, AccountTyped DEF DeleteAccount
  <2> QED BY <1>1, <2>1, <2>2 DEF DeleteAccount, TypeInv, TypeOK
<1>2. CASE DeleteRow(p)
  <2> DEFINE k == [op[p] EXCEPT !.at = "seat", !.removed = m \in Live]
  <2>1. k \in Op /\ ShapeOf(k)
    <3>1. (m \in Live) \in BOOLEAN
      OBVIOUS
    <3>2. k \in Op
      BY <1>0, <3>1 DEF Op, Stages
    <3>3. k.at = "seat" /\ k.box = m /\ k.kind = op[p].kind
      BY <1>0 DEF Op
    <3>4. m \in Mailboxes /\ op[p].kind # "create"
      BY <1>2, <1>b DEF DeleteRow, Removing
    <3> QED BY <3>2, <3>3, <3>4 DEF ShapeOf
  <2>2. op' = [op EXCEPT ![p] = k]
    BY <1>2 DEF DeleteRow
  <2> HIDE DEF k
  <2>3. op' \in [Procs -> Op] /\ Shape'
    BY <2>1, <2>2, SetOp
  <2>4. doc' \in [Mailboxes -> Doc]
    BY <1>2, <1>b, DocTyped DEF DeleteRow, TypeInv, TypeOK
  <2> QED BY <1>2, <2>3, <2>4 DEF DeleteRow, TypeInv, TypeOK
<1>3. CASE GiveBack(p)
  <2>1. op[p].kind # "create"
    BY <1>0, <1>3 DEF GiveBack, ShapeOf, Reserving
  <2>2. op' \in [Procs -> Op] /\ Shape'
    BY <1>3, <2>1, ProceedTyped DEF GiveBack
  <2>3. seats' \in Nat /\ short' \in Int
    <3>1. op[p].removed \in BOOLEAN
      BY <1>0 DEF Op
    <3> QED BY <1>3, <3>1, GiveBackTyped DEF GiveBack
  <2> QED BY <1>3, <2>2, <2>3 DEF GiveBack, TypeInv, TypeOK
<1>4. CASE SwitchAccount(p)
  <2>1. op' \in [Procs -> Op] /\ Shape'
    BY <1>4, <1>b, GotoTyped DEF SwitchAccount, Stages, Reserving
  <2>2. /\ account' \in [Mailboxes -> {"none", "on", "off"}]
        /\ disturbed' \in SUBSET Mailboxes /\ faults' \in Nat
    BY <1>4, <1>b, AccountTyped DEF SwitchAccount
  <2> QED BY <1>4, <2>1, <2>2 DEF SwitchAccount, TypeInv, TypeOK
<1>5. CASE SwitchRow(p)
  <2>1. op' \in [Procs -> Op] /\ Shape'
    BY <1>5, FinishTyped DEF SwitchRow
  <2>2. \A s \in BOOLEAN :
          [doc[m] EXCEPT !.status = IF s THEN "suspended" ELSE "active", !.admin = s] \in Doc
    BY <1>5, <1>b, DocTyped DEF SwitchRow, Statuses
  <2>3. doc' \in [Mailboxes -> Doc]
    BY <1>5, <1>b, <2>2 DEF SwitchRow, TypeInv, TypeOK
  <2> QED BY <1>5, <2>1, <2>3 DEF SwitchRow, TypeInv, TypeOK
<1>6. CASE ReleaseAccount(p)
  <2>1. op' \in [Procs -> Op] /\ Shape'
    BY <1>6, <1>b, GotoTyped DEF ReleaseAccount, Stages, Reserving
  <2>2. /\ account' \in [Mailboxes -> {"none", "on", "off"}]
        /\ disturbed' \in SUBSET Mailboxes /\ faults' \in Nat
    BY <1>6, <1>b, AccountTyped DEF ReleaseAccount
  <2> QED BY <1>6, <2>1, <2>2 DEF ReleaseAccount, TypeInv, TypeOK
<1>7. CASE ReleaseRow(p)
  <2>1. op' \in [Procs -> Op] /\ Shape'
    BY <1>7, FinishTyped, ProceedTyped DEF ReleaseRow
  <2>2. doc' \in [Mailboxes -> Doc]
    <3>1. doc[m].status \in Statuses
      BY <1>7, <1>b, DocTyped DEF ReleaseRow, Doc
    <3>2. [doc[m] EXCEPT !.hold = FALSE,
                         !.status = IF m \in op[p].seen THEN @ ELSE "active"] \in Doc
      BY <1>7, <1>b, <3>1, DocTyped DEF ReleaseRow, Statuses
    <3> QED BY <1>7, <3>2 DEF ReleaseRow, TypeInv, TypeOK
  <2> QED BY <1>7, <2>1, <2>2 DEF ReleaseRow, TypeInv, TypeOK
<1>8. CASE SwitchDomains(p)
  <2>1. op' \in [Procs -> Op] /\ Shape'
    BY <1>0, <1>8, GotoTyped DEF SwitchDomains, Stages, Reserving, BoxStages, ShapeOf
  <2>2. domain' \in [Domains -> Statuses]
    BY <1>8 DEF SwitchDomains, Statuses
  <2> QED BY <1>8, <2>1, <2>2 DEF SwitchDomains, TypeInv, TypeOK
<1>9. CASE List(p)
  <2> DEFINE k == [op[p] EXCEPT !.at = "rows", !.todo = Affected(op[p])]
  <2>0. op[p].kind # "create"
    BY <1>0, <1>9 DEF List, ShapeOf, Reserving
  <2>1. PICK k0 \in Op : /\ ShapeOf(k0) /\ op' = [op EXCEPT ![p] = k0]
    <3>1. k \in [kind : Kinds \cup {None}, at : Stages, box : Mailboxes \cup {None},
                 dom : Domains \cup {None}, todo : SUBSET Mailboxes,
                 seen : SUBSET Mailboxes, hold : BOOLEAN, removed : BOOLEAN]
      BY <1>0 DEF Op, Stages, Affected, Live
    <3>2. ShapeOf(k) /\ op' = [op EXCEPT ![p] = k]
      BY <1>0, <1>9, <2>0 DEF List, Op, ShapeOf, BoxStages, Reserving
    <3> QED BY <3>1, <3>2 DEF Op
  <2>2. op' \in [Procs -> Op] /\ Shape'
    BY <2>1, SetOp
  <2> QED BY <1>9, <2>2 DEF List, TypeInv, TypeOK
<1>10. CASE SwitchRows(p)
  <2>0. op[p].kind # "create"
    BY <1>0, <1>10 DEF SwitchRows, ShapeOf, Reserving
  <2>1. op' \in [Procs -> Op] /\ Shape'
    BY <1>10, <2>0, GotoTyped, FinishTyped DEF SwitchRows, Stages, BoxStages, Reserving
  <2>2. doc' \in [Mailboxes -> Doc]
    BY <1>10, DocTyped DEF SwitchRows, Statuses
  <2> QED BY <1>10, <2>1, <2>2 DEF SwitchRows, TypeInv, TypeOK
<1>11. ASSUME NEW n \in Mailboxes, Pick(p, n)
       PROVE  TypeInv'
  <2> DEFINE k == [op[p] EXCEPT !.at = "account", !.box = n, !.todo = @ \ {n}]
  <2>1. k \in Op /\ ShapeOf(k) /\ op' = [op EXCEPT ![p] = k]
    BY <1>0, <1>11 DEF Pick, Op, Stages, ShapeOf, Reserving
  <2> HIDE DEF k
  <2>2. op' \in [Procs -> Op] /\ Shape'
    BY <2>1, SetOp
  <2> QED BY <1>11, <2>2 DEF Pick, TypeInv, TypeOK
<1>12. ASSUME NEW n \in Mailboxes, SwitchAccounts(p, n)
       PROVE  TypeInv'
  <2> DEFINE k == [op[p] EXCEPT !.todo = @ \ {n}]
  <2>1. k \in Op /\ ShapeOf(k)
    BY <1>0 DEF Op, ShapeOf
  <2>2. op' = [op EXCEPT ![p] = Idle] \/ op' = [op EXCEPT ![p] = k]
    BY <1>12 DEF SwitchAccounts, Finish
  <2> HIDE DEF k
  <2>3. op' \in [Procs -> Op] /\ Shape'
    BY <2>1, <2>2, IdleTyped, SetOp
  <2>4. /\ account' \in [Mailboxes -> {"none", "on", "off"}]
        /\ disturbed' \in SUBSET Mailboxes /\ faults' \in Nat
    BY <1>12, AccountTyped DEF SwitchAccounts
  <2> QED BY <1>12, <2>3, <2>4 DEF SwitchAccounts, TypeInv, TypeOK
<1> QED BY <1>1, <1>2, <1>3, <1>4, <1>5, <1>6, <1>7, <1>8, <1>9, <1>10, <1>11, <1>12
        DEF OtherSteps

\* A request keeps every variable in its type.
LEMMA RequestTyped ==
  ASSUME TypeInv, NEW p \in Procs, Requests(p)
  PROVE  TypeInv'
<1> USE DEF tenantVars
<1> SUFFICES /\ op' \in [Procs -> Op] /\ Shape'
             /\ requests' \in Nat /\ disturbed' \in SUBSET Mailboxes
             /\ seats' \in Nat /\ tenant' \in Statuses /\ domain' \in [Domains -> Statuses]
             /\ UNCHANGED <<trial, doc, account, old, leaked, short, faults>>
  BY DEF TypeInv, TypeOK
<1>1. ASSUME NEW m \in Mailboxes, Reserve(p, m)
      PROVE  /\ op' \in [Procs -> Op] /\ Shape'
             /\ requests' \in Nat /\ disturbed' \in SUBSET Mailboxes
             /\ seats' \in Nat /\ UNCHANGED <<tenantVars, doc, account, leaked, short, faults>>
  <2> DEFINE k == [Idle EXCEPT !.kind = "create", !.at = "domain", !.box = m, !.hold = ~trial]
  <2>1. k \in Op /\ ShapeOf(k)
    BY DEF TypeInv, TypeOK, Idle, Op, Kinds, Stages, ShapeOf, BoxStages, Reserving
  <2>2. Begin(p, k)
    BY <1>1 DEF Reserve
  <2> HIDE DEF k
  <2> QED BY <1>1, <2>1, <2>2, BeginTyped DEF Reserve, TypeInv, TypeOK
<1>2. ASSUME NEW m \in Mailboxes, Delete(p, m) \/ Suspend(p, m) \/ Reactivate(p, m)
      PROVE  /\ op' \in [Procs -> Op] /\ Shape'
             /\ requests' \in Nat /\ disturbed' \in SUBSET Mailboxes
             /\ UNCHANGED <<tenantVars, seats, doc, account, leaked, short, faults>>
  <2>1. ASSUME NEW kind \in {"delete", "suspend", "reactivate"},
               Begin(p, [Idle EXCEPT !.kind = kind, !.at = "account", !.box = m])
        PROVE  /\ op' \in [Procs -> Op] /\ Shape'
               /\ requests' \in Nat /\ disturbed' \in SUBSET Mailboxes
    <3> DEFINE k == [Idle EXCEPT !.kind = kind, !.at = "account", !.box = m]
    <3>1. k \in Op /\ ShapeOf(k)
      BY DEF Idle, Op, Kinds, Stages, ShapeOf, BoxStages, Reserving
    <3> HIDE DEF k
    <3> QED BY <2>1, <3>1, BeginTyped DEF k
  <2> QED BY <1>2, <2>1 DEF Delete, Suspend, Reactivate
<1>3. ASSUME NEW d \in Domains, Stop(p, d) \/ Pay(p, d)
      PROVE  /\ op' \in [Procs -> Op] /\ Shape'
             /\ requests' \in Nat /\ disturbed' \in SUBSET Mailboxes
             /\ domain' \in [Domains -> Statuses]
             /\ UNCHANGED <<tenant, trial, old, seats, doc, account, leaked, short, faults>>
  <2>1. ASSUME NEW kind \in {"stop", "pay"},
               Begin(p, [Idle EXCEPT !.kind = kind, !.at = "list", !.dom = d])
        PROVE  /\ op' \in [Procs -> Op] /\ Shape'
               /\ requests' \in Nat /\ disturbed' \in SUBSET Mailboxes
    <3> DEFINE k == [Idle EXCEPT !.kind = kind, !.at = "list", !.dom = d]
    <3>1. k \in Op /\ ShapeOf(k)
      BY DEF Idle, Op, Kinds, Stages, ShapeOf, BoxStages, Reserving
    <3> HIDE DEF k
    <3> QED BY <2>1, <3>1, BeginTyped DEF k
  <2> QED BY <1>3, <2>1 DEF Stop, Pay, TypeInv, TypeOK, Statuses
<1>4. CASE Freeze(p) \/ Restore(p)
  <2>1. ASSUME NEW kind \in {"freeze", "restore"},
               Begin(p, [Idle EXCEPT !.kind = kind, !.at = "domains"])
        PROVE  /\ op' \in [Procs -> Op] /\ Shape'
               /\ requests' \in Nat /\ disturbed' \in SUBSET Mailboxes
    <3> DEFINE k == [Idle EXCEPT !.kind = kind, !.at = "domains"]
    <3>1. k \in Op /\ ShapeOf(k)
      BY DEF Idle, Op, Kinds, Stages, ShapeOf, BoxStages, Reserving
    <3> HIDE DEF k
    <3> QED BY <2>1, <3>1, BeginTyped DEF k
  <2> QED BY <1>4, <2>1 DEF Freeze, Restore, TypeInv, TypeOK, Statuses
<1>5. CASE Release(p)
  <2> DEFINE k == [Idle EXCEPT !.kind = "release", !.at = "pick", !.todo = Held,
                      !.seen = {m \in Held : doc[m].status = "active"}]
  <2>1. Held \in SUBSET Mailboxes
    BY DEF Held, Live
  <2>2. k \in Op /\ ShapeOf(k)
    BY <2>1 DEF Idle, Op, Kinds, Stages, ShapeOf, BoxStages, Reserving
  <2>3. Begin(p, k)
    BY <1>5 DEF Release
  <2> HIDE DEF k
  <2> QED BY <1>5, <2>2, <2>3, BeginTyped DEF Release, TypeInv, TypeOK
<1> QED BY <1>1, <1>2, <1>3, <1>4, <1>5 DEF Requests, TypeInv, TypeOK

\* The start of the sweep keeps every variable in its type.
LEMMA SweepTyped ==
  ASSUME TypeInv, SweepStart
  PROVE  TypeInv'
<1> DEFINE k == [Idle EXCEPT !.kind = "sweep", !.at = "pick", !.todo = Expired]
<1>1. Expired \in SUBSET Mailboxes
  BY DEF Expired, Held, Live
<1>2. k \in Op /\ ShapeOf(k)
  BY <1>1 DEF Idle, Op, Kinds, Stages, ShapeOf, BoxStages, Reserving
<1>3. Begin(Sweeper, k) /\ Sweeper \in Procs
  BY DEF SweepStart, Procs
<1> HIDE DEF k
<1> QED BY <1>2, <1>3, BeginTyped DEF SweepStart, tenantVars, TypeInv, TypeOK

\* A restart keeps every variable in its type.
LEMMA CrashTyped ==
  ASSUME TypeInv, Crash
  PROVE  TypeInv'
<1>1. op' \in [Procs -> Op] /\ Shape'
  BY IdleTyped DEF Crash, Shape
<1>2. Reserved \in SUBSET Mailboxes /\ Owed \in SUBSET Mailboxes
  BY DEF Reserved, Owed, TypeInv, Shape, ShapeOf, BoxStages
<1>3. UNION {Touched(op[p]) : p \in Procs} \in SUBSET Mailboxes
  BY TouchedTyped DEF TypeInv, TypeOK
<1> QED BY <1>1, <1>2, <1>3 DEF Crash, tenantVars, TypeInv, TypeOK

\* No step takes a variable out of its type.
LEMMA TypeNext == TypeInv /\ [Next]_vars => TypeInv'
<1> SUFFICES ASSUME TypeInv, [Next]_vars PROVE TypeInv'
  OBVIOUS
<1>1. ASSUME NEW p \in Workers, Requests(p) PROVE TypeInv'
  BY <1>1, RequestTyped DEF Procs
<1>2. ASSUME NEW p \in Procs, Steps(p) PROVE TypeInv'
  BY <1>2, CreateTyped, OtherTyped DEF Steps
<1>3. CASE StartTrial
  BY <1>3 DEF StartTrial, historyVars, TypeInv, TypeOK, Shape
<1>4. ASSUME NEW m \in Mailboxes, TwoWeeksPass(m) PROVE TypeInv'
  BY <1>4 DEF TwoWeeksPass, historyVars, TypeInv, TypeOK, Shape
<1>5. CASE UNCHANGED vars
  BY <1>5 DEF vars, historyVars, TypeInv, TypeOK, Shape
<1> QED BY <1>1, <1>2, <1>3, <1>4, <1>5, SweepTyped, CrashTyped DEF Next

\* TypeOK: every variable stays in its type (all operations of the module).
THEOREM TypeCorrect == Spec => []TypeOK
<1>1. Spec => []TypeInv
  BY TypeInit, TypeNext, PTL DEF Spec
<1>2. TypeInv => TypeOK
  BY DEF TypeInv
<1> QED BY <1>1, <1>2, PTL

-----------------------------------------------------------------------------
(* Seats. *)

\* A process that holds the seat of a mailbox it creates, or owes the seat of
\* one it removed.
Holds(k) == k.kind = "create" /\ k.at \in Reserving
Owes(k) == k.at = "seat" /\ k.removed

\* Each seat has one owner: a reservation's mailbox has no document yet, an owed
\* one's is gone, no two processes hold or owe the same, and what is leaked
\* belongs to nobody.
OneOwner ==
    /\ \A p \in Procs : /\ Holds(op[p]) => doc[op[p].box].state = "none"
                        /\ Owes(op[p]) => doc[op[p].box].state = "gone"
                        /\ Holds(op[p]) \/ Owes(op[p]) => op[p].box \notin leaked
    /\ \A p, q \in Procs :
          /\ p # q /\ op[p].box = op[q].box
          => ~(Holds(op[p]) /\ Holds(op[q])) /\ ~(Owes(op[p]) /\ Owes(op[q]))
    /\ \A m \in leaked : doc[m].state # "live"

\* What a removal works on, or has on its list, has had a document.
Removable ==
    \A p \in Procs :
        Removing(p) => /\ op[p].at \in {"account", "row", "seat"} =>
                             doc[op[p].box].state # "none"
                       /\ \A m \in op[p].todo : doc[m].state # "none"

\* No process is ahead of the limit.
SeatInv == TypeInv /\ OneOwner /\ Removable /\ SeatsAccounted /\ seats <= MailboxLimit

\* The seated mailboxes are finitely many.
LEMMA SeatedFinite ==
  ASSUME TypeInv
  PROVE  /\ Seated \subseteq Mailboxes /\ IsFiniteSet(Seated) /\ Cardinality(Seated) \in Nat
<1>1. Seated \subseteq Mailboxes
  BY DEF Seated, Live, Reserved, Owed, TypeInv, TypeOK, Shape, ShapeOf, BoxStages
<1> QED BY <1>1, BoxesAssumption, FS_Subset, FS_CardinalityType

\* Live, Reserved and Owed through the predicates above.
LEMMA SeatedBy ==
  /\ Reserved = {op[p].box : p \in {q \in Procs : Holds(op[q])}}
  /\ Owed = {op[p].box : p \in {q \in Procs : Owes(op[q])}}
  BY DEF Reserved, Owed, Holds, Owes

\* A step that changes no document's state, lets nobody take or give up a seat
\* and adds nothing to a list of removals changes nothing about the seats.
LEMMA Neutral ==
  ASSUME SeatInv, TypeInv',
         seats' = seats, short' = short, leaked' = leaked,
         \A m \in Mailboxes : doc'[m].state = doc[m].state,
         \A p \in Procs : /\ Holds(op'[p]) <=> Holds(op[p])
                          /\ Owes(op'[p]) <=> Owes(op[p])
                          /\ Holds(op[p]) \/ Owes(op[p]) => op'[p].box = op[p].box,
         Removable'
  PROVE  SeatInv'
<1>1. \A p \in Procs : Holds(op[p]) \/ Owes(op[p]) => op[p].box \in Mailboxes
  BY DEF SeatInv, TypeInv, Shape, ShapeOf, BoxStages, Holds, Owes
<1>2. OneOwner'
  <2>1. \A p \in Procs : /\ Holds(op'[p]) => doc'[op'[p].box].state = "none"
                         /\ Owes(op'[p]) => doc'[op'[p].box].state = "gone"
                         /\ Holds(op'[p]) \/ Owes(op'[p]) => op'[p].box \notin leaked'
    BY <1>1 DEF SeatInv, OneOwner
  <2>2. \A p, q \in Procs : p # q /\ op'[p].box = op'[q].box
          => ~(Holds(op'[p]) /\ Holds(op'[q])) /\ ~(Owes(op'[p]) /\ Owes(op'[q]))
    BY <1>1 DEF SeatInv, OneOwner
  <2>3. \A m \in leaked' : doc'[m].state # "live"
    BY DEF SeatInv, OneOwner, TypeInv, TypeOK
  <2> QED BY <2>1, <2>2, <2>3 DEF OneOwner, Holds, Owes
<1>3. Seated' = Seated
  <2>1. Reserved' = Reserved
    BY SeatedBy DEF Reserved, Holds
  <2>2. Owed' = Owed
    BY SeatedBy DEF Owed, Owes
  <2> QED BY <2>1, <2>2 DEF Seated, Live
<1> QED BY <1>2, <1>3 DEF SeatInv, SeatsAccounted

\* What a removal may work on.
RemovableOp(k) ==
    k.kind \in {"delete", "sweep"} =>
        /\ k.at \in {"account", "row", "seat"} =>
              k.box \in Mailboxes /\ doc[k.box].state # "none"
        /\ \A m \in k.todo : m \in Mailboxes /\ doc[m].state # "none"

\* The same for a step of one process.
LEMMA NeutralOp ==
  ASSUME SeatInv, TypeInv',
         seats' = seats, short' = short, leaked' = leaked,
         \A m \in Mailboxes : doc'[m].state = doc[m].state,
         NEW p \in Procs, NEW k, op' = [op EXCEPT ![p] = k],
         Holds(k) <=> Holds(op[p]), Owes(k) <=> Owes(op[p]),
         Holds(op[p]) \/ Owes(op[p]) => k.box = op[p].box,
         RemovableOp(k)
  PROVE  SeatInv'
<1>1. op'[p] = k /\ \A q \in Procs \ {p} : op'[q] = op[q]
  BY DEF SeatInv, TypeInv, TypeOK
<1>2. \A q \in Procs : /\ Holds(op'[q]) <=> Holds(op[q])
                       /\ Owes(op'[q]) <=> Owes(op[q])
                       /\ Holds(op[q]) \/ Owes(op[q]) => op'[q].box = op[q].box
  BY <1>1
<1>3. \A q \in Procs : /\ op[q].at \in {"account", "row", "seat"} => op[q].box \in Mailboxes
                       /\ op[q].todo \subseteq Mailboxes
  BY DEF SeatInv, TypeInv, TypeOK, Op, Shape, ShapeOf, BoxStages, Reserving
<1>4. Removable'
  <2>1. ASSUME NEW q \in Procs, op'[q].kind \in {"delete", "sweep"}
        PROVE  /\ op'[q].at \in {"account", "row", "seat"} => doc'[op'[q].box].state # "none"
               /\ \A m \in op'[q].todo : doc'[m].state # "none"
    <3>1. CASE q = p
      BY <1>1, <2>1, <3>1 DEF RemovableOp
    <3>2. CASE q # p
      BY <1>1, <1>3, <2>1, <3>2 DEF SeatInv, Removable, Removing
    <3> QED BY <3>1, <3>2
  <2> QED BY <2>1 DEF Removable, Removing
<1> QED BY <1>2, <1>4, Neutral

\* The document of an operation under way, by process.
LEMMA OwnRemoval ==
  ASSUME SeatInv, NEW p \in Procs
  PROVE  RemovableOp(op[p])
  BY DEF SeatInv, Removable, Removing, RemovableOp, TypeInv, TypeOK, Op, Shape, ShapeOf,
         BoxStages, Reserving

\* The mailbox of a process that holds or owes a seat is seated; it has no other
\* owner, so that once this process lets go of it, it is not.
LEMMA LettingGo ==
  ASSUME SeatInv, NEW p \in Procs, Holds(op[p]) \/ Owes(op[p]),
         NEW k, op' = [op EXCEPT ![p] = k], ~Holds(k), ~Owes(k),
         doc' = doc, leaked' = leaked
  PROVE  /\ op[p].box \in Seated
         /\ Seated' = Seated \ {op[p].box}
<1> DEFINE m == op[p].box
<1>1. op'[p] = k /\ \A q \in Procs \ {p} : op'[q] = op[q]
  BY DEF SeatInv, TypeInv, TypeOK
<1>2. m \in Mailboxes
  BY DEF SeatInv, TypeInv, Shape, ShapeOf, BoxStages, Holds, Owes
<1>3. \A q \in Procs \ {p} : Holds(op[q]) \/ Owes(op[q]) => op[q].box # m
  BY DEF SeatInv, OneOwner
<1>4. m \notin leaked /\ m \notin Live
  BY DEF SeatInv, OneOwner, Live
<1>5. m \in Reserved \cup Owed
  BY SeatedBy
<1>6. (Reserved \cup Owed)' = (Reserved \cup Owed) \ {m}
  <2>1. (Reserved \cup Owed)' = {op'[q].box : q \in {r \in Procs : Holds(op'[r]) \/ Owes(op'[r])}}
    BY SeatedBy DEF Reserved, Owed, Holds, Owes
  <2>2. Reserved \cup Owed = {op[q].box : q \in {r \in Procs : Holds(op[r]) \/ Owes(op[r])}}
    BY SeatedBy
  <2> QED BY <1>1, <1>3, <2>1, <2>2
<1>7. Live' = Live
  BY DEF Live
<1> QED BY <1>4, <1>5, <1>6, <1>7 DEF Seated

\* Letting go of a seat keeps the ownership of the others.
LEMMA LetGoOwners ==
  ASSUME SeatInv, NEW p \in Procs,
         NEW k, op' = [op EXCEPT ![p] = k], ~Holds(k), ~Owes(k),
         \A m \in Mailboxes : doc'[m].state = doc[m].state,
         \/ leaked' = leaked
         \/ leaked' = leaked \cup {op[p].box} /\ (Holds(op[p]) \/ Owes(op[p]))
  PROVE  OneOwner'
<1>1. op'[p] = k /\ \A q \in Procs \ {p} : op'[q] = op[q]
  BY DEF SeatInv, TypeInv, TypeOK
<1>2. \A q \in Procs : Holds(op[q]) \/ Owes(op[q]) => op[q].box \in Mailboxes
  BY DEF SeatInv, TypeInv, Shape, ShapeOf, BoxStages, Holds, Owes
<1>3. Holds(op[p]) \/ Owes(op[p]) =>
        \A q \in Procs \ {p} : Holds(op[q]) \/ Owes(op[q]) => op[q].box # op[p].box
  BY DEF SeatInv, OneOwner
<1>4. \A q \in Procs : /\ Holds(op'[q]) => doc'[op'[q].box].state = "none"
                       /\ Owes(op'[q]) => doc'[op'[q].box].state = "gone"
                       /\ Holds(op'[q]) \/ Owes(op'[q]) => op'[q].box \notin leaked'
  BY <1>1, <1>2, <1>3 DEF SeatInv, OneOwner
<1>5. \A q, r \in Procs : q # r /\ op'[q].box = op'[r].box
          => ~(Holds(op'[q]) /\ Holds(op'[r])) /\ ~(Owes(op'[q]) /\ Owes(op'[r]))
  BY <1>1 DEF SeatInv, OneOwner
<1>6. \A m \in leaked' : doc'[m].state # "live"
  BY <1>2 DEF SeatInv, OneOwner, TypeInv, TypeOK
<1> QED BY <1>4, <1>5, <1>6 DEF OneOwner, Holds, Owes

\* A process that goes on to nothing it removes keeps the others' removals.
LEMMA StillRemovable ==
  ASSUME SeatInv, NEW p \in Procs, NEW k, op' = [op EXCEPT ![p] = k], RemovableOp(k),
         \A m \in Mailboxes : doc[m].state # "none" => doc'[m].state # "none"
  PROVE  Removable'
<1>1. op'[p] = k /\ \A q \in Procs \ {p} : op'[q] = op[q]
  BY DEF SeatInv, TypeInv, TypeOK
<1>2. ASSUME NEW q \in Procs, op'[q].kind \in {"delete", "sweep"}
      PROVE  /\ op'[q].at \in {"account", "row", "seat"} => doc'[op'[q].box].state # "none"
             /\ \A m \in op'[q].todo : doc'[m].state # "none"
  <2>1. CASE q = p
    BY <1>1, <1>2, <2>1 DEF RemovableOp
  <2>2. CASE q # p
    BY <1>1, <1>2, <2>2, OwnRemoval DEF RemovableOp
  <2> QED BY <2>1, <2>2
<1> QED BY <1>2 DEF Removable, Removing

\* A request that begins and reserves nothing changes no seat.
LEMMA BeginNeutral ==
  ASSUME SeatInv, TypeInv', NEW p \in Procs, NEW k, Begin(p, k),
         ~Holds(k), ~Owes(k), RemovableOp(k), UNCHANGED <<seats, short, leaked, doc>>
  PROVE  SeatInv'
<1>1. op[p] = Idle /\ op' = [op EXCEPT ![p] = k]
  BY DEF Begin
<1>2. ~Holds(op[p]) /\ ~Owes(op[p])
  BY <1>1 DEF Idle, Holds, Owes, Reserving
<1> QED BY <1>1, <1>2, NeutralOp

\* A reservation takes a seat for a mailbox nobody has.
LEMMA ReserveSeats ==
  ASSUME SeatInv, TypeInv', NEW p \in Procs, NEW m \in Mailboxes, Reserve(p, m)
  PROVE  SeatInv'
<1> DEFINE k == [Idle EXCEPT !.kind = "create", !.at = "domain", !.box = m, !.hold = ~trial]
<1>1. op[p] = Idle /\ op' = [op EXCEPT ![p] = k]
  BY DEF Reserve, Begin
<1>2. op'[p] = k /\ \A q \in Procs \ {p} : op'[q] = op[q]
  BY <1>1 DEF SeatInv, TypeInv, TypeOK
<1>3. Holds(k) /\ ~Owes(k) /\ k.box = m /\ RemovableOp(k)
  BY DEF Holds, Owes, Idle, Reserving, RemovableOp
<1>4. ~Holds(op[p]) /\ ~Owes(op[p])
  BY <1>1 DEF Idle, Holds, Owes, Reserving
<1>5. /\ doc[m].state = "none" /\ m \notin leaked /\ \A q \in Procs : op[q].box # m
      /\ UNCHANGED <<doc, leaked, short>> /\ seats' = seats + 1 /\ seats < MailboxLimit
  BY DEF Reserve, Fresh, SeatFree
<1> HIDE DEF k
<1>6. OneOwner'
  <2>1. \A q \in Procs : /\ Holds(op'[q]) => doc'[op'[q].box].state = "none"
                         /\ Owes(op'[q]) => doc'[op'[q].box].state = "gone"
                         /\ Holds(op'[q]) \/ Owes(op'[q]) => op'[q].box \notin leaked'
    BY <1>2, <1>3, <1>5 DEF SeatInv, OneOwner
  <2>2. \A q, r \in Procs : q # r /\ op'[q].box = op'[r].box
          => ~(Holds(op'[q]) /\ Holds(op'[r])) /\ ~(Owes(op'[q]) /\ Owes(op'[r]))
    BY <1>2, <1>3, <1>5 DEF SeatInv, OneOwner
  <2>3. \A n \in leaked' : doc'[n].state # "live"
    BY <1>5 DEF SeatInv, OneOwner
  <2> QED BY <2>1, <2>2, <2>3 DEF OneOwner, Holds, Owes
<1>7. Removable'
  BY <1>1, <1>3, <1>5, StillRemovable
<1>8. Seated' = Seated \cup {m} /\ m \notin Seated
  <2>1. Reserved' = Reserved \cup {m} /\ Owed' = Owed
    <3>1. Reserved' = {op'[q].box : q \in {r \in Procs : Holds(op'[r])}}
      BY DEF Reserved, Holds
    <3>2. Owed' = {op'[q].box : q \in {r \in Procs : Owes(op'[r])}}
      BY DEF Owed, Owes
    <3> QED BY <1>2, <1>3, <1>4, <3>1, <3>2, SeatedBy
  <2>2. m \notin Reserved /\ m \notin Owed
    BY <1>5, SeatedBy
  <2> QED BY <1>5, <2>1, <2>2 DEF Seated, Live
<1>9. Cardinality(Seated') = Cardinality(Seated) + 1
  BY <1>8, SeatedFinite, FS_AddElement DEF SeatInv
<1> QED BY <1>5, <1>6, <1>7, <1>9, SeatedFinite, LimitsAssumption
        DEF SeatInv, SeatsAccounted, TypeInv, TypeOK

\* A creation that fails where nothing is rolled back leaves its seat behind.
LEMMA LeakSeats ==
  ASSUME SeatInv, TypeInv', NEW p \in Procs, Holds(op[p]), Finish(p),
         leaked' = leaked \cup {op[p].box}, UNCHANGED <<seats, short, doc>>
  PROVE  SeatInv'
<1> DEFINE m == op[p].box
<1>1. op'[p] = Idle /\ \A q \in Procs \ {p} : op'[q] = op[q]
  BY DEF Finish, SeatInv, TypeInv, TypeOK
<1>2. ~Holds(Idle) /\ ~Owes(Idle) /\ RemovableOp(Idle)
  BY KindsAssumption DEF Idle, Holds, Owes, Reserving, RemovableOp, Kinds
<1>3. OneOwner' /\ Removable'
  BY <1>2, LetGoOwners, StillRemovable DEF Finish
<1>4. Seated' = Seated
  <2>1. Reserved' = {op'[q].box : q \in {r \in Procs : Holds(op'[r])}}
    BY DEF Reserved, Holds
  <2>2. Owed' = {op'[q].box : q \in {r \in Procs : Owes(op'[r])}}
    BY DEF Owed, Owes
  <2>3. ~Owes(op[p])
    BY DEF Holds, Owes, Reserving
  <2>4. Reserved' \cup {m} = Reserved \cup {m} /\ m \in Reserved
    BY <1>1, <1>2, <2>1, SeatedBy
  <2>5. Owed' = Owed
    BY <1>1, <1>2, <2>2, <2>3, SeatedBy
  <2> QED BY <2>4, <2>5 DEF Seated, Live
<1> QED BY <1>3, <1>4 DEF SeatInv, SeatsAccounted

\* A roll-back, and a removal's last step, give back the seat they own.
LEMMA GiveBackSeats ==
  ASSUME SeatInv, TypeInv', NEW p \in Procs, NEW k, op' = [op EXCEPT ![p] = k],
         ~Holds(k), ~Owes(k), RemovableOp(k), NEW rightful \in BOOLEAN,
         rightful <=> Holds(op[p]) \/ Owes(op[p]),
         GiveBackSeat(rightful), UNCHANGED <<doc, leaked>>
  PROVE  SeatInv'
<1>1. OneOwner' /\ Removable'
  BY LetGoOwners, StillRemovable
<1>2. seats' <= seats /\ seats' + short' = seats + short - (IF rightful THEN 1 ELSE 0)
  BY DEF GiveBackSeat, SeatInv, TypeInv, TypeOK
<1>0. /\ seats \in Nat /\ short \in Int /\ seats' \in Nat /\ short' \in Int
      /\ seats + short = Cardinality(Seated) /\ seats <= MailboxLimit
      /\ Cardinality(Seated) \in Nat
  BY SeatedFinite DEF SeatInv, SeatsAccounted, TypeInv, TypeOK
<1>5. seats' <= MailboxLimit
  BY <1>0, <1>2, LimitsAssumption
<1>3. CASE rightful
  <2>1. op[p].box \in Seated /\ Seated' = Seated \ {op[p].box}
    BY <1>3, LettingGo
  <2>2. Cardinality(Seated') = Cardinality(Seated) - 1
    BY <2>1, SeatedFinite, FS_RemoveElement DEF SeatInv
  <2>3. seats' + short' = seats + short - 1
    BY <1>2, <1>3
  <2>4. SeatsAccounted'
    <3>1. seats + short - 1 = Cardinality(Seated) - 1
      BY <1>0
    <3> QED BY <2>2, <2>3, <3>1 DEF SeatsAccounted
  <2> QED BY <1>1, <1>5, <2>4 DEF SeatInv
<1>4. CASE ~rightful
  <2>1. op'[p] = k /\ \A q \in Procs \ {p} : op'[q] = op[q]
    BY DEF SeatInv, TypeInv, TypeOK
  <2>2. Reserved' = {op'[q].box : q \in {r \in Procs : Holds(op'[r])}}
    BY DEF Reserved, Holds
  <2>3. Owed' = {op'[q].box : q \in {r \in Procs : Owes(op'[r])}}
    BY DEF Owed, Owes
  <2>4. Reserved' = Reserved /\ Owed' = Owed
    BY <1>4, <2>1, <2>2, <2>3, SeatedBy
  <2>5. Seated' = Seated
    BY <2>4 DEF Seated, Live
  <2>6. seats' + short' = seats + short
    <3>1. seats' + short' = seats + short - 0
      BY <1>2, <1>4
    <3>2. seats \in Int /\ short \in Int
      BY <1>0
    <3>3. seats + short - 0 = seats + short
      BY <3>2
    <3> QED BY <3>1, <3>3
  <2>7. SeatsAccounted'
    BY <1>0, <2>5, <2>6 DEF SeatsAccounted
  <2> QED BY <1>1, <1>5, <2>7 DEF SeatInv
<1> QED BY <1>3, <1>4

\* A document inserted takes over its reservation's seat.
LEMMA InsertSeats ==
  ASSUME SeatInv, TypeInv', NEW p \in Procs, InsertRow(p)
  PROVE  SeatInv'
<1> DEFINE m == op[p].box
<1>1. Holds(op[p]) /\ ~Owes(op[p]) /\ m \in Mailboxes /\ op[p].kind = "create"
  BY DEF InsertRow, Creating, Holds, Owes, Reserving, SeatInv, TypeInv, Shape, ShapeOf, BoxStages
<1>2. PICK k : /\ op' = [op EXCEPT ![p] = k] /\ ~Holds(k) /\ ~Owes(k) /\ RemovableOp(k)
  <2>1. CASE Finish(p)
    <3>1. ~Holds(Idle) /\ ~Owes(Idle) /\ RemovableOp(Idle)
      BY KindsAssumption DEF Idle, Holds, Owes, Reserving, RemovableOp, Kinds
    <3> QED BY <2>1, <3>1 DEF Finish
  <2>2. CASE Goto(p, "off")
    <3> DEFINE k0 == [op[p] EXCEPT !.at = "off"]
    <3>1. k0.at = "off" /\ k0.kind = "create"
      BY <1>1 DEF SeatInv, TypeInv, TypeOK, Op
    <3>2. ~Holds(k0) /\ ~Owes(k0) /\ RemovableOp(k0)
      BY <3>1 DEF Holds, Owes, Reserving, RemovableOp
    <3>3. op' = [op EXCEPT ![p] = k0]
      BY <2>2 DEF Goto
    <3> QED BY <3>2, <3>3
  <2> QED BY <2>1, <2>2 DEF InsertRow
<1>3. op'[p] = k /\ \A q \in Procs \ {p} : op'[q] = op[q]
  BY <1>2 DEF SeatInv, TypeInv, TypeOK
<1>4. /\ doc[m].state = "none" /\ doc'[m].state = "live"
      /\ \A n \in Mailboxes \ {m} : doc'[n] = doc[n]
      /\ m \notin leaked /\ UNCHANGED <<seats, leaked, short>>
      /\ leaked \subseteq Mailboxes
  BY <1>1 DEF InsertRow, historyVars, SeatInv, OneOwner, TypeInv, TypeOK
<1>5. \A q \in Procs \ {p} :
        Holds(op[q]) \/ Owes(op[q]) => op[q].box \in Mailboxes /\ op[q].box # m
  <2>1. \A q \in Procs : Holds(op[q]) \/ Owes(op[q]) => op[q].box \in Mailboxes
    BY DEF SeatInv, TypeInv, Shape, ShapeOf, BoxStages, Holds, Owes
  <2>2. \A q \in Procs : Owes(op[q]) => op[q].box # m
    BY <1>4 DEF SeatInv, OneOwner
  <2>3. \A q \in Procs \ {p} : Holds(op[q]) => op[q].box # m
    BY <1>1 DEF SeatInv, OneOwner
  <2> QED BY <2>1, <2>2, <2>3
<1>6. OneOwner'
  <2>1. \A q \in Procs : /\ Holds(op'[q]) => doc'[op'[q].box].state = "none"
                         /\ Owes(op'[q]) => doc'[op'[q].box].state = "gone"
                         /\ Holds(op'[q]) \/ Owes(op'[q]) => op'[q].box \notin leaked'
    <3>1. ASSUME NEW q \in Procs \ {p}, Holds(op[q]) \/ Owes(op[q])
          PROVE  doc'[op[q].box] = doc[op[q].box] /\ op[q].box \notin leaked
      <4>1. op[q].box \in Mailboxes /\ op[q].box # m
        BY <1>5, <3>1
      <4>2. op[q].box \notin leaked
        BY <3>1 DEF SeatInv, OneOwner
      <4> QED BY <1>4, <4>1, <4>2
    <3>2. leaked' = leaked
      BY <1>4
    <3> QED BY <1>2, <1>3, <3>1, <3>2 DEF SeatInv, OneOwner
  <2>2. \A q, r \in Procs : q # r /\ op'[q].box = op'[r].box
          => ~(Holds(op'[q]) /\ Holds(op'[r])) /\ ~(Owes(op'[q]) /\ Owes(op'[r]))
    BY <1>2, <1>3 DEF SeatInv, OneOwner
  <2>3. \A n \in leaked' : doc'[n].state # "live"
    BY <1>4 DEF SeatInv, OneOwner
  <2> QED BY <2>1, <2>2, <2>3 DEF OneOwner, Holds, Owes
<1>7. Removable'
  <2>1. \A n \in Mailboxes : doc[n].state # "none" => doc'[n].state # "none"
    BY <1>4
  <2> QED BY <1>2, <2>1, StillRemovable
<1>8. Seated' = Seated
  <2>1. Reserved' = {op'[q].box : q \in {r \in Procs : Holds(op'[r])}}
    BY DEF Reserved, Holds
  <2>2. Owed' = {op'[q].box : q \in {r \in Procs : Owes(op'[r])}}
    BY DEF Owed, Owes
  <2>3. Reserved' \cup {m} = Reserved
    BY <1>1, <1>2, <1>3, <2>1, SeatedBy
  <2>4. Owed' = Owed
    BY <1>1, <1>2, <1>3, <2>2, SeatedBy
  <2>5. Live' = Live \cup {m}
    BY <1>1, <1>4 DEF Live
  <2> QED BY <2>3, <2>4, <2>5, <1>4 DEF Seated
<1> QED BY <1>4, <1>6, <1>7, <1>8 DEF SeatInv, SeatsAccounted

\* A document removed leaves its seat to the process that removed it; to one
\* that finds it gone, it leaves nothing.
LEMMA DeleteSeats ==
  ASSUME SeatInv, TypeInv', NEW p \in Procs, DeleteRow(p)
  PROVE  SeatInv'
<1> DEFINE m == op[p].box
           k == [op[p] EXCEPT !.at = "seat", !.removed = m \in Live]
<1>1. op' = [op EXCEPT ![p] = k] /\ op[p].at = "row" /\ op[p].kind \in {"delete", "sweep"}
  BY DEF DeleteRow, Removing
<1>2. op'[p] = k /\ \A q \in Procs \ {p} : op'[q] = op[q]
  BY <1>1 DEF SeatInv, TypeInv, TypeOK
<1>3. ~Holds(op[p]) /\ ~Owes(op[p])
  BY <1>1 DEF Holds, Owes
<1>4. m \in Mailboxes /\ doc[m].state # "none"
  BY <1>1, OwnRemoval DEF RemovableOp
<1>5. k.box = m /\ k.at = "seat" /\ k.kind = op[p].kind /\ k.todo = op[p].todo
  BY DEF SeatInv, TypeInv, TypeOK, Op
<1>6. k.removed <=> m \in Live
  BY DEF SeatInv, TypeInv, TypeOK, Op
<1>7. ~Holds(k) /\ (Owes(k) <=> m \in Live) /\ RemovableOp(k)
  <2>1. RemovableOp(op[p])
    BY OwnRemoval
  <2>2. RemovableOp(k)
    BY <1>1, <1>4, <1>5, <2>1 DEF RemovableOp
  <2>3. ~Holds(k)
    BY <1>1, <1>5 DEF Holds
  <2> QED BY <1>5, <1>6, <2>2, <2>3 DEF Owes
<1> HIDE DEF k
<1>8. /\ doc'[m].state = "gone" /\ \A n \in Mailboxes \ {m} : doc'[n] = doc[n]
      /\ UNCHANGED <<seats, leaked, short>> /\ leaked \subseteq Mailboxes
      /\ doc[m].state \in {"none", "live", "gone"}
  BY <1>4 DEF DeleteRow, historyVars, SeatInv, TypeInv, TypeOK, Doc
<1>9. \A q \in Procs : Holds(op[q]) \/ Owes(op[q]) => op[q].box \in Mailboxes
  BY DEF SeatInv, TypeInv, Shape, ShapeOf, BoxStages, Holds, Owes
<1>10. CASE m \notin Live
  <2>1. \A n \in Mailboxes : doc'[n].state = doc[n].state
    BY <1>4, <1>8, <1>10 DEF Live
  <2> QED BY <1>1, <1>3, <1>7, <1>8, <1>10, <2>1, NeutralOp
<1>11. CASE m \in Live
  <2>0. \A q \in Procs : Holds(op[q]) \/ Owes(op[q]) => op[q].box # m
    BY <1>11 DEF Live, SeatInv, OneOwner
  <2>a. m \notin leaked
    BY <1>11 DEF Live, SeatInv, OneOwner
  <2>1. OneOwner'
    <3>1. \A q \in Procs : /\ Holds(op'[q]) => doc'[op'[q].box].state = "none"
                           /\ Owes(op'[q]) => doc'[op'[q].box].state = "gone"
                           /\ Holds(op'[q]) \/ Owes(op'[q]) => op'[q].box \notin leaked'
      BY <1>2, <1>5, <1>7, <1>8, <1>9, <2>0, <2>a DEF SeatInv, OneOwner
    <3>2. \A q, r \in Procs : q # r /\ op'[q].box = op'[r].box
            => ~(Holds(op'[q]) /\ Holds(op'[r])) /\ ~(Owes(op'[q]) /\ Owes(op'[r]))
      BY <1>2, <1>5, <1>7, <2>0 DEF SeatInv, OneOwner
    <3>3. \A n \in leaked' : doc'[n].state # "live"
      BY <1>8 DEF SeatInv, OneOwner
    <3> QED BY <3>1, <3>2, <3>3 DEF OneOwner, Holds, Owes
  <2>2. Removable'
    <3>1. \A n \in Mailboxes : doc[n].state # "none" => doc'[n].state # "none"
      BY <1>8
    <3> QED BY <1>1, <1>7, <3>1, StillRemovable
  <2>3. Seated' = Seated
    <3>1. Reserved' = {op'[q].box : q \in {r \in Procs : Holds(op'[r])}}
      BY DEF Reserved, Holds
    <3>2. Owed' = {op'[q].box : q \in {r \in Procs : Owes(op'[r])}}
      BY DEF Owed, Owes
    <3>3. Reserved' = Reserved
      BY <1>2, <1>3, <1>7, <3>1, SeatedBy
    <3>4. Owed' = Owed \cup {m}
      BY <1>2, <1>3, <1>5, <1>7, <1>11, <3>2, SeatedBy
    <3>5. Live' = Live \ {m}
      BY <1>8 DEF Live
    <3> QED BY <1>8, <1>11, <3>3, <3>4, <3>5 DEF Seated
  <2> QED BY <1>8, <2>1, <2>2, <2>3 DEF SeatInv, SeatsAccounted
<1> QED BY <1>10, <1>11

\* A restart leaves behind every seat a process held or owed.
LEMMA CrashSeats ==
  ASSUME SeatInv, TypeInv', Crash
  PROVE  SeatInv'
<1>1. /\ op' = [p \in Procs |-> Idle] /\ leaked' = leaked \cup Reserved \cup Owed
      /\ UNCHANGED <<seats, doc, short>>
  BY DEF Crash
<1>2. \A p \in Procs : ~Holds(op'[p]) /\ ~Owes(op'[p]) /\ RemovableOp(op'[p])
  BY <1>1, KindsAssumption DEF Idle, Holds, Owes, Reserving, RemovableOp, Kinds
<1>3. \A m \in leaked' : doc'[m].state # "live"
  BY <1>1, SeatedBy DEF SeatInv, OneOwner
<1>4. OneOwner'
  BY <1>2, <1>3 DEF OneOwner, Holds, Owes
<1>5. Removable'
  BY <1>1, <1>2 DEF Removable, Removing, RemovableOp
<1>6. Seated' = Seated
  <2>1. Reserved' = {} /\ Owed' = {}
    BY <1>2 DEF Reserved, Owed, Holds, Owes
  <2> QED BY <1>1, <2>1 DEF Seated, Live
<1> QED BY <1>1, <1>4, <1>5, <1>6 DEF SeatInv, SeatsAccounted

\* The stages at which a step of a creation keeps its seat.
LEMMA StillHolds ==
  ASSUME SeatInv, TypeInv', NEW p \in Procs, Holds(op[p]), NEW stage \in Reserving,
         Goto(p, stage), UNCHANGED <<seats, short, leaked, doc>>
  PROVE  SeatInv'
<1> DEFINE k == [op[p] EXCEPT !.at = stage]
<1>1. k.at = stage /\ k.kind = "create" /\ k.box = op[p].box
  BY DEF Holds, SeatInv, TypeInv, TypeOK, Op
<1>2. Holds(k) /\ ~Owes(k) /\ ~Owes(op[p]) /\ RemovableOp(k)
  BY <1>1 DEF Holds, Owes, Reserving, RemovableOp
<1>3. op' = [op EXCEPT ![p] = k]
  BY DEF Goto
<1> QED BY <1>1, <1>2, <1>3, NeutralOp

\* A process without a seat that ends changes nothing about the seats.
LEMMA EndNeutral ==
  ASSUME SeatInv, TypeInv', NEW p \in Procs, ~Holds(op[p]), ~Owes(op[p]), Finish(p),
         UNCHANGED <<seats, short, leaked>>,
         \A m \in Mailboxes : doc'[m].state = doc[m].state
  PROVE  SeatInv'
<1>1. ~Holds(Idle) /\ ~Owes(Idle) /\ RemovableOp(Idle)
  BY KindsAssumption DEF Idle, Holds, Owes, Reserving, RemovableOp, Kinds
<1> QED BY <1>1, NeutralOp DEF Finish

\* Nor does one that goes on at another stage with the same mailbox and list.
LEMMA GotoNeutral ==
  ASSUME SeatInv, TypeInv', NEW p \in Procs, op[p].kind # "create", op[p].at # "seat",
         NEW stage \in Stages \ {"seat"},
         stage \in {"account", "row"} => op[p].at \in {"account", "row"},
         Goto(p, stage), UNCHANGED <<seats, short, leaked>>,
         \A m \in Mailboxes : doc'[m].state = doc[m].state
  PROVE  SeatInv'
<1> DEFINE k == [op[p] EXCEPT !.at = stage]
<1>1. k.at = stage /\ k.kind = op[p].kind /\ k.box = op[p].box /\ k.todo = op[p].todo
  BY DEF SeatInv, TypeInv, TypeOK, Op
<1>2. ~Holds(k) /\ ~Owes(k) /\ ~Holds(op[p]) /\ ~Owes(op[p])
  BY <1>1 DEF Holds, Owes
<1>3. RemovableOp(k)
  BY <1>1, OwnRemoval DEF RemovableOp
<1>4. op' = [op EXCEPT ![p] = k]
  BY DEF Goto
<1> QED BY <1>2, <1>3, <1>4, NeutralOp

\* The initial states have no seats.
LEMMA SeatInit == Init => SeatInv
<1> SUFFICES ASSUME Init PROVE SeatInv
  OBVIOUS
<1>1. \A p \in Procs : ~Holds(op[p]) /\ ~Owes(op[p]) /\ ~Removing(p)
  BY KindsAssumption DEF Init, Idle, Holds, Owes, Reserving, Removing, Kinds
<1>2. OneOwner /\ Removable
  BY <1>1 DEF Init, OneOwner, Removable
<1>3. Seated = {}
  BY <1>1, SeatedBy DEF Seated, Init, Live
<1>4. SeatsAccounted
  BY <1>3, FS_EmptySet DEF Init, SeatsAccounted
<1> QED BY <1>2, <1>4, TypeInit, LimitsAssumption DEF SeatInv, Init

\* Every step of a creation keeps the seats accounted for.
LEMMA CreateSeats ==
  ASSUME SeatInv, TypeInv', NEW p \in Procs, CreateSteps(p)
  PROVE  SeatInv'
<1> USE DEF tenantVars, historyVars, ReadOnly
<1>a. ASSUME NEW stage \in Reserving, NEW passes, NEW next \in Reserving,
             Check(p, stage, passes, next)
      PROVE  SeatInv'
  <2>1. Goto(p, next) \/ Goto(p, "giveback")
    BY <1>a DEF Check
  <2>2. Holds(op[p]) /\ UNCHANGED <<seats, short, leaked, doc>>
    BY <1>a DEF Check, Creating, Holds
  <2> QED BY <2>1, <2>2, StillHolds DEF Reserving
<1>1. CASE CheckDomain(p)
  BY <1>1, <1>a DEF CheckDomain, Reserving
<1>2. CASE CheckHeld(p)
  BY <1>2, <1>a DEF CheckHeld, Reserving
<1>3. CASE CheckLimit(p)
  BY <1>3, <1>a DEF CheckLimit, Reserving
<1>4. CASE CheckAddress(p)
  BY <1>4, <1>a DEF CheckAddress, Reserving
<1>5. CASE EnsureThrows(p)
  BY <1>5, LeakSeats DEF EnsureThrows, Creating, Holds, Reserving
<1>6. CASE CreateAccount(p)
  <2>1. Goto(p, "row") \/ Goto(p, "giveback")
    BY <1>6 DEF CreateAccount
  <2>2. Holds(op[p]) /\ UNCHANGED <<seats, short, leaked, doc>>
    BY <1>6 DEF CreateAccount, Creating, Holds, Reserving
  <2> QED BY <2>1, <2>2, StillHolds DEF Reserving
<1>7. CASE InsertRow(p)
  BY <1>7, InsertSeats
<1>8. CASE InsertFails(p)
  BY <1>8, LeakSeats DEF InsertFails, Creating, Holds, Reserving
<1>9. CASE HoldAccount(p)
  BY <1>9, EndNeutral DEF HoldAccount, Creating, Holds, Owes, Reserving
<1>10. CASE RollBack(p)
  <2>1. Holds(op[p])
    BY <1>10 DEF RollBack, Creating, Holds, Reserving
  <2>2. ~Holds(Idle) /\ ~Owes(Idle) /\ RemovableOp(Idle)
    BY KindsAssumption DEF Idle, Holds, Owes, Reserving, RemovableOp, Kinds
  <2>3. op' = [op EXCEPT ![p] = Idle] /\ GiveBackSeat(TRUE) /\ UNCHANGED <<doc, leaked>>
    BY <1>10 DEF RollBack, Finish
  <2> QED BY <2>1, <2>2, <2>3, GiveBackSeats
<1> QED BY <1>1, <1>2, <1>3, <1>4, <1>5, <1>6, <1>7, <1>8, <1>9, <1>10 DEF CreateSteps

\* Every step of another operation keeps the seats accounted for.
LEMMA OtherSeats ==
  ASSUME SeatInv, TypeInv', NEW p \in Procs, OtherSteps(p)
  PROVE  SeatInv'
<1> USE DEF tenantVars, historyVars, ReadOnly
<1> DEFINE m == op[p].box
<1>0. RemovableOp(op[p]) /\ op[p] \in Op /\ (op[p].kind = "create" => op[p].at \in Reserving \cup {"off"})
  BY OwnRemoval DEF SeatInv, TypeInv, TypeOK, Shape, ShapeOf
<1>1. CASE DeleteAccount(p)
  BY <1>1, GotoNeutral DEF DeleteAccount, Removing, Stages
<1>2. CASE DeleteRow(p)
  BY <1>2, DeleteSeats
<1>3. CASE GiveBack(p)
  <2>1. ~Holds(op[p]) /\ (Owes(op[p]) <=> op[p].removed) /\ op[p].removed \in BOOLEAN
    BY <1>0, <1>3 DEF GiveBack, Holds, Owes, Reserving, Op
  <2>2. PICK k : op' = [op EXCEPT ![p] = k] /\ ~Holds(k) /\ ~Owes(k) /\ RemovableOp(k)
    <3>1. CASE op[p].todo = {}
      <4>1. ~Holds(Idle) /\ ~Owes(Idle) /\ RemovableOp(Idle)
        BY KindsAssumption DEF Idle, Holds, Owes, Reserving, RemovableOp, Kinds
      <4> QED BY <1>3, <3>1, <4>1 DEF GiveBack, Proceed
    <3>2. CASE op[p].todo # {}
      <4> DEFINE k0 == [op[p] EXCEPT !.at = "pick", !.box = None, !.removed = FALSE]
      <4>1. k0.at = "pick" /\ k0.kind = op[p].kind /\ k0.todo = op[p].todo
        BY <1>0 DEF Op
      <4>2. ~Holds(k0) /\ ~Owes(k0) /\ RemovableOp(k0)
        BY <1>0, <4>1 DEF Holds, Owes, Reserving, RemovableOp
      <4>3. op' = [op EXCEPT ![p] = k0]
        BY <1>3, <3>2 DEF GiveBack, Proceed
      <4> QED BY <4>2, <4>3
    <3> QED BY <3>1, <3>2
  <2> QED BY <1>3, <2>1, <2>2, GiveBackSeats DEF GiveBack
<1>4. CASE SwitchAccount(p)
  BY <1>4, GotoNeutral DEF SwitchAccount, Stages
<1>5. CASE SwitchRow(p)
  <2>1. \A n \in Mailboxes : doc'[n].state = doc[n].state
    BY <1>5 DEF SwitchRow, SeatInv, TypeInv, TypeOK, Doc
  <2> QED BY <1>5, <2>1, EndNeutral DEF SwitchRow, Holds, Owes
<1>6. CASE ReleaseAccount(p)
  BY <1>6, GotoNeutral DEF ReleaseAccount, Stages
<1>7. CASE ReleaseRow(p)
  <2>1. \A n \in Mailboxes : doc'[n].state = doc[n].state
    BY <1>7 DEF ReleaseRow, SeatInv, TypeInv, TypeOK, Doc
  <2>2. ~Holds(op[p]) /\ ~Owes(op[p]) /\ op[p].kind = "release"
    BY <1>7 DEF ReleaseRow, Holds, Owes
  <2>3. CASE Finish(p)
    BY <1>7, <2>1, <2>2, <2>3, EndNeutral DEF ReleaseRow
  <2>4. CASE Proceed(p) /\ op[p].todo # {}
    <3> DEFINE k == [op[p] EXCEPT !.at = "pick", !.box = None, !.removed = FALSE]
    <3>1. k.at = "pick" /\ k.kind = "release"
      BY <1>0, <2>2 DEF Op
    <3>2. ~Holds(k) /\ ~Owes(k) /\ RemovableOp(k)
      BY <3>1 DEF Holds, Owes, RemovableOp
    <3>3. op' = [op EXCEPT ![p] = k]
      BY <2>4 DEF Proceed
    <3> QED BY <1>7, <2>1, <2>2, <3>2, <3>3, NeutralOp DEF ReleaseRow
  <2>5. CASE Proceed(p) /\ op[p].todo = {}
    <3>1. Finish(p)
      BY <2>5 DEF Proceed, Finish
    <3> QED BY <2>3, <3>1
  <2> QED BY <1>7, <2>3, <2>4, <2>5 DEF ReleaseRow
<1>8. CASE SwitchDomains(p)
  BY <1>0, <1>8, GotoNeutral DEF SwitchDomains, Stages, Reserving
<1>9. CASE List(p)
  <2> DEFINE k == [op[p] EXCEPT !.at = "rows", !.todo = Affected(op[p])]
  <2>1. op[p].kind # "create"
    BY <1>0, <1>9 DEF List, Reserving
  <2>2. k.at = "rows" /\ k.kind = op[p].kind /\ k.todo = Affected(op[p])
    BY <1>0 DEF Op
  <2>3. \A n \in Affected(op[p]) : n \in Mailboxes /\ doc[n].state # "none"
    BY DEF Affected, Live
  <2>4. ~Holds(k) /\ ~Owes(k) /\ ~Holds(op[p]) /\ ~Owes(op[p]) /\ RemovableOp(k)
    BY <1>9, <2>1, <2>2, <2>3 DEF List, Holds, Owes, RemovableOp
  <2>5. op' = [op EXCEPT ![p] = k]
    BY <1>9 DEF List
  <2> HIDE DEF k
  <2> QED BY <1>9, <2>4, <2>5, NeutralOp DEF List
<1>10. CASE SwitchRows(p)
  <2>1. op[p].kind # "create"
    BY <1>0, <1>10 DEF SwitchRows, Reserving
  <2>2. \A n \in Mailboxes : doc'[n].state = doc[n].state
    BY <1>10 DEF SwitchRows, SeatInv, TypeInv, TypeOK, Doc
  <2>3. Finish(p) \/ Goto(p, "accounts")
    BY <1>10 DEF SwitchRows
  <2>4. op[p].at = "rows" /\ UNCHANGED <<seats, short, leaked>>
    BY <1>10 DEF SwitchRows
  <2>5. ~Holds(op[p]) /\ ~Owes(op[p])
    BY <2>1, <2>4 DEF Holds, Owes
  <2>6. CASE Finish(p)
    BY <2>2, <2>4, <2>5, <2>6, EndNeutral
  <2>7. CASE Goto(p, "accounts")
    BY <2>1, <2>2, <2>4, <2>7, GotoNeutral DEF Stages
  <2> QED BY <2>3, <2>6, <2>7
<1>11. ASSUME NEW n \in Mailboxes, Pick(p, n)
       PROVE  SeatInv'
  <2> DEFINE k == [op[p] EXCEPT !.at = "account", !.box = n, !.todo = @ \ {n}]
  <2>1. op[p].kind # "create"
    BY <1>0, <1>11 DEF Pick, Reserving
  <2>2. k.at = "account" /\ k.box = n /\ k.kind = op[p].kind /\ k.todo = op[p].todo \ {n}
    BY <1>0 DEF Op
  <2>3. ~Holds(k) /\ ~Owes(k) /\ ~Holds(op[p]) /\ ~Owes(op[p]) /\ RemovableOp(k)
    BY <1>0, <1>11, <2>1, <2>2 DEF Pick, Holds, Owes, RemovableOp
  <2>4. op' = [op EXCEPT ![p] = k]
    BY <1>11 DEF Pick
  <2> HIDE DEF k
  <2> QED BY <1>11, <2>3, <2>4, NeutralOp DEF Pick
<1>12. ASSUME NEW n \in Mailboxes, SwitchAccounts(p, n)
       PROVE  SeatInv'
  <2> DEFINE k == [op[p] EXCEPT !.todo = @ \ {n}]
  <2>1. op[p].at = "accounts" /\ UNCHANGED <<seats, doc, leaked, short>>
    BY <1>12 DEF SwitchAccounts
  <2>2. op[p].kind # "create" /\ ~Holds(op[p]) /\ ~Owes(op[p])
    BY <1>0, <2>1 DEF Holds, Owes, Reserving
  <2>3. k.at = "accounts" /\ k.kind = op[p].kind /\ k.todo = op[p].todo \ {n}
    BY <1>0, <2>1 DEF Op
  <2>4. ~Holds(k) /\ ~Owes(k) /\ RemovableOp(k)
    BY <1>0, <2>2, <2>3 DEF Holds, Owes, RemovableOp
  <2>5. CASE Finish(p)
    BY <2>1, <2>2, <2>5, EndNeutral
  <2>6. CASE op' = [op EXCEPT ![p] = k]
    <3> HIDE DEF k
    <3> QED BY <2>1, <2>2, <2>4, <2>6, NeutralOp
  <2> QED BY <1>12, <2>5, <2>6 DEF SwitchAccounts
<1> QED BY <1>1, <1>2, <1>3, <1>4, <1>5, <1>6, <1>7, <1>8, <1>9, <1>10, <1>11, <1>12
        DEF OtherSteps

\* Every request keeps the seats accounted for.
LEMMA RequestSeats ==
  ASSUME SeatInv, TypeInv', NEW p \in Procs, Requests(p)
  PROVE  SeatInv'
<1>1. ASSUME NEW m \in Mailboxes, Reserve(p, m)
      PROVE  SeatInv'
  BY <1>1, ReserveSeats
<1>2. ASSUME NEW m \in Mailboxes, Delete(p, m) \/ Suspend(p, m) \/ Reactivate(p, m)
      PROVE  SeatInv'
  <2>1. PICK kind \in {"delete", "suspend", "reactivate"} :
          Begin(p, [Idle EXCEPT !.kind = kind, !.at = "account", !.box = m])
    BY <1>2 DEF Delete, Suspend, Reactivate
  <2> DEFINE k == [Idle EXCEPT !.kind = kind, !.at = "account", !.box = m]
  <2>2. doc[m].state = "live"
    BY <1>2 DEF Delete, Suspend, Reactivate, Live
  <2>3. ~Holds(k) /\ ~Owes(k) /\ RemovableOp(k)
    BY <2>2 DEF Idle, Holds, Owes, RemovableOp
  <2>4. UNCHANGED <<seats, short, leaked, doc>> /\ Begin(p, k)
    BY <1>2, <2>1 DEF Delete, Suspend, Reactivate
  <2> HIDE DEF k
  <2> QED BY <2>3, <2>4, BeginNeutral
<1>3. ASSUME NEW k, Begin(p, k), k.kind \in {"stop", "pay", "freeze", "restore", "release"},
             k.at \in {"list", "domains", "pick"}, UNCHANGED <<seats, short, leaked, doc>>
      PROVE  SeatInv'
  <2>1. ~Holds(k) /\ ~Owes(k) /\ RemovableOp(k)
    BY <1>3 DEF Holds, Owes, RemovableOp
  <2> QED BY <1>3, <2>1, BeginNeutral
<1>4. ASSUME NEW d \in Domains, Stop(p, d) \/ Pay(p, d)
      PROVE  SeatInv'
  BY <1>3, <1>4 DEF Stop, Pay, Idle
<1>5. CASE Freeze(p) \/ Restore(p) \/ Release(p)
  BY <1>3, <1>5 DEF Freeze, Restore, Release, Idle
<1> QED BY <1>1, <1>2, <1>4, <1>5 DEF Requests

\* No step loses a seat.
LEMMA SeatNext == SeatInv /\ [Next]_vars => SeatInv'
<1> SUFFICES ASSUME SeatInv, [Next]_vars PROVE SeatInv'
  OBVIOUS
<1>0. TypeInv'
  BY TypeNext DEF SeatInv
<1>1. ASSUME NEW p \in Workers, Requests(p) PROVE SeatInv'
  BY <1>0, <1>1, RequestSeats DEF Procs
<1>2. ASSUME NEW p \in Procs, Steps(p) PROVE SeatInv'
  BY <1>0, <1>2, CreateSeats, OtherSeats DEF Steps
<1>3. CASE SweepStart
  <2> DEFINE k == [Idle EXCEPT !.kind = "sweep", !.at = "pick", !.todo = Expired]
  <2>1. \A m \in Expired : m \in Mailboxes /\ doc[m].state # "none"
    BY DEF Expired, Held, Live
  <2>2. ~Holds(k) /\ ~Owes(k) /\ RemovableOp(k)
    BY <2>1 DEF Idle, Holds, Owes, RemovableOp
  <2>3. Begin(Sweeper, k) /\ UNCHANGED <<seats, short, leaked, doc>> /\ Sweeper \in Procs
    BY <1>3 DEF SweepStart, Procs
  <2> HIDE DEF k
  <2> QED BY <1>0, <2>2, <2>3, BeginNeutral
<1>4. CASE StartTrial \/ \E m \in Mailboxes : TwoWeeksPass(m)
  <2>1. UNCHANGED <<seats, short, leaked, doc, op>>
    BY <1>4 DEF StartTrial, TwoWeeksPass, historyVars
  <2>2. Removable'
    BY <2>1 DEF SeatInv, Removable, Removing
  <2> QED BY <1>0, <2>1, <2>2, Neutral
<1>5. CASE UNCHANGED vars
  <2>1. UNCHANGED <<seats, short, leaked, doc, op>>
    BY <1>5 DEF vars, historyVars
  <2>2. Removable'
    BY <2>1 DEF SeatInv, Removable, Removing
  <2> QED BY <1>0, <2>1, <2>2, Neutral
<1> QED BY <1>0, <1>1, <1>2, <1>3, <1>4, <1>5, CrashSeats DEF Next

\* SeatInv holds in every state.
LEMMA SeatAlways == Spec => []SeatInv
  BY SeatInit, SeatNext, PTL DEF Spec

\* SeatsAccounted: the counter of seats shows what documents, operations under
\* way and failures explain, minus what was given back twice.
THEOREM SeatsExplained == Spec => []SeatsAccounted
<1>1. SeatInv => SeatsAccounted
  BY DEF SeatInv
<1> QED BY <1>1, SeatAlways, PTL

\* WithinLimit: racing creations exceed the tenant's limit at most by the seats
\* that were given back twice.
THEOREM LimitHolds == Spec => []WithinLimit
<1>1. SeatInv => WithinLimit
  <2> SUFFICES ASSUME SeatInv PROVE WithinLimit
    OBVIOUS
  <2>1. Cardinality(Live \cup Reserved) <= Cardinality(Seated)
    BY SeatedFinite, FS_Subset DEF SeatInv, Seated
  <2>2. IsFiniteSet(Live \cup Reserved)
    BY SeatedFinite, FS_Subset DEF SeatInv, Seated
  <2>3. Cardinality(Live \cup Reserved) \in Nat /\ Cardinality(Seated) \in Nat
    BY <2>2, SeatedFinite, FS_CardinalityType DEF SeatInv
  <2>4. Cardinality(Seated) <= MailboxLimit + short
    BY <2>3, LimitsAssumption DEF SeatInv, SeatsAccounted, TypeInv, TypeOK
  <2>5. short \in Int
    BY DEF SeatInv, TypeInv, TypeOK
  <2> QED BY <2>1, <2>3, <2>4, <2>5, LimitsAssumption DEF WithinLimit
<1> QED BY <1>1, SeatAlways, PTL

-----------------------------------------------------------------------------
(* The two stores agree. *)

\* The operations that work on many mailboxes at once, and their stages; what an
\* operation lists it touches.
Cascades == {"pay", "stop", "freeze", "restore"}
CascadeStages == {"domains", "list", "rows", "accounts"}
Staged(k) == /\ k.kind \in Cascades <=> k.at \in CascadeStages
             /\ k.todo \subseteq Touched(k)

\* The mail server lets m send exactly when its document says active.
Settled(m) ==
    account[m] = IF m \notin Live THEN "none"
                 ELSE IF doc[m].status = "active" THEN "on" ELSE "off"

\* The account an operation leaves behind before it writes the document.
RowAccount(k) ==
    CASE k.kind \in {"create", "reactivate", "release"} -> "on"
      [] k.kind = "suspend" -> "off"
      [] OTHER -> "none"

\* The operation has written one store of m and not yet the other.
Halfway(k, m) == \/ m = k.box /\ k.at \in {"row", "off"}
                 \/ m \in k.todo /\ k.at = "accounts"

\* What the two stores hold of a mailbox that this operation alone touches.
Known(k, m) ==
    /\ ~Halfway(k, m) => Settled(m)
    /\ m = k.box /\ k.at = "row" => account[m] = RowAccount(k)
    /\ m = k.box /\ k.at = "off" =>
          m \in Live /\ account[m] # "none" /\ doc[m].status = "suspended"
    /\ k.kind \in {"suspend", "reactivate", "release"} => m \in Live
    /\ k.kind = "release" /\ m \in k.seen => doc[m].status = "active"
    /\ k.at = "rows" => (m \in k.todo <=> m \in Affected(k))
    /\ k.at = "accounts" /\ m \in k.todo =>
          /\ m \in Live /\ account[m] # "none"
          /\ doc[m].status = IF Restoring(k) THEN "active" ELSE "suspended"

\* Two operations meet only on what is counted as disturbed.
Apart == \A p, q \in Procs : p # q => Touched(op[p]) \cap Touched(op[q]) \subseteq disturbed

Agreeing(m) ==
    /\ (\A p \in Procs : m \notin Touched(op[p])) => Settled(m)
    /\ \A p \in Procs : m \in Touched(op[p]) => Known(op[p], m)

\* Every mailbox that no two operations met on is settled, or half-way through
\* the one operation that touches it.
AgreeInv ==
    /\ TypeInv
    /\ \A p \in Procs : Staged(op[p])
    /\ Apart
    /\ \A m \in Mailboxes \ (disturbed \cup leaked) : Agreeing(m)

\* An idle process touches nothing and is half-way through nothing.
LEMMA IdleTouches == Touched(Idle) = {} /\ Staged(Idle)
  BY KindsAssumption DEF Touched, Idle, Staged, Cascades, CascadeStages, Kinds

\* What is known of a mailbox depends on its own document and account only.
LEMMA SameStores ==
  ASSUME NEW m \in Mailboxes, doc'[m] = doc[m], account'[m] = account[m]
  PROVE  /\ Settled(m) <=> Settled(m)'
         /\ \A k \in Op : Known(k, m) <=> Known(k, m)'
<1>1. m \in Live <=> m \in Live'
  BY DEF Live
<1>2. \A k \in Op : m \in Affected(k) <=> m \in Affected(k)'
  BY <1>1 DEF Affected
<1>3. Settled(m) <=> Settled(m)'
  BY <1>1 DEF Settled
<1> QED BY <1>1, <1>2, <1>3 DEF Known


\* A step of one process: it changes no store of a mailbox it does not touch, and
\* leaves each it touches as its next stage expects.
LEMMA AgreeStep ==
  ASSUME AgreeInv, TypeInv', NEW p \in Procs, NEW k \in Op, op' = [op EXCEPT ![p] = k],
         Staged(k), Touched(k) \subseteq Touched(op[p]),
         k.kind \in Cascades => Touched(k) = Touched(op[p]),
         disturbed \subseteq disturbed', leaked \subseteq leaked',
         \A m \in Mailboxes \ Touched(op[p]) : doc'[m] = doc[m] /\ account'[m] = account[m],
         \A m \in Touched(op[p]) \ (disturbed' \cup leaked') :
            Known(op[p], m) => Known(k, m)'
  PROVE  AgreeInv'
<1>1. op'[p] = k /\ \A q \in Procs \ {p} : op'[q] = op[q]
  BY DEF AgreeInv, TypeInv, TypeOK
<1>2. op[p] \in Op /\ \A q \in Procs : op[q] \in Op
  BY DEF AgreeInv, TypeInv, TypeOK
<1>3. \A q \in Procs : Touched(op'[q]) \subseteq Touched(op[q])
  BY <1>1
<1>4. \A q, r \in Procs : q # r => Touched(op'[q]) \cap Touched(op'[r]) \subseteq disturbed'
  BY <1>3 DEF AgreeInv, Apart
<1>5. \A q \in Procs : Staged(op'[q])
  BY <1>1 DEF AgreeInv
<1>6. ASSUME NEW m \in Mailboxes, m \notin disturbed', m \notin leaked'
      PROVE  Agreeing(m)'
  <2>0. Agreeing(m)
    BY <1>6 DEF AgreeInv
  <2>1. CASE m \notin Touched(op[p])
    <3>1. Settled(m) <=> Settled(m)'
      BY <2>1, SameStores
    <3>2. ASSUME NEW q \in Procs, m \in Touched(op'[q])
          PROVE  Known(op[q], m)'
      <4>1. q # p /\ op'[q] = op[q] /\ m \in Touched(op[q])
        BY <1>1, <2>1, <3>2
      <4>2. PICK j \in Op : j = op[q]
        BY <1>2
      <4>3. Known(j, m)
        BY <2>0, <4>1, <4>2 DEF Agreeing
      <4>4. Known(j, m)'
        BY <2>1, <4>3, SameStores
      <4> QED BY <4>1, <4>2, <4>4
    <3>3. (\A q \in Procs : m \notin Touched(op'[q])) => Settled(m)'
      BY <1>1, <2>0, <2>1, <3>1 DEF Agreeing
    <3> QED BY <3>2, <3>3 DEF Agreeing
  <2>2. CASE m \in Touched(op[p])
    <3>1. \A q \in Procs \ {p} : m \notin Touched(op'[q])
      BY <1>1, <1>6, <2>2 DEF AgreeInv, Apart
    <3>2. Known(k, m)'
      BY <1>6, <2>0, <2>2 DEF Agreeing
    <3>3. m \notin Touched(k) => Settled(m)'
      <4> SUFFICES ASSUME m \notin Touched(k) PROVE Settled(m)'
        OBVIOUS
      <4>1. k.kind \notin Cascades
        BY <2>2
      <4>2. m # k.box /\ m \notin k.todo
        BY <4>1, NamesAssumption DEF Touched, Cascades
      <4> QED BY <3>2, <4>2 DEF Known, Halfway
    <3>4. ASSUME NEW q \in Procs, m \in Touched(op'[q])
          PROVE  Known(op[q], m)'
      <4>1. op'[q] = k
        BY <1>1, <3>1, <3>4
      <4> QED BY <3>2, <4>1
    <3>5. (\A q \in Procs : m \notin Touched(op'[q])) => Settled(m)'
      BY <1>1, <3>3
    <3> QED BY <3>4, <3>5 DEF Agreeing
  <2> QED BY <2>1, <2>2
<1>7. Apart'
  BY <1>4 DEF Apart
<1> QED BY <1>5, <1>6, <1>7 DEF AgreeInv

\* A request that begins: what it touches is settled, or disturbed.
LEMMA AgreeBegin ==
  ASSUME AgreeInv, TypeInv', NEW p \in Procs, NEW k \in Op, Begin(p, k), Staged(k),
         UNCHANGED <<doc, account, leaked>>,
         \A m \in Touched(k) : Settled(m) => Known(k, m)
  PROVE  AgreeInv'
<1>1. op'[p] = k /\ \A q \in Procs \ {p} : op'[q] = op[q]
  BY DEF AgreeInv, TypeInv, TypeOK, Begin
<1>2. op[p] \in Op /\ \A q \in Procs : op[q] \in Op
  BY DEF AgreeInv, TypeInv, TypeOK
<1>3. Touched(op[p]) = {}
  BY IdleTouches DEF Begin
<1>4. disturbed' = disturbed \cup (Touched(k) \cap TouchedByOthers(p))
  BY DEF Begin
<1>5. \A q \in Procs \ {p} : Touched(op[q]) \subseteq TouchedByOthers(p)
  BY DEF TouchedByOthers
<1>6. \A q, r \in Procs : q # r => Touched(op'[q]) \cap Touched(op'[r]) \subseteq disturbed'
  <2> SUFFICES ASSUME NEW q \in Procs, NEW r \in Procs, q # r
               PROVE  Touched(op'[q]) \cap Touched(op'[r]) \subseteq disturbed'
    OBVIOUS
  <2>1. CASE q = p
    BY <1>1, <1>4, <1>5, <2>1
  <2>2. CASE r = p
    BY <1>1, <1>4, <1>5, <2>2
  <2>3. CASE q # p /\ r # p
    BY <1>1, <1>4, <2>3 DEF AgreeInv, Apart
  <2> QED BY <2>1, <2>2, <2>3
<1>7. \A q \in Procs : Staged(op'[q])
  BY <1>1 DEF AgreeInv
<1>8. ASSUME NEW m \in Mailboxes, m \notin disturbed', m \notin leaked'
      PROVE  Agreeing(m)'
  <2>0. Agreeing(m)
    BY <1>4, <1>8 DEF AgreeInv
  <2>1. Settled(m) <=> Settled(m)'
    BY SameStores
  <2>2. ASSUME NEW q \in Procs, m \in Touched(op'[q])
        PROVE  Known(op[q], m)'
    <3>1. CASE q = p
      <4>1. \A r \in Procs : m \notin Touched(op[r])
        BY <1>1, <1>3, <1>4, <1>5, <1>8, <2>2, <3>1
      <4>2. Known(k, m)
        BY <1>1, <2>0, <2>2, <3>1, <4>1 DEF Agreeing
      <4>3. Known(k, m)'
        BY <4>2, SameStores
      <4> QED BY <1>1, <3>1, <4>3
    <3>2. CASE q # p
      <4>1. op'[q] = op[q] /\ m \in Touched(op[q])
        BY <1>1, <2>2, <3>2
      <4>2. PICK j \in Op : j = op[q]
        BY <1>2
      <4>3. Known(j, m)
        BY <2>0, <4>1, <4>2 DEF Agreeing
      <4>4. Known(j, m)'
        BY <4>3, SameStores
      <4> QED BY <4>1, <4>2, <4>4
    <3> QED BY <3>1, <3>2
  <2>3. (\A q \in Procs : m \notin Touched(op'[q])) => Settled(m)'
    BY <1>1, <1>3, <2>0, <2>1 DEF Agreeing
  <2> QED BY <2>2, <2>3 DEF Agreeing
<1>9. Apart'
  BY <1>6 DEF Apart
<1> QED BY <1>7, <1>8, <1>9 DEF AgreeInv

\* The same operation, perhaps at another stage.
SameBut(j, k) == /\ k.kind = j.kind /\ k.box = j.box /\ k.dom = j.dom
                 /\ k.todo = j.todo /\ k.seen = j.seen /\ k.hold = j.hold

\* A process that goes to the next stage of its operation.
LEMMA AgreeGoto ==
  ASSUME AgreeInv, TypeInv', NEW p \in Procs, NEW stage \in Stages, Goto(p, stage),
         stage \in CascadeStages <=> op[p].at \in CascadeStages,
         disturbed \subseteq disturbed', leaked \subseteq leaked',
         \A m \in Mailboxes \ Touched(op[p]) : doc'[m] = doc[m] /\ account'[m] = account[m],
         \A k \in Op : \A m \in Touched(op[p]) \ (disturbed' \cup leaked') :
            k.at = stage /\ SameBut(op[p], k) /\ Known(op[p], m) => Known(k, m)'
  PROVE  AgreeInv'
<1>0. op[p] \in Op /\ Staged(op[p])
  BY DEF AgreeInv, TypeInv, TypeOK
<1>1. PICK k \in Op : k = [op[p] EXCEPT !.at = stage]
  BY <1>0 DEF Op
<1>2. k.at = stage /\ SameBut(op[p], k)
  BY <1>0, <1>1 DEF Op, SameBut
<1>3. op' = [op EXCEPT ![p] = k]
  BY <1>1 DEF Goto
<1>4. Staged(k) /\ Touched(k) = Touched(op[p])
  BY <1>0, <1>2 DEF Staged, SameBut, Touched
<1> QED BY <1>2, <1>3, <1>4, AgreeStep

\* A process that ends its operation.
LEMMA AgreeFinish ==
  ASSUME AgreeInv, TypeInv', NEW p \in Procs, Finish(p),
         disturbed \subseteq disturbed', leaked \subseteq leaked',
         \A m \in Mailboxes \ Touched(op[p]) : doc'[m] = doc[m] /\ account'[m] = account[m],
         \A m \in Touched(op[p]) \ (disturbed' \cup leaked') :
            Known(op[p], m) => Settled(m)'
  PROVE  AgreeInv'
<1>1. op' = [op EXCEPT ![p] = Idle] /\ Idle.kind \notin Cascades
  BY KindsAssumption DEF Finish, Idle, Cascades, Kinds
<1>2. \A m \in Mailboxes : Settled(m)' => Known(Idle, m)'
  BY NamesAssumption, KindsAssumption DEF Known, Idle, Kinds
<1>3. Touched(op[p]) \subseteq Mailboxes
  BY TouchedTyped DEF AgreeInv, TypeInv, TypeOK
<1> QED BY <1>1, <1>2, <1>3, IdleTouches, IdleTyped, AgreeStep

\* What the mail server's answer changes.
LEMMA AccountSet ==
  ASSUME TypeInv, NEW m \in Mailboxes, NEW v, SetAccount(m, v)
  PROVE  /\ disturbed \subseteq disturbed'
         /\ \A n \in Mailboxes \ {m} : account'[n] = account[n]
         /\ m \notin disturbed' =>
               account'[m] = IF account[m] = "none" THEN "none" ELSE v
  BY DEF SetAccount, TypeInv, TypeOK

\* The mailbox of an operation on single ones, and those on its list.
LEMMA TouchesBox ==
  ASSUME NEW k \in Op, k.kind \notin Cascades
  PROVE  /\ \A m \in Mailboxes : m \in Touched(k) <=> m = k.box \/ m \in k.todo
         /\ Touched(k) \subseteq Mailboxes
  BY NamesAssumption DEF Touched, Cascades, Op

\* A step of a creation leaves its mailbox settled or half-way.
LEMMA CreateAgrees ==
  ASSUME AgreeInv, TypeInv', NEW p \in Procs, CreateSteps(p)
  PROVE  AgreeInv'
<1> USE DEF tenantVars, historyVars, ReadOnly
<1> DEFINE b == op[p].box
<1>0. /\ op[p] \in Op /\ TypeInv /\ op[p].kind = "create"
      /\ op[p].kind \notin Cascades
      /\ b \in Mailboxes /\ b \in Touched(op[p])
  <2>1. op[p] \in Op /\ ShapeOf(op[p]) /\ TypeInv
    BY DEF AgreeInv, TypeInv, TypeOK, Shape
  <2>2. op[p].kind = "create"
    BY DEF CreateSteps, CheckDomain, CheckHeld, CheckLimit, CheckAddress, EnsureThrows,
           CreateAccount, InsertRow, InsertFails, HoldAccount, RollBack, Check, Creating
  <2> QED BY <2>1, <2>2, TouchesBox DEF Cascades, ShapeOf, BoxStages
<1>c. op[p].at \notin CascadeStages
  BY <1>0 DEF AgreeInv, Staged
<1>a. ASSUME NEW stage \in Reserving \ {"row"}, NEW passes, NEW next \in Reserving \ {"row"},
             Check(p, stage, passes, next)
      PROVE  AgreeInv'
  <2>1. PICK after \in {next, "giveback"} : Goto(p, after)
    BY <1>a DEF Check
  <2>2. op[p].at = stage /\ UNCHANGED <<doc, account, disturbed, leaked>>
    BY <1>a DEF Check, Creating
  <2>3. ASSUME NEW k \in Op, NEW m \in Touched(op[p]), k.at = after, SameBut(op[p], k),
               Known(op[p], m)
        PROVE  Known(k, m)'
    <3>1. m \in Mailboxes
      BY <1>0, TouchesBox
    <3>2. Known(k, m)
      BY <1>0, <2>2, <2>3 DEF Known, Halfway, SameBut, Reserving
    <3> QED BY <2>2, <3>1, <3>2, SameStores
  <2>4. after \in Stages /\ after \notin CascadeStages
    BY DEF Stages, Reserving, CascadeStages
  <2> QED BY <1>c, <2>1, <2>2, <2>3, <2>4, AgreeGoto
<1>1. CASE CheckDomain(p)
  BY <1>1, <1>a DEF CheckDomain, Reserving
<1>2. CASE CheckHeld(p)
  BY <1>2, <1>a DEF CheckHeld, Reserving
<1>3. CASE CheckLimit(p)
  BY <1>3, <1>a DEF CheckLimit, Reserving
<1>4. CASE CheckAddress(p)
  BY <1>4, <1>a DEF CheckAddress, Reserving
<1>5. ASSUME Finish(p), UNCHANGED <<doc, account, disturbed>>, leaked \subseteq leaked',
             op[p].at \notin {"row", "off"} \/ b \in leaked'
      PROVE  AgreeInv'
  <2>1. ASSUME NEW m \in Touched(op[p]), m \notin leaked', Known(op[p], m)
        PROVE  Settled(m)'
    <3>1. m \in Mailboxes /\ ~Halfway(op[p], m)
      BY <1>0, <1>c, <1>5, <2>1, TouchesBox DEF Halfway, CascadeStages
    <3>2. Settled(m)
      BY <2>1, <3>1 DEF Known
    <3> QED BY <1>5, <3>1, <3>2, SameStores
  <2> QED BY <1>5, <2>1, AgreeFinish
<1>6. CASE EnsureThrows(p)
  BY <1>5, <1>6 DEF EnsureThrows, Creating
<1>7. CASE InsertFails(p)
  BY <1>5, <1>7 DEF InsertFails, Creating
<1>8. CASE RollBack(p)
  BY <1>5, <1>8 DEF RollBack, Creating
<1>9. CASE CreateAccount(p)
  <2>1. /\ op[p].at = "account" /\ UNCHANGED <<doc, disturbed, leaked>>
        /\ \/ account' = [account EXCEPT ![b] = "on"] /\ Goto(p, "row")
           \/ UNCHANGED account /\ Goto(p, "giveback")
    BY <1>9 DEF CreateAccount, Creating
  <2>2. CASE account' = [account EXCEPT ![b] = "on"] /\ Goto(p, "row")
    <3>1. account'[b] = "on" /\ \A m \in Mailboxes \ {b} : account'[m] = account[m]
      BY <1>0, <2>2 DEF TypeInv, TypeOK
    <3>2. ASSUME NEW k \in Op, NEW m \in Touched(op[p]), k.at = "row", SameBut(op[p], k),
                 Known(op[p], m)
          PROVE  Known(k, m)'
      <4>1. m \in Mailboxes /\ k.kind = "create" /\ k.box = b
        BY <1>0, <3>2, TouchesBox DEF SameBut
      <4>2. CASE m = b
        BY <3>1, <3>2, <4>1, <4>2 DEF Known, Halfway, RowAccount
      <4>3. CASE m # b
        <5>1. Known(k, m)
          BY <2>1, <3>2, <4>1, <4>3 DEF Known, Halfway
        <5> QED BY <2>1, <3>1, <4>1, <4>3, <5>1, SameStores
      <4> QED BY <4>2, <4>3
    <3>3. \A m \in Mailboxes \ Touched(op[p]) : doc'[m] = doc[m] /\ account'[m] = account[m]
      BY <1>0, <2>1, <3>1
    <3> QED BY <1>c, <2>1, <2>2, <3>2, <3>3, AgreeGoto DEF Stages, CascadeStages
  <2>3. CASE UNCHANGED account /\ Goto(p, "giveback")
    <3>1. ASSUME NEW k \in Op, NEW m \in Touched(op[p]), k.at = "giveback",
                 SameBut(op[p], k), Known(op[p], m)
          PROVE  Known(k, m)'
      <4>1. m \in Mailboxes
        BY <1>0, TouchesBox
      <4>2. Known(k, m)
        BY <1>0, <2>1, <3>1 DEF Known, Halfway, SameBut
      <4> QED BY <2>1, <2>3, <4>1, <4>2, SameStores
    <3> QED BY <1>c, <2>1, <2>3, <3>1, AgreeGoto DEF Stages, CascadeStages
  <2> QED BY <2>1, <2>2, <2>3
<1>10. CASE InsertRow(p)
  <2>1. /\ op[p].at = "row" /\ UNCHANGED <<account, disturbed, leaked>>
        /\ IF op[p].hold THEN Goto(p, "off") ELSE Finish(p)
    BY <1>10 DEF InsertRow, Creating
  <2>2. /\ doc'[b].state = "live"
        /\ doc'[b].status = IF op[p].hold THEN "suspended" ELSE "active"
        /\ \A m \in Mailboxes \ {b} : doc'[m] = doc[m]
    BY <1>0, <1>10 DEF InsertRow, TypeInv, TypeOK
  <2>3. \A m \in Mailboxes \ Touched(op[p]) : doc'[m] = doc[m] /\ account'[m] = account[m]
    BY <1>0, <2>1, <2>2
  <2>4. CASE op[p].hold
    <3>1. ASSUME NEW k \in Op, NEW m \in Touched(op[p]), k.at = "off", SameBut(op[p], k),
                 Known(op[p], m)
          PROVE  Known(k, m)'
      <4>1. m \in Mailboxes /\ k.kind = "create" /\ k.box = b
        BY <1>0, <3>1, TouchesBox DEF SameBut
      <4>2. CASE m = b
        <5>1. account[m] = "on"
          BY <1>0, <2>1, <3>1, <4>2 DEF Known, RowAccount
        <5> QED BY <2>1, <2>2, <2>4, <3>1, <4>1, <4>2, <5>1 DEF Known, Halfway, Live
      <4>3. CASE m # b
        <5>1. Known(k, m)
          BY <2>1, <3>1, <4>1, <4>3 DEF Known, Halfway
        <5> QED BY <2>1, <2>2, <4>1, <4>3, <5>1, SameStores
      <4> QED BY <4>2, <4>3
    <3> QED BY <1>c, <2>1, <2>3, <2>4, <3>1, AgreeGoto DEF Stages, CascadeStages
  <2>5. CASE ~op[p].hold
    <3>1. ASSUME NEW m \in Touched(op[p]), Known(op[p], m)
          PROVE  Settled(m)'
      <4>1. m \in Mailboxes
        BY <1>0, TouchesBox
      <4>2. CASE m = b
        <5>1. account[m] = "on"
          BY <1>0, <2>1, <3>1, <4>2 DEF Known, RowAccount
        <5> QED BY <2>1, <2>2, <2>5, <4>1, <4>2, <5>1 DEF Settled, Live
      <4>3. CASE m # b
        <5>1. Settled(m)
          BY <2>1, <3>1, <4>3 DEF Known, Halfway
        <5> QED BY <2>1, <2>2, <4>1, <4>3, <5>1, SameStores
      <4> QED BY <4>2, <4>3
    <3> QED BY <2>1, <2>3, <2>5, <3>1, AgreeFinish
  <2> QED BY <2>4, <2>5
<1>11. CASE HoldAccount(p)
  <2>1. /\ op[p].at = "off" /\ SetAccount(b, "off") /\ Finish(p)
        /\ UNCHANGED <<doc, leaked>>
    BY <1>11 DEF HoldAccount, Creating
  <2>2. /\ disturbed \subseteq disturbed'
        /\ \A n \in Mailboxes \ {b} : account'[n] = account[n]
        /\ b \notin disturbed' => account'[b] = IF account[b] = "none" THEN "none" ELSE "off"
    BY <1>0, <2>1, AccountSet
  <2>3. ASSUME NEW m \in Touched(op[p]), m \notin disturbed', Known(op[p], m)
        PROVE  Settled(m)'
    <3>1. m \in Mailboxes
      BY <1>0, TouchesBox
    <3>2. CASE m = b
      <4>1. m \in Live /\ account[m] # "none" /\ doc[m].status = "suspended"
        BY <2>1, <2>3, <3>2 DEF Known
      <4> QED BY <2>1, <2>2, <2>3, <3>1, <3>2, <4>1 DEF Settled, Live
    <3>3. CASE m # b
      <4>1. Settled(m)
        BY <2>1, <2>3, <3>3 DEF Known, Halfway
      <4> QED BY <2>1, <2>2, <3>1, <3>3, <4>1, SameStores
    <3> QED BY <3>2, <3>3
  <2>4. \A m \in Mailboxes \ Touched(op[p]) : doc'[m] = doc[m] /\ account'[m] = account[m]
    BY <1>0, <2>1, <2>2
  <2> QED BY <2>1, <2>2, <2>3, <2>4, AgreeFinish
<1> QED BY <1>1, <1>2, <1>3, <1>4, <1>6, <1>7, <1>8, <1>9, <1>10, <1>11 DEF CreateSteps

\* A process that goes on to the next of its list, if there is one.
LEMMA AgreeProceed ==
  ASSUME AgreeInv, TypeInv', NEW p \in Procs, Proceed(p), op[p].kind \notin Cascades,
         disturbed \subseteq disturbed', leaked \subseteq leaked',
         \A m \in Mailboxes \ Touched(op[p]) : doc'[m] = doc[m] /\ account'[m] = account[m],
         \A m \in Touched(op[p]) \ (disturbed' \cup leaked') :
            Known(op[p], m) =>
               /\ Settled(m)'
               /\ op[p].kind \in {"suspend", "reactivate", "release"} => m \in Live'
               /\ op[p].kind = "release" /\ m \in op[p].seen => doc'[m].status = "active"
  PROVE  AgreeInv'
<1>0. op[p] \in Op
  BY DEF AgreeInv, TypeInv, TypeOK
<1>1. CASE op[p].todo = {}
  <2>1. Finish(p)
    BY <1>1 DEF Proceed, Finish
  <2> QED BY <2>1, AgreeFinish
<1>2. CASE op[p].todo # {}
  <2>1. PICK k \in Op : k = [op[p] EXCEPT !.at = "pick", !.box = None, !.removed = FALSE]
    BY <1>0 DEF Op, Stages
  <2>2. /\ k.at = "pick" /\ k.box = None /\ k.kind = op[p].kind /\ k.todo = op[p].todo
        /\ k.seen = op[p].seen /\ k.dom = op[p].dom
    BY <1>0, <2>1 DEF Op
  <2>3. op' = [op EXCEPT ![p] = k]
    BY <1>2, <2>1 DEF Proceed
  <2>4. Staged(k) /\ k.kind \notin Cascades /\ Touched(k) \subseteq Touched(op[p])
    <3>1. k.kind \notin Cascades /\ Touched(op[p]) \subseteq Mailboxes
      BY <1>0, <2>2, TouchesBox
    <3>2. Touched(k) \subseteq Touched(op[p])
      BY <1>0, <2>2, <3>1, TouchesBox, NamesAssumption
    <3>3. k.todo \subseteq Touched(k)
      BY <3>1, TouchesBox DEF Op
    <3> QED BY <2>2, <3>1, <3>2, <3>3 DEF Staged, CascadeStages
  <2>5. ASSUME NEW m \in Touched(op[p]) \ (disturbed' \cup leaked'), Known(op[p], m)
        PROVE  Known(k, m)'
    <3>1. m \in Mailboxes
      BY <1>0, TouchesBox
    <3> QED BY <2>2, <2>5, <3>1, NamesAssumption DEF Known
  <2> QED BY <2>3, <2>4, <2>5, AgreeStep
<1> QED BY <1>1, <1>2

\* A step of another operation leaves what it touches settled or half-way.
LEMMA OtherAgrees ==
  ASSUME AgreeInv, TypeInv', NEW p \in Procs, OtherSteps(p)
  PROVE  AgreeInv'
<1> USE DEF tenantVars, historyVars, ReadOnly
<1> DEFINE b == op[p].box
<1>0. /\ op[p] \in Op /\ TypeInv /\ ShapeOf(op[p]) /\ Staged(op[p])
      /\ Touched(op[p]) \subseteq Mailboxes
  BY TouchedTyped DEF AgreeInv, TypeInv, TypeOK, Shape
<1>1. ASSUME op[p].kind \in {"delete", "sweep", "suspend", "reactivate", "release"},
             NEW v, SetAccount(b, v), op[p].at = "account", Goto(p, "row"),
             UNCHANGED <<doc, leaked>>, v = RowAccount(op[p])
      PROVE  AgreeInv'
  <2>1. b \in Mailboxes
    BY <1>0, <1>1 DEF ShapeOf, BoxStages, Reserving
  <2>2. /\ disturbed \subseteq disturbed'
        /\ \A n \in Mailboxes \ {b} : account'[n] = account[n]
        /\ b \notin disturbed' => account'[b] = IF account[b] = "none" THEN "none" ELSE v
    BY <1>0, <1>1, <2>1, AccountSet
  <2>3. op[p].kind \notin Cascades /\ b \in Touched(op[p])
    BY <1>0, <1>1, <2>1, TouchesBox DEF Cascades
  <2>4. ASSUME NEW k \in Op, NEW m \in Touched(op[p]), m \notin disturbed', k.at = "row",
               SameBut(op[p], k), Known(op[p], m)
        PROVE  Known(k, m)'
    <3>1. m \in Mailboxes /\ k.box = b /\ k.kind = op[p].kind /\ k.seen = op[p].seen
      BY <1>0, <2>4 DEF SameBut
    <3>2. Settled(m)
      BY <1>1, <2>4 DEF Known, Halfway
    <3>3. CASE m = b
      <4>1. k.kind \in {"suspend", "reactivate", "release"} => m \in Live
        BY <2>4, <3>1 DEF Known
      <4>2. k.kind = "release" /\ m \in k.seen => doc[m].status = "active"
        BY <2>4, <3>1 DEF Known
      <4>3. account'[m] = IF account[m] = "none" THEN "none" ELSE v
        BY <2>2, <2>4, <3>3
      <4>4. m \in Live => account[m] # "none"
        BY <3>2 DEF Settled
      <4>5. v = RowAccount(k) /\ (v = "none" \/ m \in Live)
        BY <1>1, <3>1, <4>1 DEF RowAccount
      <4>6. account'[m] = RowAccount(k)
        BY <4>3, <4>4, <4>5
      <4>7. m \in Live <=> m \in Live'
        BY <1>1 DEF Live
      <4>8. doc'[m] = doc[m] /\ Halfway(k, m)
        BY <1>1, <2>4, <3>1, <3>3 DEF Halfway
      <4> QED BY <2>4, <4>1, <4>2, <4>6, <4>7, <4>8 DEF Known
    <3>4. CASE m # b
      <4>1. Known(k, m)
        BY <1>1, <2>4, <3>1, <3>2, <3>4 DEF Known
      <4> QED BY <1>1, <2>2, <3>1, <3>4, <4>1, SameStores
    <3> QED BY <3>3, <3>4
  <2>5. \A m \in Mailboxes \ Touched(op[p]) : doc'[m] = doc[m] /\ account'[m] = account[m]
    BY <1>1, <2>2, <2>3
  <2> QED BY <1>1, <2>2, <2>4, <2>5, AgreeGoto DEF Stages, CascadeStages
<1>2. CASE DeleteAccount(p)
  BY <1>1, <1>2 DEF DeleteAccount, Removing, RowAccount, Kinds, Cascades
<1>3. CASE SwitchAccount(p)
  BY <1>1, <1>3 DEF SwitchAccount, RowAccount, Kinds, Cascades
<1>4. CASE ReleaseAccount(p)
  BY <1>1, <1>4 DEF ReleaseAccount, RowAccount, Kinds, Cascades
\* A removal's last two steps, a switch's last, and the next of a list.
<1>5. ASSUME NEW k \in Op, op' = [op EXCEPT ![p] = k], SameBut(op[p], k), k.at = "seat",
             DeleteRow(p)
      PROVE  AgreeInv'
  <2>1. /\ b \in Mailboxes /\ op[p].at = "row" /\ op[p].kind \in {"delete", "sweep"}
        /\ UNCHANGED <<account, disturbed, leaked>>
    BY <1>0, <1>5 DEF DeleteRow, Removing, ShapeOf, BoxStages, Reserving
  <2>2. op[p].kind \notin Cascades /\ k.kind \notin Cascades
    BY <1>5, <2>1 DEF SameBut, Cascades
  <2>3. /\ doc'[b].state = "gone" /\ \A m \in Mailboxes \ {b} : doc'[m] = doc[m]
    BY <1>5, <2>1 DEF DeleteRow, AgreeInv, TypeInv, TypeOK, Doc
  <2>4. ASSUME NEW m \in Touched(op[p]), Known(op[p], m)
        PROVE  Known(k, m)'
    <3>1. m \in Mailboxes /\ k.box = b /\ k.kind = op[p].kind
      BY <1>0, <1>5 DEF SameBut
    <3>2. CASE m = b
      <4>1. account[m] = "none"
        BY <2>1, <2>4, <3>2 DEF Known, RowAccount
      <4>2. Settled(m)'
        BY <2>1, <2>3, <3>1, <3>2, <4>1 DEF Settled, Live
      <4> QED BY <1>5, <2>1, <3>1, <4>2 DEF Known
    <3>3. CASE m # b
      <4>1. Settled(m)
        BY <2>1, <2>4, <3>3 DEF Known, Halfway
      <4>2. Known(k, m)
        BY <1>5, <2>1, <3>1, <4>1 DEF Known
      <4> QED BY <2>1, <2>3, <3>1, <3>3, <4>2, SameStores
    <3> QED BY <3>2, <3>3
  <2>5. Touched(k) = Touched(op[p]) /\ Staged(k)
    <3>1. Touched(k) = Touched(op[p])
      BY <1>5 DEF SameBut, Touched
    <3> QED BY <1>0, <1>5, <2>2, <3>1 DEF SameBut, Staged, CascadeStages
  <2>6. b \in Touched(op[p])
    BY <1>0, <2>1, <2>2, TouchesBox
  <2>7. \A m \in Mailboxes \ Touched(op[p]) : doc'[m] = doc[m] /\ account'[m] = account[m]
    BY <2>1, <2>3, <2>6
  <2> QED BY <1>5, <2>1, <2>2, <2>4, <2>5, <2>7, AgreeStep
<1>6. CASE DeleteRow(p)
  <2>1. PICK k \in Op : k = [op[p] EXCEPT !.at = "seat", !.removed = b \in Live]
    <3>1. (b \in Live) \in BOOLEAN
      OBVIOUS
    <3> QED BY <1>0, <3>1 DEF Op, Stages
  <2>2. SameBut(op[p], k) /\ k.at = "seat"
    BY <1>0, <2>1 DEF SameBut, Op
  <2>3. op' = [op EXCEPT ![p] = k]
    BY <1>6, <2>1 DEF DeleteRow
  <2> QED BY <1>5, <1>6, <2>2, <2>3
<1>7. CASE GiveBack(p)
  <2>1. op[p].at = "seat" /\ op[p].kind \notin Cascades /\ Proceed(p)
        /\ UNCHANGED <<doc, account, disturbed, leaked>>
    BY <1>0, <1>7 DEF GiveBack, Staged, CascadeStages
  <2>2. ASSUME NEW m \in Touched(op[p]), Known(op[p], m)
        PROVE  /\ Settled(m)'
               /\ op[p].kind \in {"suspend", "reactivate", "release"} => m \in Live'
               /\ op[p].kind = "release" /\ m \in op[p].seen => doc'[m].status = "active"
    <3>1. Settled(m)
      BY <2>1, <2>2 DEF Known, Halfway
    <3>2. Settled(m)'
      BY <1>0, <2>1, <3>1, SameStores
    <3> QED BY <2>1, <2>2, <3>2 DEF Known, Live
  <2> QED BY <2>1, <2>2, AgreeProceed
<1>8. CASE SwitchRow(p)
  <2>1. /\ b \in Mailboxes /\ op[p].at = "row" /\ op[p].kind \in {"suspend", "reactivate"}
        /\ UNCHANGED <<account, disturbed, leaked>> /\ Finish(p)
    BY <1>0, <1>8 DEF SwitchRow, ShapeOf, BoxStages, Reserving
  <2>2. op[p].kind \notin Cascades
    BY <2>1 DEF Cascades
  <2>3. /\ b \in Live => /\ doc'[b].state = "live"
                         /\ doc'[b].status = IF op[p].kind = "suspend" THEN "suspended"
                                             ELSE "active"
        /\ \A m \in Mailboxes \ {b} : doc'[m] = doc[m]
    BY <1>8, <2>1 DEF SwitchRow, AgreeInv, TypeInv, TypeOK, Doc, Live
  <2>4. ASSUME NEW m \in Touched(op[p]), Known(op[p], m)
        PROVE  Settled(m)'
    <3>1. m \in Mailboxes
      BY <1>0
    <3>2. CASE m = b
      <4>1. m \in Live /\ account[m] = IF op[p].kind = "suspend" THEN "off" ELSE "on"
        BY <2>1, <2>4, <3>2 DEF Known, RowAccount
      <4> QED BY <2>1, <2>3, <3>1, <3>2, <4>1 DEF Settled, Live
    <3>3. CASE m # b
      <4>1. Settled(m)
        BY <2>1, <2>4, <3>3 DEF Known, Halfway
      <4> QED BY <2>1, <2>3, <3>1, <3>3, <4>1, SameStores
    <3> QED BY <3>2, <3>3
  <2>5. \A m \in Mailboxes \ Touched(op[p]) : doc'[m] = doc[m] /\ account'[m] = account[m]
    BY <1>0, <2>1, <2>2, <2>3, TouchesBox
  <2> QED BY <2>1, <2>4, <2>5, AgreeFinish
<1>9. CASE ReleaseRow(p)
  <2>1. /\ b \in Mailboxes /\ op[p].at = "row" /\ op[p].kind = "release"
        /\ UNCHANGED <<account, disturbed, leaked>>
    BY <1>0, <1>9 DEF ReleaseRow, ShapeOf, BoxStages, Reserving
  <2>2. op[p].kind \notin Cascades /\ b \in Touched(op[p])
    BY <1>0, <2>1, TouchesBox DEF Cascades
  <2>3. CASE b \in Live
    <3>1. /\ Proceed(p) /\ doc'[b].state = "live"
          /\ doc'[b].status = IF b \in op[p].seen THEN doc[b].status ELSE "active"
          /\ \A m \in Mailboxes \ {b} : doc'[m] = doc[m]
      BY <1>9, <2>1, <2>3 DEF ReleaseRow, AgreeInv, TypeInv, TypeOK, Doc, Live
    <3>2. ASSUME NEW m \in Touched(op[p]), Known(op[p], m)
          PROVE  /\ Settled(m)' /\ m \in Live'
                 /\ m \in op[p].seen => doc'[m].status = "active"
      <4>1. m \in Mailboxes
        BY <1>0
      <4>2. CASE m = b
        <5>1. account[m] = "on" /\ (m \in op[p].seen => doc[m].status = "active")
          BY <2>1, <3>2, <4>2 DEF Known, RowAccount
        <5> QED BY <2>1, <3>1, <4>1, <4>2, <5>1 DEF Settled, Live
      <4>3. CASE m # b
        <5>1. Settled(m) /\ m \in Live /\ (m \in op[p].seen => doc[m].status = "active")
          BY <2>1, <3>2, <4>3 DEF Known, Halfway
        <5>2. Settled(m)'
          BY <2>1, <3>1, <4>1, <4>3, <5>1, SameStores
        <5> QED BY <3>1, <4>1, <4>3, <5>1, <5>2 DEF Live
      <4> QED BY <4>2, <4>3
    <3>3. \A m \in Mailboxes \ Touched(op[p]) : doc'[m] = doc[m] /\ account'[m] = account[m]
      BY <2>1, <2>2, <3>1
    <3> QED BY <2>1, <2>2, <3>1, <3>2, <3>3, AgreeProceed
  <2>4. CASE b \notin Live
    <3>1. Finish(p) /\ UNCHANGED doc
      BY <1>9, <2>4 DEF ReleaseRow
    <3>2. ASSUME NEW m \in Touched(op[p]), Known(op[p], m)
          PROVE  Settled(m)'
      <4>1. m \in Live /\ m \in Mailboxes
        BY <1>0, <2>1, <3>2 DEF Known
      <4>2. Settled(m)
        BY <2>1, <2>4, <3>2, <4>1 DEF Known, Halfway
      <4> QED BY <2>1, <3>1, <4>1, <4>2, SameStores
    <3> QED BY <2>1, <3>1, <3>2, AgreeFinish
  <2> QED BY <2>3, <2>4
<1>10. CASE SwitchDomains(p)
  <2>1. op[p].at = "domains" /\ Goto(p, "list") /\ UNCHANGED <<doc, account, disturbed, leaked>>
    BY <1>10 DEF SwitchDomains
  <2>2. ASSUME NEW k \in Op, NEW m \in Touched(op[p]), k.at = "list", SameBut(op[p], k),
               Known(op[p], m)
        PROVE  Known(k, m)'
    <3>1. m \in Mailboxes
      BY <1>0
    <3>2. Known(k, m)
      BY <2>1, <2>2 DEF Known, Halfway, SameBut
    <3> QED BY <2>1, <3>1, <3>2, SameStores
  <2> QED BY <2>1, <2>2, AgreeGoto DEF Stages, CascadeStages
<1>11. CASE List(p)
  <2>1. op[p].at = "list" /\ UNCHANGED <<doc, account, disturbed, leaked>>
    BY <1>11 DEF List
  <2>2. op[p].kind \in Cascades
    BY <1>0, <2>1 DEF Staged, CascadeStages
  <2>3. PICK k \in Op : k = [op[p] EXCEPT !.at = "rows", !.todo = Affected(op[p])]
    BY <1>0 DEF Op, Stages, Affected, Live
  <2>4. /\ k.at = "rows" /\ k.todo = Affected(op[p]) /\ k.kind = op[p].kind
        /\ k.dom = op[p].dom /\ k.box = op[p].box
    BY <1>0, <2>3 DEF Op
  <2>5. Affected(k) = Affected(op[p]) /\ Touched(k) = Touched(op[p]) /\ Staged(k)
    <3>1. Affected(k) = Affected(op[p]) /\ Touched(k) = Touched(op[p])
      BY <2>2, <2>4 DEF Affected, Restoring, Touched, Cascades
    <3>2. Affected(op[p]) \subseteq Touched(op[p])
      BY <1>0, <2>2 DEF Affected, Touched, Cascades, Live
    <3> QED BY <2>2, <2>4, <3>1, <3>2 DEF Staged, CascadeStages
  <2>6. ASSUME NEW m \in Touched(op[p]), Known(op[p], m)
        PROVE  Known(k, m)'
    <3>1. m \in Mailboxes
      BY <1>0
    <3>2. Settled(m)
      BY <2>1, <2>6 DEF Known, Halfway
    <3>3. Known(k, m)
      BY <2>2, <2>4, <2>5, <3>2 DEF Known, Cascades
    <3> QED BY <2>1, <3>1, <3>3, SameStores
  <2>7. op' = [op EXCEPT ![p] = k]
    BY <1>11, <2>3 DEF List
  <2> QED BY <2>1, <2>5, <2>6, <2>7, AgreeStep
<1>12. CASE SwitchRows(p)
  <2>1. /\ op[p].at = "rows" /\ UNCHANGED <<account, disturbed, leaked>>
        /\ IF op[p].todo = {} THEN Finish(p) ELSE Goto(p, "accounts")
    BY <1>12 DEF SwitchRows
  <2>2. op[p].kind \in Cascades
    BY <1>0, <2>1 DEF Staged, CascadeStages
  <2>3. /\ \A m \in Mailboxes \ Affected(op[p]) : doc'[m] = doc[m]
        /\ \A m \in Affected(op[p]) :
              /\ doc'[m].state = doc[m].state
              /\ doc'[m].status = IF Restoring(op[p]) THEN "active" ELSE "suspended"
    BY <1>12 DEF SwitchRows, AgreeInv, TypeInv, TypeOK, Doc, Affected, Live
  <2>4. Affected(op[p]) \subseteq Touched(op[p]) /\ Affected(op[p]) \subseteq Live
    BY <1>0, <2>2 DEF Affected, Touched, Cascades, Live
  <2>5. \A m \in Mailboxes \ Touched(op[p]) : doc'[m] = doc[m] /\ account'[m] = account[m]
    BY <2>1, <2>3, <2>4
  <2>6. ASSUME NEW m \in Touched(op[p]), Known(op[p], m), m \notin op[p].todo
        PROVE  Settled(m)'
    <3>1. m \notin Affected(op[p]) /\ m \in Mailboxes
      BY <1>0, <2>1, <2>6 DEF Known
    <3>2. Settled(m)
      BY <2>1, <2>6 DEF Known, Halfway
    <3> QED BY <2>1, <2>3, <3>1, <3>2, SameStores
  <2>7. CASE op[p].todo = {}
    BY <2>1, <2>5, <2>6, <2>7, AgreeFinish
  <2>8. CASE op[p].todo # {}
    <3>1. ASSUME NEW k \in Op, NEW m \in Touched(op[p]), k.at = "accounts",
                 SameBut(op[p], k), Known(op[p], m)
          PROVE  Known(k, m)'
      <4>1. m \in Mailboxes /\ k.kind \in Cascades /\ k.todo = op[p].todo
            /\ (Restoring(k) <=> Restoring(op[p]))
        BY <1>0, <2>2, <3>1 DEF SameBut, Restoring
      <4>2. CASE m \in k.todo
        <5>1. m \in Affected(op[p])
          BY <2>1, <3>1, <4>1, <4>2 DEF Known
        <5>2. /\ m \in Live' /\ Halfway(k, m)
              /\ doc'[m].status = IF Restoring(k) THEN "active" ELSE "suspended"
          BY <2>3, <2>4, <3>1, <4>1, <4>2, <5>1 DEF Live, Halfway
        <5>3. account'[m] # "none"
          <6>1. Settled(m) /\ m \in Live
            BY <2>1, <2>4, <3>1, <5>1 DEF Known, Halfway
          <6> QED BY <2>1, <6>1 DEF Settled
        <5> QED BY <3>1, <4>1, <4>2, <5>2, <5>3 DEF Known, Cascades
      <4>3. CASE m \notin k.todo
        <5>1. Settled(m)'
          BY <2>6, <3>1, <4>1, <4>3
        <5> QED BY <3>1, <4>1, <4>3, <5>1 DEF Known, Cascades
      <4> QED BY <4>2, <4>3
    <3> QED BY <2>1, <2>5, <2>8, <3>1, AgreeGoto DEF Stages, CascadeStages
  <2> QED BY <2>7, <2>8
<1>13. ASSUME NEW n \in Mailboxes, Pick(p, n)
       PROVE  AgreeInv'
  <2>1. op[p].at = "pick" /\ n \in op[p].todo /\ UNCHANGED <<doc, account, disturbed, leaked>>
    BY <1>13 DEF Pick
  <2>2. op[p].kind \notin Cascades
    BY <1>0, <2>1 DEF Staged, CascadeStages
  <2>3. PICK k \in Op : k = [op[p] EXCEPT !.at = "account", !.box = n, !.todo = @ \ {n}]
    BY <1>0 DEF Op, Stages
  <2>4. /\ k.at = "account" /\ k.todo = op[p].todo \ {n} /\ k.kind = op[p].kind
        /\ k.box = n /\ k.seen = op[p].seen
    BY <1>0, <2>3 DEF Op
  <2>5. Touched(k) \subseteq Touched(op[p]) /\ Staged(k)
    BY <1>0, <2>1, <2>2, <2>4, TouchesBox DEF Staged, CascadeStages
  <2>6. ASSUME NEW m \in Touched(op[p]), Known(op[p], m)
        PROVE  Known(k, m)'
    <3>1. m \in Mailboxes
      BY <1>0
    <3>2. Settled(m)
      BY <2>1, <2>6 DEF Known, Halfway
    <3>3. Known(k, m)
      BY <2>4, <2>6, <3>2 DEF Known
    <3> QED BY <2>1, <3>1, <3>3, SameStores
  <2>7. op' = [op EXCEPT ![p] = k]
    BY <1>13, <2>3 DEF Pick
  <2> QED BY <2>1, <2>2, <2>4, <2>5, <2>6, <2>7, AgreeStep
<1>14. ASSUME NEW n \in Mailboxes, SwitchAccounts(p, n)
       PROVE  AgreeInv'
  <2>1. /\ op[p].at = "accounts" /\ n \in op[p].todo /\ UNCHANGED <<doc, leaked>>
        /\ SetAccount(n, IF Restoring(op[p]) THEN "on" ELSE "off")
    BY <1>14 DEF SwitchAccounts
  <2>2. op[p].kind \in Cascades
    BY <1>0, <2>1 DEF Staged, CascadeStages
  <2>3. n \in Touched(op[p])
    BY <1>0, <2>1 DEF Staged
  <2>4. /\ disturbed \subseteq disturbed'
        /\ \A m \in Mailboxes \ {n} : account'[m] = account[m]
        /\ n \notin disturbed' =>
              account'[n] = IF account[n] = "none" THEN "none"
                            ELSE IF Restoring(op[p]) THEN "on" ELSE "off"
    BY <1>0, <2>1, AccountSet
  <2>5. \A m \in Mailboxes \ Touched(op[p]) : doc'[m] = doc[m] /\ account'[m] = account[m]
    BY <2>1, <2>3, <2>4
  <2>6. n \notin disturbed' /\ Known(op[p], n) => Settled(n)'
    <3> SUFFICES ASSUME n \notin disturbed', Known(op[p], n) PROVE Settled(n)'
      OBVIOUS
    <3>1. /\ n \in Live /\ account[n] # "none"
          /\ doc[n].status = IF Restoring(op[p]) THEN "active" ELSE "suspended"
      BY <2>1 DEF Known
    <3> QED BY <2>1, <2>4, <3>1 DEF Settled, Live
  <2>7. CASE op[p].todo = {n}
    <3>1. ASSUME NEW m \in Touched(op[p]), m \notin disturbed', Known(op[p], m)
          PROVE  Settled(m)'
      <4>1. CASE m = n
        BY <2>6, <3>1, <4>1
      <4>2. CASE m # n
        <5>1. Settled(m) /\ m \in Mailboxes
          BY <1>0, <2>1, <2>7, <3>1, <4>2 DEF Known, Halfway
        <5> QED BY <2>1, <2>4, <4>2, <5>1, SameStores
      <4> QED BY <4>1, <4>2
    <3>2. Finish(p)
      BY <1>14, <2>7 DEF SwitchAccounts
    <3> QED BY <2>1, <2>4, <2>5, <3>1, <3>2, AgreeFinish
  <2>8. CASE op[p].todo # {n}
    <3>1. PICK k \in Op : k = [op[p] EXCEPT !.todo = @ \ {n}]
      BY <1>0 DEF Op
    <3>2. /\ k.at = "accounts" /\ k.todo = op[p].todo \ {n} /\ k.kind = op[p].kind
          /\ k.box = op[p].box /\ k.dom = op[p].dom
      BY <1>0, <2>1, <3>1 DEF Op
    <3>3. op' = [op EXCEPT ![p] = k]
      BY <1>14, <2>8, <3>1 DEF SwitchAccounts
    <3>4. Touched(k) = Touched(op[p]) /\ Staged(k)
      BY <1>0, <2>2, <3>2 DEF Touched, Staged, Cascades, CascadeStages
    <3>5. ASSUME NEW m \in Touched(op[p]), m \notin disturbed', Known(op[p], m)
          PROVE  Known(k, m)'
      <4>1. m \in Mailboxes /\ k.kind \in Cascades /\ (Restoring(k) <=> Restoring(op[p]))
        BY <1>0, <2>2, <3>2 DEF Restoring
      <4>2. CASE m = n
        <5>1. Settled(m)' /\ m \notin k.todo
          BY <2>6, <3>2, <3>5, <4>2
        <5> QED BY <3>2, <4>1, <5>1 DEF Known, Cascades
      <4>3. CASE m # n
        <5>1. m \in k.todo <=> m \in op[p].todo
          BY <3>2, <4>3
        <5>2. Known(k, m)
          BY <2>1, <3>2, <3>5, <4>1, <5>1 DEF Known, Halfway, Cascades
        <5> QED BY <2>1, <2>4, <4>1, <4>3, <5>2, SameStores
      <4> QED BY <4>2, <4>3
    <3> QED BY <2>1, <2>4, <2>5, <3>3, <3>4, <3>5, AgreeStep
  <2> QED BY <2>7, <2>8
<1> QED BY <1>2, <1>3, <1>4, <1>6, <1>7, <1>8, <1>9, <1>10, <1>11, <1>12, <1>13, <1>14
        DEF OtherSteps

\* Every request leaves what it begins on settled or disturbed.
LEMMA RequestAgrees ==
  ASSUME AgreeInv, TypeInv', NEW p \in Procs, Requests(p)
  PROVE  AgreeInv'
<1> USE DEF tenantVars
<1>1. ASSUME NEW m \in Mailboxes, Reserve(p, m)
      PROVE  AgreeInv'
  <2>1. PICK k \in Op :
          k = [Idle EXCEPT !.kind = "create", !.at = "domain", !.box = m, !.hold = ~trial]
    BY DEF AgreeInv, TypeInv, TypeOK, Idle, Op, Kinds, Stages
  <2>2. Begin(p, k) /\ UNCHANGED <<doc, account, leaked>>
    BY <1>1, <2>1 DEF Reserve
  <2>3. k.kind = "create" /\ k.at = "domain" /\ k.todo = {}
    BY <2>1 DEF Idle
  <2>4. Staged(k) /\ \A n \in Touched(k) : Settled(n) => Known(k, n)
    BY <2>3 DEF Staged, Cascades, CascadeStages, Known
  <2> QED BY <2>2, <2>4, AgreeBegin
<1>2. ASSUME NEW m \in Mailboxes, Delete(p, m) \/ Suspend(p, m) \/ Reactivate(p, m)
      PROVE  AgreeInv'
  <2>1. PICK kind \in {"delete", "suspend", "reactivate"} :
          Begin(p, [Idle EXCEPT !.kind = kind, !.at = "account", !.box = m])
    BY <1>2 DEF Delete, Suspend, Reactivate
  <2>2. PICK k \in Op : k = [Idle EXCEPT !.kind = kind, !.at = "account", !.box = m]
    BY DEF Idle, Op, Kinds, Stages
  <2>3. Begin(p, k) /\ UNCHANGED <<doc, account, leaked>> /\ m \in Live
    BY <1>2, <2>1, <2>2 DEF Delete, Suspend, Reactivate
  <2>4. k.kind = kind /\ k.at = "account" /\ k.todo = {} /\ k.box = m
    BY <2>2 DEF Idle
  <2>5. \A n \in Touched(k) : n = m
    BY <2>4, TouchesBox DEF Cascades
  <2>6. Staged(k) /\ \A n \in Touched(k) : Settled(n) => Known(k, n)
    BY <2>3, <2>4, <2>5 DEF Staged, Cascades, CascadeStages, Known
  <2> QED BY <2>3, <2>6, AgreeBegin
<1>3. ASSUME NEW d \in Domains, Stop(p, d) \/ Pay(p, d)
      PROVE  AgreeInv'
  <2>1. PICK kind \in {"stop", "pay"} :
          Begin(p, [Idle EXCEPT !.kind = kind, !.at = "list", !.dom = d])
    BY <1>3 DEF Stop, Pay
  <2>2. PICK k \in Op : k = [Idle EXCEPT !.kind = kind, !.at = "list", !.dom = d]
    BY DEF Idle, Op, Kinds, Stages
  <2>3. Begin(p, k) /\ UNCHANGED <<doc, account, leaked>>
    BY <1>3, <2>1, <2>2 DEF Stop, Pay
  <2>4. k.kind = kind /\ k.at = "list" /\ k.todo = {}
    BY <2>2 DEF Idle
  <2>5. Staged(k) /\ \A n \in Touched(k) : Settled(n) => Known(k, n)
    BY <2>4 DEF Staged, Cascades, CascadeStages, Known
  <2> QED BY <2>3, <2>5, AgreeBegin
<1>4. CASE Freeze(p) \/ Restore(p)
  <2>1. PICK kind \in {"freeze", "restore"} :
          Begin(p, [Idle EXCEPT !.kind = kind, !.at = "domains"])
    BY <1>4 DEF Freeze, Restore
  <2>2. PICK k \in Op : k = [Idle EXCEPT !.kind = kind, !.at = "domains"]
    BY DEF Idle, Op, Kinds, Stages
  <2>3. Begin(p, k) /\ UNCHANGED <<doc, account, leaked>>
    BY <1>4, <2>1, <2>2 DEF Freeze, Restore
  <2>4. k.kind = kind /\ k.at = "domains" /\ k.todo = {}
    BY <2>2 DEF Idle
  <2>5. Staged(k) /\ \A n \in Touched(k) : Settled(n) => Known(k, n)
    BY <2>4 DEF Staged, Cascades, CascadeStages, Known
  <2> QED BY <2>3, <2>5, AgreeBegin
<1>5. CASE Release(p)
  <2>1. Held \in SUBSET Mailboxes
    BY DEF Held, Live
  <2>2. PICK k \in Op :
          k = [Idle EXCEPT !.kind = "release", !.at = "pick", !.todo = Held,
                           !.seen = {m \in Held : doc[m].status = "active"}]
    BY <2>1 DEF Idle, Op, Kinds, Stages
  <2>3. Begin(p, k) /\ UNCHANGED <<doc, account, leaked>>
    BY <1>5, <2>2 DEF Release
  <2>4. /\ k.kind = "release" /\ k.at = "pick" /\ k.todo = Held /\ k.box = None
        /\ k.seen = {m \in Held : doc[m].status = "active"}
    BY <2>2 DEF Idle
  <2>5. \A n \in Touched(k) : n \in Held
    BY <2>1, <2>4, TouchesBox, NamesAssumption DEF Cascades
  <2>6. Staged(k)
    BY <2>1, <2>4, TouchesBox DEF Staged, Cascades, CascadeStages
  <2>7. \A n \in Touched(k) : Settled(n) => Known(k, n)
    BY <2>1, <2>4, <2>5, NamesAssumption DEF Known, Held
  <2> QED BY <2>3, <2>6, <2>7, AgreeBegin
<1> QED BY <1>1, <1>2, <1>3, <1>4, <1>5 DEF Requests

\* The start of the sweep leaves what it lists settled or disturbed.
LEMMA SweepAgrees ==
  ASSUME AgreeInv, TypeInv', SweepStart
  PROVE  AgreeInv'
<1>1. Expired \in SUBSET Mailboxes
  BY DEF Expired, Held, Live
<1>2. PICK k \in Op : k = [Idle EXCEPT !.kind = "sweep", !.at = "pick", !.todo = Expired]
  BY <1>1 DEF Idle, Op, Kinds, Stages
<1>3. Begin(Sweeper, k) /\ UNCHANGED <<doc, account, leaked>> /\ Sweeper \in Procs
  BY <1>2 DEF SweepStart, Procs
<1>4. k.kind = "sweep" /\ k.at = "pick" /\ k.todo = Expired
  BY <1>2 DEF Idle
<1>5. Staged(k) /\ \A n \in Touched(k) : Settled(n) => Known(k, n)
  BY <1>1, <1>4, TouchesBox DEF Staged, Cascades, CascadeStages, Known
<1> QED BY <1>3, <1>5, AgreeBegin

\* A restart: what an operation was half-way through counts as disturbed.
LEMMA CrashAgrees ==
  ASSUME AgreeInv, TypeInv', Crash
  PROVE  AgreeInv'
<1>1. /\ \A p \in Procs : op'[p] = Idle
      /\ UNCHANGED <<doc, account>> /\ leaked \subseteq leaked'
      /\ disturbed' = disturbed \cup UNION {Touched(op[p]) : p \in Procs}
  BY DEF Crash
<1>2. Apart' /\ \A p \in Procs : Staged(op'[p])
  BY <1>1, IdleTouches DEF Apart
<1>3. ASSUME NEW m \in Mailboxes, m \notin disturbed', m \notin leaked'
      PROVE  Agreeing(m)'
  <2>1. Settled(m)
    BY <1>1, <1>3 DEF AgreeInv, Agreeing
  <2>2. Settled(m)'
    BY <1>1, <2>1, SameStores
  <2> QED BY <1>1, <2>2, IdleTouches DEF Agreeing
<1> QED BY <1>2, <1>3 DEF AgreeInv

\* No step leaves a mailbox that only one operation touched disagreeing.
LEMMA AgreeNext == AgreeInv /\ [Next]_vars => AgreeInv'
<1> SUFFICES ASSUME AgreeInv, [Next]_vars PROVE AgreeInv'
  OBVIOUS
<1>0. TypeInv'
  BY TypeNext DEF AgreeInv
<1>1. ASSUME NEW p \in Workers, Requests(p) PROVE AgreeInv'
  BY <1>0, <1>1, RequestAgrees DEF Procs
<1>2. ASSUME NEW p \in Procs, Steps(p) PROVE AgreeInv'
  BY <1>0, <1>2, CreateAgrees, OtherAgrees DEF Steps
<1>3. ASSUME UNCHANGED <<doc, account, op, leaked, disturbed>> PROVE AgreeInv'
  BY <1>0, <1>3 DEF AgreeInv, Apart, Agreeing, Known, Settled, Live, Affected
<1>4. CASE StartTrial
  BY <1>3, <1>4 DEF StartTrial, historyVars
<1>5. ASSUME NEW m \in Mailboxes, TwoWeeksPass(m) PROVE AgreeInv'
  BY <1>3, <1>5 DEF TwoWeeksPass, historyVars
<1>6. CASE UNCHANGED vars
  BY <1>3, <1>6 DEF vars, historyVars
<1> QED BY <1>0, <1>1, <1>2, <1>4, <1>5, <1>6, SweepAgrees, CrashAgrees DEF Next

\* At first there is neither a document nor an account.
LEMMA AgreeInit == Init => AgreeInv
<1> SUFFICES ASSUME Init PROVE AgreeInv
  OBVIOUS
<1>1. \A p \in Procs : op[p] = Idle
  BY DEF Init
<1>2. \A m \in Mailboxes : Settled(m)
  BY DEF Init, Settled, Live
<1> QED BY <1>1, <1>2, TypeInit, IdleTouches DEF AgreeInv, Apart, Agreeing

\* ServerAgrees: the mail server lets a mailbox send exactly when its document
\* says active, unless two operations met on it or one of its calls failed.
THEOREM ServerFollows == Spec => []ServerAgrees
<1>1. AgreeInv => ServerAgrees
  BY DEF AgreeInv, Agreeing, Settled, ServerAgrees
<1> QED BY <1>1, AgreeInit, AgreeNext, PTL DEF Spec
=============================================================================
