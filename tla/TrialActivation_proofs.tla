----------------------- MODULE TrialActivation_proofs -----------------------
(***************************************************************************)
(* Proofs about TrialActivation, for any number of calls, checkouts and    *)
(* domains: the type invariant; and, when no call outlasts the lock, that  *)
(* the lock excludes and the tenant has one trial (OneTrial).              *)
(***************************************************************************)
EXTENDS TrialActivation, TLAPS

USE DEF At, Goto, Frame, stripeVars, tenantVars

(* A step of a call changes that call alone.                                *)
LEMMA StepTyped ==
    ASSUME NEW c \in Calls, NEW k \in Call, call \in [Calls -> Call], Step(c, k)
    PROVE  /\ call' \in [Calls -> Call]
           /\ call'[c] = k
           /\ \A b \in Calls : b # c => call'[b] = call[b]
BY DEF Step

LEMMA IdleTyped == Idle \in Call
BY DEF Idle, Call, Stages

LEMMA OneMore ==
    ASSUME NEW f \in [Planned -> Nat], NEW d
    PROVE  [f EXCEPT ![d] = @ + 1] \in [Planned -> Nat]
<1>1. CASE d \in Planned
  BY <1>1
<1>2. CASE d \notin Planned
  <2>1. [f EXCEPT ![d] = @ + 1] = f
    BY <1>2
  <2>2. QED
    BY <2>1
<1>3. QED
  BY <1>1, <1>2

(* The steps of an adoption keep the types.                                 *)
LEMMA AdoptionTyped ==
    ASSUME Typed, NEW c \in Calls,
           \/ Adopts(c) \/ Claim(c) \/ ClaimMissed(c) \/ Missed(c) \/ RetrieveSubscription(c)
           \/ SaveTenant(c) \/ Unlock(c) \/ \E d \in Planned : AdoptRow(c, d)
    PROVE  TypeOK'
<1> USE DEF Typed, TypeOK, Stages, Critical, Ensuring
<1>k. call[c] \in Call
  OBVIOUS
<1>1. CASE Adopts(c)
  <2>1. PICK s \in Sessions : Adopt(c, s)
    BY <1>1 DEF Adopts
  <2>2. [Idle EXCEPT !.at = "claim", !.s = s, !.returning = Ended, !.old = sub] \in Call
    BY DEF Idle, Call, Ended
  <2>3. QED
    BY <2>1, <2>2, StepTyped DEF Adopt
<1>2. CASE Claim(c) \/ ClaimMissed(c)
  <2>1. [call[c] EXCEPT !.at = "stripe"] \in Call /\ [call[c] EXCEPT !.at = "missed"] \in Call
    BY <1>k DEF Call
  <2>2. QED
    BY <1>2, <2>1, StepTyped DEF Claim, ClaimMissed
<1>3. CASE Missed(c)
  <2>1. \A x \in Stages : [call[c] EXCEPT !.at = x] \in Call
    BY <1>k DEF Call
  <2>2. QED
    BY <1>3, <2>1, StepTyped DEF Missed
<1>4. CASE RetrieveSubscription(c)
  <2>1. /\ [call[c] EXCEPT !.at = "unlock", !.failed = TRUE] \in Call
        /\ [call[c] EXCEPT !.at = "save"] \in Call
    BY <1>k DEF Call
  <2>2. QED
    BY <1>4, <2>1, StepTyped DEF RetrieveSubscription
<1>5. CASE SaveTenant(c)
  <2>1. \A x \in Stages : [call[c] EXCEPT !.at = x, !.todo = Lines] \in Call
    BY <1>k, DomainsAssumption DEF Call
  <2>2. call[c].s \in Sessions \cup {None}
    BY <1>k DEF Call
  <2>3. QED
    BY <1>5, <2>1, <2>2, StepTyped DEF SaveTenant
<1>6. CASE Unlock(c)
  <2>1. /\ [call[c] EXCEPT !.at = "refused"] \in Call
        /\ [call[c] EXCEPT !.at = "ensure", !.todo = Planned,
                           !.release = ~call[c].returning] \in Call
    BY <1>k DEF Call
  <2>2. QED
    BY <1>6, <2>1, StepTyped DEF Unlock
<1>7. ASSUME NEW d \in Planned, AdoptRow(c, d) PROVE TypeOK'
  <2> DEFINE rest == call[c].todo \ {d}
  <2>1. [call[c] EXCEPT !.at = IF rest = {} THEN "unlock" ELSE "rows", !.todo = rest] \in Call
    BY <1>k DEF Call
  <2>2. PICK k : k = [call[c] EXCEPT !.at = IF rest = {} THEN "unlock" ELSE "rows",
                                     !.todo = rest]
    OBVIOUS
  <2>3. Step(c, k) /\ row' = [row EXCEPT ![d] = [sub |-> call[c].s, live |-> TRUE]]
    BY <1>7, <2>2 DEF AdoptRow
  <2>4. call' \in [Calls -> Call]
    BY <2>1, <2>2, <2>3, StepTyped
  <2>5. QED
    <3>1. call[c].s \in Sessions
      BY <1>7, <1>k DEF AdoptRow, Targets, Adopting, Call
    <3>2. row' \in [Planned -> Row \cup {None}]
      BY <2>3, <3>1 DEF Row
    <3>3. QED
      BY <1>7, <2>4, <3>2 DEF AdoptRow
<1>8. QED
  BY <1>1, <1>2, <1>3, <1>4, <1>5, <1>6, <1>7

(* The steps of ensureDomainSubscription and releaseBillingHolds keep them. *)
LEMMA AttachingTyped ==
    ASSUME Typed, NEW c \in Calls,
           \/ UseSavedCard(c) \/ \E d \in Planned : SelectPlan(c, d)
           \/ AfterEnsuring(c) \/ \E d \in Planned : ReadRow(c, d)
           \/ ReadTenant(c) \/ AddItem(c) \/ UpsertRow(c) \/ ReleaseHolds(c)
    PROVE  TypeOK'
<1> USE DEF Typed, TypeOK, Stages, Critical, Ensuring
<1>k. call[c] \in Call
  OBVIOUS
<1>1. CASE UseSavedCard(c)
  <2>1. [Idle EXCEPT !.at = "ensure", !.todo = Planned, !.release = TRUE] \in Call
    BY DEF Idle, Call
  <2>2. QED
    BY <1>1, <2>1, StepTyped DEF UseSavedCard
<1>2. ASSUME NEW d \in Planned, SelectPlan(c, d) PROVE TypeOK'
  <2>1. [Idle EXCEPT !.at = "ensure", !.todo = {d}] \in Call
    BY DEF Idle, Call
  <2>2. QED
    BY <1>2, <2>1, StepTyped DEF SelectPlan
<1>3. CASE AfterEnsuring(c)
  <2>1. \A x \in Stages : [call[c] EXCEPT !.at = x] \in Call
    BY <1>k DEF Call
  <2>2. QED
    BY <1>3, <2>1, StepTyped DEF AfterEnsuring
<1>4. ASSUME NEW d \in Planned, ReadRow(c, d) PROVE TypeOK'
  <2>1. /\ [call[c] EXCEPT !.todo = @ \ {d}] \in Call
        /\ [call[c] EXCEPT !.at = "join", !.todo = @ \ {d}, !.cur = d] \in Call
    BY <1>k DEF Call
  <2>2. QED
    BY <1>4, <2>1, StepTyped DEF ReadRow
<1>5. CASE ReadTenant(c)
  <2>1. /\ [call[c] EXCEPT !.at = "ensure"] \in Call
        /\ [call[c] EXCEPT !.at = "item", !.old = sub] \in Call
    BY <1>k DEF Call
  <2>2. QED
    BY <1>5, <2>1, StepTyped DEF ReadTenant
<1>6. CASE AddItem(c)
  <2>1. \A x \in Stages : [call[c] EXCEPT !.at = x] \in Call
    BY <1>k DEF Call
  <2>2. call' \in [Calls -> Call]
    BY <1>6, <2>1, StepTyped DEF AddItem
  <2>3. items' \in [Sessions -> [Planned -> Nat]]
    <3>1. CASE UNCHANGED items
      BY <3>1
    <3>2. CASE items' = [items EXCEPT ![call[c].old][call[c].cur] = @ + 1]
      <4>1. CASE call[c].old \in Sessions
        <5>1. items[call[c].old] \in [Planned -> Nat]
          BY <4>1
        <5>2. [items[call[c].old] EXCEPT ![call[c].cur] = @ + 1] \in [Planned -> Nat]
          BY <5>1, OneMore
        <5>3. QED
          BY <3>2, <4>1, <5>2
      <4>2. CASE call[c].old \notin Sessions
        BY <3>2, <4>2
      <4>3. QED
        BY <4>1, <4>2
    <3>3. QED
      BY <1>6, <3>1, <3>2 DEF AddItem
  <2>4. QED
    BY <1>6, <2>2, <2>3 DEF AddItem
<1>7. CASE UpsertRow(c)
  <2>1. [call[c] EXCEPT !.at = "ensure"] \in Call
    BY <1>k DEF Call
  <2>2. call' \in [Calls -> Call]
    BY <1>7, <2>1, StepTyped DEF UpsertRow
  <2>3. call[c].old \in Sessions
    BY <1>7, <1>k DEF UpsertRow, Targets, Targeting, Call
  <2>4. row' \in [Planned -> Row \cup {None}]
    BY <1>7, <2>3 DEF UpsertRow, AttachedRow, Row
  <2>5. QED
    BY <1>7, <2>2, <2>4 DEF UpsertRow
<1>8. CASE ReleaseHolds(c)
  <2>1. [call[c] EXCEPT !.at = "done"] \in Call
    BY <1>k DEF Call
  <2>2. QED
    BY <1>8, <2>1, StepTyped DEF ReleaseHolds
<1>9. QED
  BY <1>1, <1>2, <1>3, <1>4, <1>5, <1>6, <1>7, <1>8

(* So do Stripe, the clock, and the calls that fail or are retried.         *)
LEMMA OthersTyped ==
    ASSUME Typed,
           \/ \E s \in Sessions : StartCheckout(s) \/ Complete(s)
                                  \/ EndSubscription(s) \/ SubscriptionDeleted(s)
           \/ \E c \in Calls : Throws(c) \/ Dies(c) \/ TryAgain(c)
           \/ LockGoesStale
    PROVE  TypeOK'
<1> USE DEF Typed, TypeOK, Stages, Critical, Ensuring
<1>1. ASSUME NEW s \in Sessions, StartCheckout(s) \/ EndSubscription(s) PROVE TypeOK'
  BY <1>1 DEF StartCheckout, EndSubscription, Ended
<1>2. ASSUME NEW s \in Sessions, Complete(s) PROVE TypeOK'
  BY <1>2 DEF Complete
<1>3. ASSUME NEW s \in Sessions, SubscriptionDeleted(s) PROVE TypeOK'
  <2>1. ASSUME NEW d \in RowsOf(s) PROVE [row[d] EXCEPT !.live = FALSE] \in Row
    BY <2>1 DEF RowsOf, Row
  <2>2. row' \in [Planned -> Row \cup {None}]
    BY <1>3, <2>1 DEF SubscriptionDeleted
  <2>3. QED
    BY <1>3, <2>2 DEF SubscriptionDeleted
<1>4. ASSUME NEW c \in Calls, Throws(c) \/ Dies(c) \/ TryAgain(c) PROVE TypeOK'
  <2>k. call[c] \in Call
    OBVIOUS
  <2>1. /\ \A x \in Stages : [call[c] EXCEPT !.failed = TRUE, !.at = x] \in Call
        /\ [call[c] EXCEPT !.at = "dead"] \in Call
    BY <2>k DEF Call
  <2>2. CASE Throws(c)
    <3>1. call' \in [Calls -> Call]
      BY <2>1, <2>2, StepTyped DEF Throws
    <3>2. /\ cut' = cut + 1
          /\ UNCHANGED <<stripeVars, items, tenantVars, row, held>>
      BY <2>2 DEF Throws
    <3>3. QED
      BY <3>1, <3>2
  <2>3. CASE Dies(c)
    BY <2>1, <2>3, StepTyped DEF Dies
  <2>4. CASE TryAgain(c)
    BY <2>4, IdleTyped, StepTyped DEF TryAgain
  <2>5. QED
    BY <1>4, <2>2, <2>3, <2>4
<1>5. CASE LockGoesStale
  BY <1>5 DEF LockGoesStale
<1>6. QED
  BY <1>1, <1>2, <1>3, <1>4, <1>5

-----------------------------------------------------------------------------

(* A subscription that a call is about to write has a name.                 *)
Aim(k) == /\ k.at \in Adopting => k.s # None
          /\ k.at \in Targeting => k.old # None

LEMMA AimKept ==
    ASSUME Typed, NEW c \in Calls, NEW k \in Call, Step(c, k), Aim(k),
           trial' # None => sub' # None
    PROVE  Targets'
<1>1. ASSUME NEW b \in Calls PROVE Aim(call[b])'
  <2>1. CASE b = c
    BY <2>1, StepTyped DEF Typed, TypeOK, Aim
  <2>2. CASE b # c
    <3>1. call'[b] = call[b]
      BY <2>2, StepTyped DEF Typed, TypeOK
    <3>2. Aim(call[b])
      BY DEF Typed, Targets, Aim
    <3>3. QED
      BY <3>1, <3>2 DEF Aim
  <2>3. QED
    BY <2>1, <2>2
<1>2. QED
  BY <1>1 DEF Targets, Aim

LEMMA AimOfMove ==
    ASSUME NEW k \in Call, Aim(k), NEW x \in Stages,
           x \in Adopting => k.at \in Adopting,
           x \in Targeting => k.at \in Targeting
    PROVE  [k EXCEPT !.at = x] \in Call /\ Aim([k EXCEPT !.at = x])
BY DEF Call, Aim

LEMMA TargetsStep ==
    ASSUME Typed, [Next]_vars
    PROVE  Targets'
<1> USE DEF Adopting, Targeting, Critical, Ensuring, Stages
<1>1. ASSUME NEW c \in Calls, Adopts(c) \/ Runs(c) \/ Throws(c) \/ Dies(c) \/ TryAgain(c)
                              \/ UseSavedCard(c) \/ \E d \in Planned : SelectPlan(c, d)
      PROVE  Targets'
  <2>1. call[c] \in Call /\ Aim(call[c])
    BY DEF Typed, TypeOK, Targets, Aim
  <2>2. (trial # None => sub # None) /\ sub \in Sessions \cup {None}
    BY DEF Typed, TypeOK, Targets
  <2>3. CASE Adopts(c)
    <3>1. PICK s \in Sessions : Adopt(c, s)
      BY <2>3 DEF Adopts
    <3>2. PICK k : k = [Idle EXCEPT !.at = "claim", !.s = s, !.returning = Ended, !.old = sub]
      OBVIOUS
    <3>3. k \in Call /\ Aim(k)
      BY <3>2, <2>2, NoneAssumption DEF Idle, Call, Aim, Ended
    <3>4. Step(c, k) /\ UNCHANGED <<trial, sub>>
      BY <3>1, <3>2 DEF Adopt
    <3>5. QED
      BY <2>2, <3>3, <3>4, AimKept
  <2>4. CASE \/ Claim(c) \/ ClaimMissed(c) \/ Missed(c) \/ AfterEnsuring(c) \/ UpsertRow(c)
             \/ ReleaseHolds(c) \/ Dies(c) \/ AddItem(c)
    <3>1. PICK x \in Stages : /\ Step(c, [call[c] EXCEPT !.at = x])
                              /\ x \in Adopting => call[c].at \in Adopting
                              /\ x \in Targeting => call[c].at \in Targeting
      BY <2>4 DEF Claim, ClaimMissed, Missed, AfterEnsuring, UpsertRow, ReleaseHolds, Dies,
         AddItem
    <3>2. UNCHANGED <<trial, sub>>
      BY <2>4 DEF Claim, ClaimMissed, Missed, AfterEnsuring, UpsertRow, ReleaseHolds, Dies,
         AddItem
    <3>3. [call[c] EXCEPT !.at = x] \in Call /\ Aim([call[c] EXCEPT !.at = x])
      BY <2>1, <3>1, AimOfMove
    <3>4. QED
      BY <2>2, <3>1, <3>2, <3>3, AimKept
  <2>5. CASE RetrieveSubscription(c)
    <3>1. /\ [call[c] EXCEPT !.at = "unlock", !.failed = TRUE] \in Call
          /\ [call[c] EXCEPT !.at = "save"] \in Call
          /\ At(c, "stripe") => /\ Aim([call[c] EXCEPT !.at = "unlock", !.failed = TRUE])
                                /\ Aim([call[c] EXCEPT !.at = "save"])
      BY <2>1 DEF Call, Aim
    <3>2. QED
      BY <2>2, <2>5, <3>1, AimKept DEF RetrieveSubscription
  <2>6. CASE SaveTenant(c)
    <3>1. \A x \in {"unlock", "rows"} :
             /\ [call[c] EXCEPT !.at = x, !.todo = Lines] \in Call
             /\ At(c, "save") => Aim([call[c] EXCEPT !.at = x, !.todo = Lines])
      BY <2>1, DomainsAssumption DEF Call, Aim
    <3>2. call[c].s # None
      BY <2>1, <2>6 DEF SaveTenant, Aim
    <3>3. QED
      BY <2>6, <3>1, <3>2, AimKept DEF SaveTenant
  <2>7. CASE Unlock(c)
    <3>1. /\ [call[c] EXCEPT !.at = "refused"] \in Call
          /\ Aim([call[c] EXCEPT !.at = "refused"])
      BY <2>1 DEF Call, Aim
    <3>2. PICK k : k = [call[c] EXCEPT !.at = "ensure", !.todo = Planned,
                                       !.release = ~call[c].returning]
      OBVIOUS
    <3>3. k \in Call /\ Aim(k)
      BY <2>1, <3>2 DEF Call, Aim
    <3>4. QED
      BY <2>2, <2>7, <3>1, <3>2, <3>3, AimKept DEF Unlock
  <2>8. ASSUME NEW d \in Planned, AdoptRow(c, d) PROVE Targets'
    <3>1. \A x \in {"unlock", "rows"} :
             /\ [call[c] EXCEPT !.at = x, !.todo = @ \ {d}] \in Call
             /\ At(c, "rows") => Aim([call[c] EXCEPT !.at = x, !.todo = @ \ {d}])
      BY <2>1 DEF Call, Aim
    <3>2. QED
      BY <2>2, <2>8, <3>1, AimKept DEF AdoptRow
  <2>9. ASSUME NEW d \in Planned, ReadRow(c, d) PROVE Targets'
    <3>1. /\ [call[c] EXCEPT !.todo = @ \ {d}] \in Call
          /\ Aim([call[c] EXCEPT !.todo = @ \ {d}])
          /\ [call[c] EXCEPT !.at = "join", !.todo = @ \ {d}, !.cur = d] \in Call
          /\ Aim([call[c] EXCEPT !.at = "join", !.todo = @ \ {d}, !.cur = d])
      BY <2>1 DEF Call, Aim
    <3>2. QED
      BY <2>2, <2>9, <3>1, AimKept DEF ReadRow
  <2>10. CASE ReadTenant(c)
    <3>1. /\ [call[c] EXCEPT !.at = "ensure"] \in Call
          /\ Aim([call[c] EXCEPT !.at = "ensure"])
          /\ [call[c] EXCEPT !.at = "item", !.old = sub] \in Call
          /\ trial # None => Aim([call[c] EXCEPT !.at = "item", !.old = sub])
      BY <2>1, <2>2 DEF Call, Aim
    <3>2. QED
      BY <2>2, <2>10, <3>1, AimKept DEF ReadTenant
  <2>11. CASE Throws(c)
    <3>1. \A x \in {"unlock", "refused"} :
             /\ [call[c] EXCEPT !.failed = TRUE, !.at = x] \in Call
             /\ call[c].at \in Critical \/ x = "refused"
                   => Aim([call[c] EXCEPT !.failed = TRUE, !.at = x])
      BY <2>1 DEF Call, Aim
    <3>2. QED
      BY <2>2, <2>11, <3>1, AimKept DEF Throws
  <2>12. CASE TryAgain(c)
    <3>1. Aim(Idle)
      BY DEF Idle, Aim
    <3>2. QED
      BY <2>2, <2>12, <3>1, IdleTyped, AimKept DEF TryAgain
  <2>13. CASE UseSavedCard(c)
    <3>1. PICK k : k = [Idle EXCEPT !.at = "ensure", !.todo = Planned, !.release = TRUE]
      OBVIOUS
    <3>2. k \in Call /\ Aim(k)
      BY <3>1 DEF Idle, Call, Aim
    <3>3. QED
      BY <2>2, <2>13, <3>1, <3>2, AimKept DEF UseSavedCard
  <2>14. ASSUME NEW d \in Planned, SelectPlan(c, d) PROVE Targets'
    <3>1. PICK k : k = [Idle EXCEPT !.at = "ensure", !.todo = {d}]
      OBVIOUS
    <3>2. k \in Call /\ Aim(k)
      BY <3>1 DEF Idle, Call, Aim
    <3>3. QED
      BY <2>2, <2>14, <3>1, <3>2, AimKept DEF SelectPlan
  <2>15. QED
    BY <1>1, <2>3, <2>4, <2>5, <2>6, <2>7, <2>8, <2>9, <2>10, <2>11, <2>12, <2>13, <2>14
    DEF Runs
<1>2. ASSUME UNCHANGED <<trial, sub, call>> PROVE Targets'
  BY <1>2 DEF Typed, Targets
<1>3. QED
  BY <1>1, <1>2 DEF Next, vars, StartCheckout, Complete, EndSubscription,
     SubscriptionDeleted, LockGoesStale

LEMMA InitTyped == Init => Typed
BY IdleTyped, NoneAssumption, DomainsAssumption
DEF Init, Typed, TypeOK, Targets, Adopting, Targeting, Critical, Idle

LEMMA TypedStep == Typed /\ [Next]_vars => Typed'
<1> SUFFICES ASSUME Typed, [Next]_vars PROVE Typed'
  OBVIOUS
<1>1. CASE Next
  BY <1>1, AdoptionTyped, AttachingTyped, OthersTyped, TargetsStep DEF Next, Runs, Typed
<1>2. CASE UNCHANGED vars
  BY <1>2, TargetsStep DEF vars, Typed, TypeOK
<1>3. QED
  BY <1>1, <1>2

(* Every variable keeps its type, however slow the calls are: in particular *)
(* no row is ever written without a subscription.                           *)
THEOREM TypeCorrect == Spec => []TypeOK
<1>1. Typed => TypeOK
  BY DEF Typed
<1>2. QED
  BY InitTyped, TypedStep, <1>1, PTL DEF Spec

-----------------------------------------------------------------------------

(* A tenant recognised as returning has lost its subscription for good      *)
(* (hasEndedSubscription).                                                  *)
LEMMA EndedIsOver ==
    ASSUME Typed, DeadRows, Ended
    PROVE  trial # None /\ sub \in canceled
<1>1. PICK d \in RowsOf(sub) : ~row[d].live
  BY DEF Ended
<1>2. d \in Planned /\ row[d] # None /\ row[d].sub = sub
  BY <1>1 DEF RowsOf
<1>3. QED
  BY <1>1, <1>2 DEF DeadRows, Ended

(* A call that moves on without touching tenant, lock or Stripe disturbs no *)
(* other call.                                                              *)
CallsOK == \A c \in Calls : Remembers(call[c]) /\ SawTrial(call[c])

LEMMA CallKept ==
    ASSUME IInv, NEW c \in Calls, NEW k \in Call, Step(c, k),
           Remembers(k), SawTrial(k), k.at \in Critical => call[c].at \in Critical,
           UNCHANGED <<canceled, trial, sub, lock>>
    PROVE  (HolderLocked /\ LockExcludes /\ CallsOK)'
<1>1. call' = [call EXCEPT ![c] = k] /\ call \in [Calls -> Call]
  BY DEF Step, IInv, Typed, TypeOK
<1>2. call'[c] = k /\ \A b \in Calls : b # c => call'[b] = call[b]
  BY <1>1
<1>3. \A b \in Calls : call'[b].at \in Critical => call[b].at \in Critical
  BY <1>2
<1>4. HolderLocked' /\ LockExcludes'
  BY <1>3 DEF IInv, HolderLocked, LockExcludes, Critical
<1>5. ASSUME NEW b \in Calls PROVE (Remembers(call[b]) /\ SawTrial(call[b]))'
  <2>1. call'[b] = k \/ call'[b] = call[b]
    BY <1>2
  <2>2. Remembers(call[b]) /\ SawTrial(call[b])
    BY DEF IInv
  <2>3. QED
    BY <2>1, <2>2 DEF Remembers, SawTrial
<1>6. QED
  BY <1>4, <1>5 DEF CallsOK

\* A stage that asks no more of a call than the one it is in.
NoFurther(k, x) ==
    /\ x \in Stages
    /\ x \in Adopting => k.at \in Adopting
    /\ x \in Unsaved => k.at \in Unsaved
    /\ x \in AfterStart => k.at \in AfterStart \/ trial # None
                           \/ (k.at \in Ensuring /\ k.release)
    /\ x \in Critical => k.at \in Critical
    /\ x \in Ensuring => k.at \in Ensuring
    /\ x # "unlock"

LEMMA MoveKept ==
    ASSUME IInv, NEW c \in Calls, NEW x, NoFurther(call[c], x),
           Step(c, [call[c] EXCEPT !.at = x]),
           UNCHANGED <<canceled, trial, sub, lock>>
    PROVE  (HolderLocked /\ LockExcludes /\ CallsOK)'
<1>1. call[c] \in Call /\ Remembers(call[c]) /\ SawTrial(call[c])
  BY DEF IInv, Typed, TypeOK
<1>2. PICK k : k = [call[c] EXCEPT !.at = x]
  OBVIOUS
<1>3. /\ k \in Call /\ k.at = x /\ k.s = call[c].s /\ k.old = call[c].old
      /\ k.returning = call[c].returning /\ k.release = call[c].release
      /\ k.failed = call[c].failed
  BY <1>1, <1>2 DEF Call, NoFurther
<1>4. Remembers(k)
  BY <1>1, <1>3 DEF Remembers, NoFurther
<1>5. SawTrial(k)
  BY <1>1, <1>3 DEF SawTrial, NoFurther
<1>6. QED
  BY <1>2, <1>3, <1>4, <1>5, CallKept DEF NoFurther

(* The calls keep one another's knowledge of the tenant, because only the    *)
(* holder of the lock changes it (claimActivationLock).                      *)
LEMMA CallsStep ==
    ASSUME IInv, NEW c \in Calls,
           Adopts(c) \/ Runs(c) \/ Throws(c) \/ Dies(c) \/ TryAgain(c)
           \/ UseSavedCard(c) \/ \E d \in Planned : SelectPlan(c, d)
    PROVE  (HolderLocked /\ LockExcludes /\ CallsOK)'
<1> USE DEF Adopting, Unsaved, AfterStart, Critical, Ensuring, Stages
<1>1. call[c] \in Call /\ Remembers(call[c]) /\ SawTrial(call[c])
  BY DEF IInv, Typed, TypeOK
<1>2. trial \in Sessions \cup {None}
  BY DEF IInv, Typed, TypeOK
<1>3. CASE Adopts(c)
  <2>1. PICK s \in Sessions : Adopt(c, s)
    BY <1>3 DEF Adopts
  <2>2. PICK k : k = [Idle EXCEPT !.at = "claim", !.s = s, !.returning = Ended, !.old = sub]
    OBVIOUS
  <2>3. k \in Call /\ k.at = "claim" /\ k.old = sub /\ k.returning = Ended
    BY <2>2 DEF Idle, Call, IInv, Typed, TypeOK, Ended
  <2>4. Remembers(k) /\ SawTrial(k)
    BY <2>3, EndedIsOver DEF IInv, Remembers, SawTrial
  <2>5. Step(c, k) /\ UNCHANGED <<canceled, trial, sub, lock>>
    BY <2>1, <2>2 DEF Adopt
  <2>6. QED
    BY <2>3, <2>4, <2>5, CallKept
<1>4. CASE Claim(c)
  <2>1. PICK k : k = [call[c] EXCEPT !.at = "stripe"]
    OBVIOUS
  <2>2. /\ k \in Call /\ k.at = "stripe" /\ k.old = call[c].old
        /\ k.returning = call[c].returning
    BY <1>1, <2>1 DEF Call
  <2>3. call' = [call EXCEPT ![c] = k] /\ call \in [Calls -> Call]
    BY <1>4, <2>1 DEF Claim, Step, IInv, Typed, TypeOK
  <2>4. lock' = "held" /\ UNCHANGED <<canceled, trial, sub>> /\ Claimable(call[c])
    BY <1>4 DEF Claim
  <2>5. \A b \in Calls : call[b].at \notin Critical
    BY <2>4 DEF Claimable, IInv, HolderLocked
  <2>6. (HolderLocked /\ LockExcludes)'
    BY <2>2, <2>3, <2>4, <2>5 DEF HolderLocked, LockExcludes
  <2>7. Remembers(k) /\ SawTrial(k)
    BY <1>1, <1>4, <2>2, <2>4 DEF Claim, Claimable, Remembers, SawTrial
  <2>8. ASSUME NEW b \in Calls PROVE (Remembers(call[b]) /\ SawTrial(call[b]))'
    <3>1. call'[b] = k \/ call'[b] = call[b]
      BY <2>3
    <3>2. Remembers(call[b]) /\ SawTrial(call[b])
      BY DEF IInv
    <3>3. QED
      BY <2>4, <2>7, <3>1, <3>2 DEF Remembers, SawTrial
  <2>9. QED
    BY <2>6, <2>8 DEF CallsOK
<1>5. CASE ClaimMissed(c) \/ Missed(c) \/ AfterEnsuring(c) \/ ReleaseHolds(c) \/ AddItem(c)
           \/ UpsertRow(c) \/ Dies(c)
  <2>1. PICK x : Step(c, [call[c] EXCEPT !.at = x]) /\ NoFurther(call[c], x)
    BY <1>5 DEF ClaimMissed, Missed, AlreadyStarted, AfterEnsuring, ReleaseHolds, AddItem,
       UpsertRow, Dies, NoFurther
  <2>2. UNCHANGED <<canceled, trial, sub, lock>>
    BY <1>5 DEF ClaimMissed, Missed, AfterEnsuring, ReleaseHolds, AddItem, UpsertRow, Dies
  <2>3. QED
    BY <2>1, <2>2, MoveKept
<1>6. CASE RetrieveSubscription(c)
  <2>1. UNCHANGED <<canceled, trial, sub, lock>> /\ call[c].at = "stripe"
    BY <1>6 DEF RetrieveSubscription
  <2>2. CASE Step(c, [call[c] EXCEPT !.at = "unlock", !.failed = TRUE])
    <3>1. PICK k : k = [call[c] EXCEPT !.at = "unlock", !.failed = TRUE]
      OBVIOUS
    <3>2. /\ k \in Call /\ k.at = "unlock" /\ k.old = call[c].old /\ k.failed = TRUE
          /\ k.returning = call[c].returning
      BY <1>1, <3>1 DEF Call
    <3>3. Remembers(k) /\ SawTrial(k)
      BY <1>1, <2>1, <3>2 DEF Remembers, SawTrial
    <3>4. QED
      BY <2>1, <2>2, <3>1, <3>2, <3>3, CallKept
  <2>3. CASE Step(c, [call[c] EXCEPT !.at = "save"])
    <3>1. NoFurther(call[c], "save")
      BY <2>1 DEF NoFurther
    <3>2. QED
      BY <2>1, <2>3, <3>1, MoveKept
  <2>4. QED
    BY <1>6, <2>2, <2>3 DEF RetrieveSubscription
<1>7. CASE SaveTenant(c)
  <2>1. PICK k : k = [call[c] EXCEPT !.at = IF Lines = {} THEN "unlock" ELSE "rows",
                                     !.todo = Lines]
    OBVIOUS
  <2>2. /\ k.at \in {"unlock", "rows"} /\ k.old = call[c].old
        /\ k.returning = call[c].returning
    BY <1>1, <2>1 DEF Call
  <2>3. call' = [call EXCEPT ![c] = k] /\ call \in [Calls -> Call]
    BY <1>7, <2>1 DEF SaveTenant, Step, IInv, Typed, TypeOK
  <2>4. call[c].at = "save" /\ UNCHANGED <<canceled, lock>>
    BY <1>7 DEF SaveTenant
  <2>5. trial' # None
    BY <1>1, <1>7, <2>4 DEF SaveTenant, Remembers, IInv, Typed, Targets
  <2>6. lock = "held" /\ \A b \in Calls : b # c => call[b].at \notin Critical
    BY <2>4 DEF IInv, HolderLocked, LockExcludes
  <2>7. (HolderLocked /\ LockExcludes)'
    BY <2>3, <2>4, <2>6 DEF HolderLocked, LockExcludes
  <2>8. ASSUME NEW b \in Calls PROVE (Remembers(call[b]) /\ SawTrial(call[b]))'
    <3>1. Remembers(call[b])
      BY DEF IInv
    <3>2. CASE b = c
      BY <1>1, <2>2, <2>3, <2>4, <2>5, <3>2 DEF Remembers, SawTrial
    <3>3. CASE b # c
      BY <2>3, <2>4, <2>5, <2>6, <3>1, <3>3 DEF Remembers, SawTrial
    <3>4. QED
      BY <3>2, <3>3
  <2>9. QED
    BY <2>7, <2>8 DEF CallsOK
<1>8. ASSUME NEW d \in Planned, AdoptRow(c, d)
      PROVE  (HolderLocked /\ LockExcludes /\ CallsOK)'
  <2>1. UNCHANGED <<canceled, trial, sub, lock>> /\ call[c].at = "rows"
    BY <1>8 DEF AdoptRow
  <2>2. PICK k : k = [call[c] EXCEPT !.at = IF call[c].todo \ {d} = {} THEN "unlock" ELSE "rows",
                                     !.todo = call[c].todo \ {d}]
    OBVIOUS
  <2>3. /\ k \in Call /\ k.at \in {"unlock", "rows"} /\ k.old = call[c].old
        /\ k.returning = call[c].returning
    BY <1>1, <2>2 DEF Call
  <2>4. Remembers(k) /\ SawTrial(k)
    BY <1>1, <2>1, <2>3 DEF Remembers, SawTrial
  <2>5. Step(c, k)
    BY <1>8, <2>2 DEF AdoptRow
  <2>6. QED
    BY <2>1, <2>3, <2>4, <2>5, CallKept
<1>9. CASE Unlock(c)
  <2>1. PICK k : /\ call' = [call EXCEPT ![c] = k] /\ k.at \in {"refused", "ensure"}
                 /\ k.at = "ensure" => ~call[c].failed
    <3>1. PICK k : k = IF call[c].failed THEN [call[c] EXCEPT !.at = "refused"]
                       ELSE [call[c] EXCEPT !.at = "ensure", !.todo = Planned,
                                            !.release = ~call[c].returning]
      OBVIOUS
    <3>2. k.at = IF call[c].failed THEN "refused" ELSE "ensure"
      BY <1>1, <3>1 DEF Call
    <3>3. Step(c, k)
      BY <1>9, <3>1 DEF Unlock
    <3>4. QED
      BY <3>2, <3>3 DEF Step
  <2>2. call \in [Calls -> Call] /\ call[c].at = "unlock" /\ UNCHANGED <<canceled, trial, sub>>
    BY <1>9 DEF Unlock, IInv, Typed, TypeOK
  <2>3. \A b \in Calls : b # c => call[b].at \notin Critical
    BY <2>2 DEF IInv, LockExcludes
  <2>4. (HolderLocked /\ LockExcludes)'
    BY <2>1, <2>2, <2>3 DEF HolderLocked, LockExcludes
  <2>5. Remembers(k) /\ SawTrial(k)
    BY <1>1, <2>1, <2>2 DEF Remembers, SawTrial
  <2>6. ASSUME NEW b \in Calls PROVE (Remembers(call[b]) /\ SawTrial(call[b]))'
    <3>1. call'[b] = k \/ call'[b] = call[b]
      BY <2>1, <2>2
    <3>2. Remembers(call[b]) /\ SawTrial(call[b])
      BY DEF IInv
    <3>3. QED
      BY <2>2, <2>5, <3>1, <3>2 DEF Remembers, SawTrial
  <2>7. QED
    BY <2>4, <2>6 DEF CallsOK
<1>10. ASSUME NEW d \in Planned, ReadRow(c, d)
       PROVE  (HolderLocked /\ LockExcludes /\ CallsOK)'
  <2>1. UNCHANGED <<canceled, trial, sub, lock>> /\ call[c].at = "ensure"
    BY <1>10 DEF ReadRow
  <2>2. PICK k \in Call : /\ Step(c, k) /\ k.at \in {"ensure", "join"}
                          /\ k.release = call[c].release
    <3>1. PICK k : k = IF HasLiveRow(d) THEN [call[c] EXCEPT !.todo = @ \ {d}]
                       ELSE [call[c] EXCEPT !.at = "join", !.todo = @ \ {d}, !.cur = d]
      OBVIOUS
    <3>2. k \in Call /\ k.at \in {"ensure", "join"} /\ k.release = call[c].release
      BY <1>1, <2>1, <3>1 DEF Call
    <3>3. QED
      BY <1>10, <3>1, <3>2 DEF ReadRow
  <2>3. Remembers(k) /\ SawTrial(k)
    BY <1>1, <2>1, <2>2 DEF Remembers, SawTrial
  <2>4. QED
    BY <2>1, <2>2, <2>3, CallKept
<1>11. CASE ReadTenant(c)
  <2>1. UNCHANGED <<canceled, trial, sub, lock>> /\ call[c].at = "join"
    BY <1>11 DEF ReadTenant
  <2>2. PICK k \in Call : /\ Step(c, k) /\ k.at \in {"ensure", "item"}
                          /\ k.release = call[c].release
    <3>1. PICK k : k = IF trial = None \/ Ended THEN [call[c] EXCEPT !.at = "ensure"]
                       ELSE [call[c] EXCEPT !.at = "item", !.old = sub]
      OBVIOUS
    <3>2. k \in Call /\ k.at \in {"ensure", "item"} /\ k.release = call[c].release
      BY <1>1, <3>1 DEF Call, IInv, Typed, TypeOK
    <3>3. QED
      BY <1>11, <3>1, <3>2 DEF ReadTenant
  <2>3. Remembers(k) /\ SawTrial(k)
    BY <1>1, <2>1, <2>2 DEF Remembers, SawTrial
  <2>4. QED
    BY <2>1, <2>2, <2>3, CallKept
<1>12. CASE Throws(c)
  <2>1. UNCHANGED <<canceled, trial, sub, lock>>
    BY <1>12 DEF Throws
  <2>2. PICK k : k = [call[c] EXCEPT !.failed = TRUE,
                          !.at = IF call[c].at \in Critical THEN "unlock" ELSE "refused"]
    OBVIOUS
  <2>3. /\ k \in Call /\ k.failed = TRUE /\ k.old = call[c].old
        /\ k.returning = call[c].returning
        /\ k.at = IF call[c].at \in Critical THEN "unlock" ELSE "refused"
    BY <1>1, <2>2 DEF Call
  <2>4. Remembers(k) /\ SawTrial(k)
    BY <1>1, <2>3 DEF Remembers, SawTrial
  <2>5. Step(c, k)
    BY <1>12, <2>2 DEF Throws
  <2>6. QED
    BY <2>1, <2>3, <2>4, <2>5, CallKept
<1>13. CASE TryAgain(c)
  <2>1. Remembers(Idle) /\ SawTrial(Idle) /\ Idle.at \notin Critical
    BY DEF Remembers, SawTrial, Idle
  <2>2. QED
    BY <1>13, <2>1, IdleTyped, CallKept DEF TryAgain
<1>14. CASE UseSavedCard(c)
  <2>1. PICK k : k = [Idle EXCEPT !.at = "ensure", !.todo = Planned, !.release = TRUE]
    OBVIOUS
  <2>2. k \in Call /\ k.at = "ensure"
    BY <2>1 DEF Idle, Call
  <2>3. Remembers(k) /\ SawTrial(k)
    BY <1>14, <2>2 DEF UseSavedCard, Remembers, SawTrial
  <2>4. QED
    BY <1>14, <2>1, <2>2, <2>3, CallKept DEF UseSavedCard
<1>15. ASSUME NEW d \in Planned, SelectPlan(c, d)
       PROVE  (HolderLocked /\ LockExcludes /\ CallsOK)'
  <2>1. PICK k : k = [Idle EXCEPT !.at = "ensure", !.todo = {d}]
    OBVIOUS
  <2>2. k \in Call /\ k.at = "ensure" /\ k.release = FALSE
    BY <2>1 DEF Idle, Call
  <2>3. Remembers(k) /\ SawTrial(k)
    BY <2>2 DEF Remembers, SawTrial
  <2>4. QED
    BY <1>15, <2>1, <2>2, <2>3, CallKept DEF SelectPlan
<1>16. QED
  BY <1>3, <1>4, <1>5, <1>6, <1>7, <1>8, <1>9, <1>10, <1>11, <1>12, <1>13, <1>14, <1>15
  DEF Runs

-----------------------------------------------------------------------------

(* Rows are canceled by customer.subscription.deleted only, so after Stripe  *)
(* has ended their subscription.                                             *)
LEMMA DeadRowsStep ==
    ASSUME IInv, [Next]_vars
    PROVE  DeadRows' /\ canceled \subseteq canceled'
<1> USE DEF IInv, Typed, TypeOK
<1>1. ASSUME NEW s \in Sessions, SubscriptionDeleted(s)
      PROVE  DeadRows' /\ canceled \subseteq canceled'
  <2>1. ASSUME NEW d \in Planned, row'[d] # None, ~row'[d].live
        PROVE  row'[d].sub \in canceled'
    <3>1. row[d] \in Row \cup {None}
      OBVIOUS
    <3>2. CASE d \in RowsOf(s)
      BY <1>1, <2>1, <3>1, <3>2 DEF SubscriptionDeleted, RowsOf, Row
    <3>3. CASE d \notin RowsOf(s)
      BY <1>1, <2>1, <3>3 DEF SubscriptionDeleted, DeadRows
    <3>4. QED
      BY <3>2, <3>3
  <2>2. QED
    BY <1>1, <2>1 DEF SubscriptionDeleted, DeadRows
<1>2. ASSUME NEW c \in Calls, NEW d \in Planned, AdoptRow(c, d)
      PROVE  DeadRows' /\ canceled \subseteq canceled'
  BY <1>2 DEF AdoptRow, DeadRows
<1>3. ASSUME NEW c \in Calls, UpsertRow(c)
      PROVE  DeadRows' /\ canceled \subseteq canceled'
  BY <1>3 DEF UpsertRow, AttachedRow, DeadRows
<1>4. ASSUME UNCHANGED row, canceled \subseteq canceled' PROVE DeadRows'
  BY <1>4 DEF DeadRows
<1>5. QED
  BY <1>1, <1>2, <1>3, <1>4 DEF Next, Runs, Adopts, vars, Adopt, Claim, ClaimMissed, Missed,
     RetrieveSubscription, SaveTenant, Unlock, AfterEnsuring, ReadTenant, AddItem,
     ReleaseHolds, ReadRow, Throws, Dies, TryAgain, UseSavedCard, SelectPlan, LockGoesStale,
     StartCheckout, Complete, EndSubscription

(* What the calls know survives Stripe's steps and the lock's timeout, as    *)
(* long as no call is still inside when the lock goes stale.                 *)
LEMMA OthersStep ==
    ASSUME ~Slow, IInv,
           \/ \E s \in Sessions : StartCheckout(s) \/ Complete(s)
                                  \/ EndSubscription(s) \/ SubscriptionDeleted(s)
           \/ LockGoesStale
           \/ UNCHANGED vars
    PROVE  (HolderLocked /\ LockExcludes /\ CallsOK)'
<1>1. UNCHANGED <<trial, sub, call>> /\ canceled \subseteq canceled'
  BY DEF StartCheckout, Complete, EndSubscription, SubscriptionDeleted, LockGoesStale, vars
<1>2. HolderLocked'
  BY <1>1 DEF HolderLocked, IInv, StartCheckout, Complete, EndSubscription,
     SubscriptionDeleted, LockGoesStale, vars
<1>3. LockExcludes'
  BY <1>1 DEF LockExcludes, IInv
<1>4. CallsOK'
  <2>1. ASSUME NEW c \in Calls PROVE (Remembers(call[c]) /\ SawTrial(call[c]))'
    <3>1. Remembers(call[c]) /\ SawTrial(call[c])
      BY DEF IInv
    <3>2. QED
      BY <1>1, <3>1 DEF Remembers, SawTrial
  <2>2. QED
    BY <2>1 DEF CallsOK
<1>5. QED
  BY <1>2, <1>3, <1>4

(* A step changes the tenant's trial and subscription as OneTrial allows.    *)
LEMMA SavesOnce ==
    ASSUME IInv, NEW c \in Calls, SaveTenant(c)
    PROVE  \E s \in Sessions : Promise!Start(s) \/ Promise!Resubscribe(s)
<1>1. call[c] \in Call /\ call[c].at = "save" /\ Remembers(call[c])
  BY DEF SaveTenant, IInv, Typed, TypeOK
<1>2. call[c].s \in Sessions
  BY <1>1 DEF IInv, Typed, Targets, Adopting, Critical, Call
<1>3. CASE call[c].returning
  <2>1. trial # None /\ sub \in canceled
    BY <1>1, <1>3 DEF Remembers, Adopting, Critical, Unsaved
  <2>2. Promise!Resubscribe(call[c].s)
    BY <1>3, <2>1 DEF SaveTenant, Promise!Resubscribe
  <2>3. QED
    BY <1>2, <2>2
<1>4. CASE ~call[c].returning
  <2>1. trial = None
    BY <1>1, <1>4 DEF Remembers, Unsaved
  <2>2. Promise!Start(call[c].s)
    BY <1>4, <2>1 DEF SaveTenant, Promise!Start
  <2>3. QED
    BY <1>2, <2>2
<1>5. QED
  BY <1>3, <1>4

LEMMA StepRefines ==
    ASSUME IInv, [Next]_vars
    PROVE  [Promise!Next]_(Promise!vars)
<1>1. ASSUME NEW c \in Calls, SaveTenant(c) PROVE Promise!Next
  BY <1>1, SavesOnce DEF Promise!Next
<1>2. ASSUME NEW s \in Sessions, EndSubscription(s) PROVE Promise!Next
  BY <1>2 DEF EndSubscription, Promise!Next, Promise!End
<1>3. ASSUME UNCHANGED <<trial, sub, canceled>> PROVE UNCHANGED (Promise!vars)
  BY <1>3 DEF Promise!vars
<1>4. QED
  BY <1>1, <1>2, <1>3 DEF Next, Runs, Adopts, vars, Adopt, Claim, ClaimMissed, Missed,
     RetrieveSubscription, AdoptRow, Unlock, AfterEnsuring, ReadTenant, AddItem, UpsertRow,
     ReleaseHolds, ReadRow, Throws, Dies, TryAgain, UseSavedCard, SelectPlan, LockGoesStale,
     StartCheckout, Complete, SubscriptionDeleted

(* Mailboxes leave their hold only in the hands of a call that has seen the  *)
(* trial begun, and a trial that has begun stays so.                         *)
LEMMA HoldsStep ==
    ASSUME IInv, [Next]_vars
    PROVE  NothingBeforeTrial'
<1>1. trial # None => trial' # None
  <2>1. ASSUME NEW c \in Calls, SaveTenant(c) PROVE trial' # None \/ trial = None
    BY <2>1 DEF SaveTenant, IInv, Typed, Targets, Adopting, Critical
  <2>2. QED
    BY <2>1 DEF Next, Runs, Adopts, vars, Adopt, Claim, ClaimMissed, Missed,
     RetrieveSubscription, AdoptRow, Unlock, AfterEnsuring, ReadTenant, AddItem, UpsertRow,
     ReleaseHolds, ReadRow, Throws, Dies, TryAgain, UseSavedCard, SelectPlan, LockGoesStale,
     StartCheckout, Complete, SubscriptionDeleted, EndSubscription
<1>2. ASSUME NEW c \in Calls, ReleaseHolds(c) PROVE trial # None
  BY <1>2 DEF ReleaseHolds, IInv, SawTrial, AfterStart
<1>3. UNCHANGED held \/ \E c \in Calls : ReleaseHolds(c)
  BY DEF Next, Runs, Adopts, vars, Adopt, Claim, ClaimMissed, Missed,
     RetrieveSubscription, SaveTenant, AdoptRow, Unlock, AfterEnsuring, ReadTenant, AddItem,
     UpsertRow, ReadRow, Throws, Dies, TryAgain, UseSavedCard, SelectPlan, LockGoesStale,
     StartCheckout, Complete, SubscriptionDeleted, EndSubscription
<1>4. QED
  BY <1>1, <1>2, <1>3 DEF IInv, NothingBeforeTrial

LEMMA InitHolds == Init => IInv
<1> SUFFICES ASSUME Init PROVE IInv
  OBVIOUS
<1>1. \A c \in Calls : call[c] = Idle
  BY DEF Init
<1>2. \A c \in Calls : Remembers(call[c]) /\ SawTrial(call[c])
  BY <1>1 DEF Remembers, SawTrial, Adopting, Unsaved, AfterStart, Critical, Ensuring, Idle
<1>3. HolderLocked /\ LockExcludes
  BY <1>1 DEF HolderLocked, LockExcludes, Critical, Idle
<1>4. DeadRows /\ NothingBeforeTrial
  BY DEF Init, DeadRows, NothingBeforeTrial
<1>5. QED
  BY <1>2, <1>3, <1>4, InitTyped DEF IInv

(* When no call outlasts the lock, IInv is an inductive invariant.           *)
THEOREM Inductive == ASSUME ~Slow PROVE Spec => []IInv
<1>1. IInv /\ [Next]_vars => IInv'
  <2> SUFFICES ASSUME IInv, [Next]_vars PROVE IInv'
    OBVIOUS
  <2>1. Typed'
    BY TypedStep DEF IInv
  <2>2. DeadRows' /\ NothingBeforeTrial'
    BY DeadRowsStep, HoldsStep
  <2>3. (HolderLocked /\ LockExcludes /\ CallsOK)'
    BY CallsStep, OthersStep DEF Next
  <2>4. QED
    BY <2>1, <2>2, <2>3 DEF IInv, CallsOK
<1>2. QED
  BY InitHolds, <1>1, PTL DEF Spec

(* The activation lock excludes: of any number of return trips and webhook   *)
(* deliveries, one at a time is between claiming and releasing it.           *)
THEOREM OneAdoptionAtATime == ASSUME ~Slow PROVE Spec => []LockExcludes
<1>1. IInv => LockExcludes
  BY DEF IInv
<1>2. QED
  BY Inductive, <1>1, PTL

(* However checkouts, deliveries, failures and crashes interleave, a tenant  *)
(* gets one trial, with one checkout, and a new subscription only after the  *)
(* old one has ended: activation implements OneTrial.                        *)
THEOREM ImplementsOneTrial == ASSUME ~Slow PROVE Spec => OneTrialOnly
<1>1. Init => Promise!Init
  BY DEF Init, Promise!Init
<1>2. IInv /\ [Next]_vars => [Promise!Next]_(Promise!vars)
  BY StepRefines
<1>3. QED
  BY Inductive, <1>1, <1>2, PTL DEF Spec, OneTrialOnly, Promise!Spec

(* No mailbox on hold goes live before the trial has begun.                  *)
THEOREM HoldsWaitForTrial == ASSUME ~Slow PROVE Spec => []NothingBeforeTrial
<1>1. IInv => NothingBeforeTrial
  BY DEF IInv
<1>2. QED
  BY Inductive, <1>1, PTL

-----------------------------------------------------------------------------
(* The first trial, while no call is cut short: what it has and is billed.  *)

(* Attaching calls begin alone and adoptions do not join them.              *)
LEMMA AloneStep ==
    ASSUME AttachAlone, TypeOK, Targets, AttachesAlone, [Next]_vars
    PROVE  AttachesAlone'
<1>1. ASSUME NEW c \in Calls, NEW k, call' = [call EXCEPT ![c] = k],
             k.at \in Over \/ (k.s = call[c].s /\ call[c].at \notin Over)
             \/ (k.s # None /\ \A x \in Calls : call[x].s # None \/ call[x].at \in Over)
             \/ Quiet
      PROVE  AttachesAlone'
  <2>1. call'[c] = k /\ \A b \in Calls : b # c => call'[b] = call[b]
    BY <1>1 DEF TypeOK
  <2>2. QED
    BY <1>1, <2>1 DEF AttachesAlone, Quiet
<1>2. ASSUME NEW c \in Calls, NEW s \in Sessions, Adopt(c, s) PROVE AttachesAlone'
  <2>1. PICK k : k = [Idle EXCEPT !.at = "claim", !.s = s, !.returning = Ended, !.old = sub]
    OBVIOUS
  <2>2. k.s = s /\ s # None
    BY <2>1, NoneAssumption DEF Idle
  <2>3. QED
    BY <1>1, <1>2, <2>1, <2>2 DEF Adopt, Step
<1>3. ASSUME NEW c \in Calls,
             Runs(c) \/ Throws(c) \/ Dies(c)
      PROVE  AttachesAlone'
  <2>1. call[c] \in Call
    BY DEF TypeOK
  <2>2. call[c].at \notin Over
    BY <1>3 DEF Runs, Throws, Dies, Claim, ClaimMissed, Missed, RetrieveSubscription, SaveTenant,
       Unlock, AfterEnsuring, ReadTenant, AddItem, UpsertRow, ReleaseHolds, AdoptRow, ReadRow,
       At, Over, Critical, Ensuring
  <2>3. \E k : k.s = call[c].s /\ Step(c, k)
    <3>1. ASSUME NEW x PROVE [call[c] EXCEPT !.at = x].s = call[c].s
      BY <2>1 DEF Call
    <3>2. ASSUME NEW x, NEW y
          PROVE  /\ [call[c] EXCEPT !.at = x, !.failed = y].s = call[c].s
                 /\ [call[c] EXCEPT !.failed = x, !.at = y].s = call[c].s
                 /\ [call[c] EXCEPT !.at = x, !.todo = y].s = call[c].s
                 /\ [call[c] EXCEPT !.at = x, !.old = y].s = call[c].s
      BY <2>1 DEF Call
    <3>4. ASSUME NEW x, Goto(c, x) PROVE \E k : k.s = call[c].s /\ Step(c, k)
      BY <3>1, <3>4 DEF Goto
    <3>5. CASE Claim(c) \/ ClaimMissed(c) \/ Missed(c) \/ AfterEnsuring(c) \/ UpsertRow(c)
               \/ ReleaseHolds(c) \/ Dies(c)
      BY <3>4, <3>5 DEF Claim, ClaimMissed, Missed, AfterEnsuring, UpsertRow, ReleaseHolds,
         Dies
    <3>6. CASE AddItem(c)
      BY <3>4, <3>6 DEF AddItem
    <3>7. CASE RetrieveSubscription(c)
      BY <3>2, <3>4, <3>7 DEF RetrieveSubscription
    <3>8. CASE SaveTenant(c)
      BY <3>2, <3>8 DEF SaveTenant
    <3>9. CASE Throws(c)
      BY <3>2, <3>9 DEF Throws
    <3>10. CASE ReadTenant(c)
      BY <3>1, <3>2, <3>10 DEF ReadTenant
    <3>11. ASSUME NEW d \in Planned, AdoptRow(c, d) PROVE \E k : k.s = call[c].s /\ Step(c, k)
      BY <3>2, <3>11 DEF AdoptRow
    <3>12. CASE Unlock(c)
      <4>1. PICK k : k = [call[c] EXCEPT !.at = "ensure", !.todo = Planned,
                                         !.release = ~call[c].returning]
        OBVIOUS
      <4>2. k.s = call[c].s
        BY <2>1, <4>1 DEF Call
      <4>3. Goto(c, "refused") \/ Step(c, k)
        BY <3>12, <4>1 DEF Unlock
      <4>4. QED
        BY <3>4, <4>2, <4>3
    <3>13. ASSUME NEW d \in Planned, ReadRow(c, d) PROVE \E k : k.s = call[c].s /\ Step(c, k)
      <4>1. PICK k : k = [call[c] EXCEPT !.todo = @ \ {d}]
        OBVIOUS
      <4>2. PICK j : j = [call[c] EXCEPT !.at = "join", !.todo = @ \ {d}, !.cur = d]
        OBVIOUS
      <4>3. k.s = call[c].s /\ j.s = call[c].s
        BY <2>1, <4>1, <4>2 DEF Call
      <4>4. Step(c, k) \/ Step(c, j)
        BY <3>13, <4>1, <4>2 DEF ReadRow
      <4>5. QED
        BY <4>3, <4>4
    <3>14. QED
      BY <1>3, <3>5, <3>6, <3>7, <3>8, <3>9, <3>10, <3>11, <3>12, <3>13 DEF Runs
  <2>4. QED
    BY <1>1, <2>2, <2>3 DEF Step
<1>4. ASSUME NEW c \in Calls, TryAgain(c) PROVE AttachesAlone'
  <2>1. PICK k : k = Idle
    OBVIOUS
  <2>2. QED
    BY <1>1, <1>4, <2>1 DEF TryAgain, Step, Idle, Over
<1>5. ASSUME NEW c \in Calls, UseSavedCard(c) \/ \E d \in Planned : SelectPlan(c, d)
      PROVE  AttachesAlone'
  <2>1. Quiet /\ \E k : call' = [call EXCEPT ![c] = k]
    BY <1>5 DEF UseSavedCard, SelectPlan, Step
  <2>2. QED
    BY <1>1, <2>1
<1>6. CASE UNCHANGED call
  BY <1>6 DEF AttachesAlone
<1>7. QED
  BY <1>2, <1>3, <1>4, <1>5, <1>6 DEF Next, vars, Adopts, StartCheckout, Complete,
     EndSubscription, SubscriptionDeleted, LockGoesStale

(* A call that moves on without touching tenant, rows or bill keeps what is  *)
(* true of the first trial, if it keeps what it has still to do.             *)
LEMMA MoveFirst ==
    ASSUME TypeOK, FirstTrial, NEW c \in Calls, NEW k, Step(c, k),
           UNCHANGED <<items, trial, sub, row>>, held' \in {held, {}},
           call[c].at \notin {"rows", "upsert"},
           k.at \in Working => \A b \in Calls : call[b].at \in Working => b = c,
           FirstCall(k),
           trial # None => \A d \in Planned : row[d] = None /\ Ahead(call[c], d) => Ahead(k, d),
           held' = {} \/ (trial # None /\ Releases(call[c]) => Releases(k))
    PROVE  FirstTrial'
<1>1. call'[c] = k /\ \A b \in Calls : b # c => call'[b] = call[b]
  BY DEF Step, TypeOK
<1>2. OneWorker'
  BY <1>1 DEF FirstTrial, OneWorker
<1>3. FirstRows'
  BY DEF FirstTrial, FirstRows
<1>4. ASSUME NEW b \in Calls PROVE FirstCall(call[b])'
  <2>1. FirstCall(call[b])
    BY DEF FirstTrial
  <2>2. QED
    BY <1>1, <2>1 DEF FirstCall
<1>5. Counted'
  BY <1>1 DEF FirstTrial, Counted
<1>6. LinesFirst'
  BY <1>1 DEF FirstTrial, LinesFirst
<1>7. NoneForgotten'
  BY <1>1 DEF FirstTrial, NoneForgotten, Ahead
<1>8. HoldsGo'
  BY <1>1 DEF FirstTrial, HoldsGo, Releases
<1>9. QED
  BY <1>2, <1>3, <1>4, <1>5, <1>6, <1>7, <1>8 DEF FirstTrial

(* The adoption's own steps up to the rows, and what others do meanwhile.    *)
LEMMA AdoptingFirst ==
    ASSUME IInv, Unbroken, FirstTrial, NEW c \in Calls,
           \/ Adopts(c) \/ Claim(c) \/ ClaimMissed(c) \/ Missed(c) \/ RetrieveSubscription(c)
           \/ Unlock(c) \/ TryAgain(c) \/ ReleaseHolds(c)
    PROVE  FirstTrial'
<1> USE DEF Frame
<1>0. TypeOK /\ call[c] \in Call /\ FirstCall(call[c])
  BY DEF IInv, Typed, TypeOK, FirstTrial
<1>1. CASE Adopts(c)
  <2>1. PICK s \in Sessions : Adopt(c, s)
    BY <1>1 DEF Adopts
  <2>2. ~Ended
    BY EndedIsOver DEF IInv, FirstTrial, FirstRows, Unbroken
  <2>3. PICK k : k = [Idle EXCEPT !.at = "claim", !.s = s, !.returning = Ended, !.old = sub]
    OBVIOUS
  <2>4. k.at = "claim" /\ k.failed = FALSE /\ k.returning = Ended
    BY <2>3 DEF Idle
  <2>5. call[c].at = "idle" /\ Step(c, k) /\ UNCHANGED <<items, trial, sub, row, held>>
    BY <2>1, <2>3 DEF Adopt, At, tenantVars
  <2>6. FirstCall(k)
    BY <2>2, <2>4 DEF FirstCall, Working, Ensuring, Targeting
  <2>7. ~Releases(call[c]) /\ \A d \in Planned : ~Ahead(call[c], d)
    BY <2>5 DEF Releases, Ahead, Ensuring
  <2>8. QED
    BY <1>0, <2>4, <2>5, <2>6, <2>7, MoveFirst DEF Working, Ensuring
<1>2. CASE TryAgain(c)
  <2>1. PICK k : k = Idle
    OBVIOUS
  <2>2. k.at = "idle"
    BY <2>1 DEF Idle
  <2>3. /\ call[c].at \in {"refused", "done"} /\ Step(c, k)
        /\ UNCHANGED <<items, trial, sub, row, held>>
    BY <1>2, <2>1 DEF TryAgain, At, tenantVars
  <2>4. FirstCall(k)
    BY <2>2 DEF FirstCall, Adopting, Critical, Working, Ensuring, Targeting
  <2>5. ~Releases(call[c]) /\ \A d \in Planned : ~Ahead(call[c], d)
    BY <2>3 DEF Releases, Ahead, Ensuring
  <2>6. QED
    BY <1>0, <2>2, <2>3, <2>4, <2>5, MoveFirst DEF Working, Ensuring
<1>3. ASSUME NEW x \in {"stripe", "missed", "save", "refused", "done", "holds"},
             x \in {"stripe", "save"} => call[c].at \in {"claim", "stripe"},
             call[c].at \in {"claim", "missed", "stripe"},
             Goto(c, x), UNCHANGED <<items, trial, sub, row, held>>
      PROVE  FirstTrial'
  <2>1. PICK k : k = [call[c] EXCEPT !.at = x]
    OBVIOUS
  <2>2. k.at = x /\ k.returning = call[c].returning /\ k.failed = call[c].failed
    BY <1>0, <2>1 DEF Call
  <2>3. FirstCall(k)
    BY <1>0, <1>3, <2>2 DEF FirstCall, Adopting, Critical, Working, Ensuring, Targeting
  <2>4. ~Releases(call[c]) /\ \A d \in Planned : ~Ahead(call[c], d)
    BY <1>3 DEF Releases, Ahead, Ensuring
  <2>5. QED
    BY <1>0, <1>3, <2>1, <2>2, <2>3, <2>4, MoveFirst DEF Goto, Working, Ensuring
<1>4. CASE Claim(c) \/ ClaimMissed(c)
  BY <1>3, <1>4 DEF Claim, ClaimMissed, At, tenantVars
<1>5. CASE Missed(c)
  BY <1>3, <1>5 DEF Missed, At, tenantVars
<1>6. CASE RetrieveSubscription(c)
  <2>1. ~call[c].returning
    BY <1>0, <1>6 DEF RetrieveSubscription, At, FirstCall, Adopting, Critical
  <2>2. QED
    BY <1>3, <1>6, <2>1 DEF RetrieveSubscription, At, tenantVars
<1>7. CASE Unlock(c)
  <2>1. call[c].at = "unlock" /\ ~call[c].failed /\ ~call[c].returning
    BY <1>0, <1>7 DEF Unlock, At, FirstCall, Adopting, Critical
  <2>2. PICK k : k = [call[c] EXCEPT !.at = "ensure", !.todo = Planned,
                                     !.release = ~call[c].returning]
    OBVIOUS
  <2>3. k.at = "ensure" /\ k.todo = Planned /\ k.release = TRUE /\ k.s = call[c].s
    BY <1>0, <2>1, <2>2 DEF Call
  <2>4. Step(c, k) /\ UNCHANGED <<items, trial, sub, row, held>>
    BY <1>7, <2>1, <2>2 DEF Unlock
  <2>5. FirstCall(k)
    BY <1>0, <2>1, <2>3 DEF FirstCall, Adopting, Critical, Working, Ensuring, Targeting
  <2>6. (Releases(call[c]) => Releases(k))
        /\ \A d \in Planned : Ahead(call[c], d) => Ahead(k, d)
    BY <2>3 DEF Releases, Ahead, Ensuring
  <2>7. \A b \in Calls : call[b].at \in Working => b = c
    BY <2>1 DEF FirstTrial, OneWorker, Working
  <2>8. QED
    BY <1>0, <2>1, <2>4, <2>5, <2>6, <2>7, MoveFirst
<1>8. CASE ReleaseHolds(c)
  <2>1. PICK k : k = [call[c] EXCEPT !.at = "done"]
    OBVIOUS
  <2>2. k.at = "done"
    BY <1>0, <2>1 DEF Call
  <2>3. /\ call[c].at = "holds" /\ Step(c, k) /\ held' = {}
        /\ UNCHANGED <<items, trial, sub, row>>
    BY <1>8, <2>1 DEF ReleaseHolds, Goto, At, tenantVars
  <2>4. FirstCall(k)
    BY <2>2 DEF FirstCall, Adopting, Critical, Working, Ensuring, Targeting
  <2>5. \A d \in Planned : ~Ahead(call[c], d)
    BY <2>3 DEF Ahead, Ensuring
  <2>6. QED
    BY <1>0, <2>2, <2>3, <2>4, <2>5, MoveFirst DEF Working, Ensuring
<1>9. QED
  BY <1>1, <1>2, <1>4, <1>5, <1>6, <1>7, <1>8

(* The steps that look for domains without a row, before one is billed.      *)
LEMMA EnsuringFirst ==
    ASSUME AttachAlone, IInv, Unbroken, FirstTrial, NEW c \in Calls,
           \/ AfterEnsuring(c) \/ ReadTenant(c) \/ UseSavedCard(c)
           \/ \E d \in Planned : ReadRow(c, d) \/ SelectPlan(c, d)
    PROVE  FirstTrial'
<1> USE DEF Frame
<1>0. TypeOK /\ call[c] \in Call /\ FirstCall(call[c])
  BY DEF IInv, Typed, TypeOK, FirstTrial
<1>1. UNCHANGED <<items, trial, sub, row, held>>
  BY DEF AfterEnsuring, ReadTenant, UseSavedCard, ReadRow, SelectPlan, tenantVars
<1>2. ~Ended
  BY EndedIsOver DEF IInv, FirstTrial, FirstRows, Unbroken
<1>3. call[c].at \in Working => \A b \in Calls : call[b].at \in Working => b = c
  BY DEF FirstTrial, OneWorker
<1>4. CASE AfterEnsuring(c)
  <2>1. call[c].at = "ensure" /\ call[c].todo = {}
    BY <1>4 DEF AfterEnsuring, At
  <2>2. PICK k : k = [call[c] EXCEPT !.at = IF call[c].release THEN "holds" ELSE "done"]
    OBVIOUS
  <2>3. k.at = (IF call[c].release THEN "holds" ELSE "done") /\ k.s = call[c].s
    BY <1>0, <2>2 DEF Call
  <2>4. Step(c, k)
    BY <1>4, <2>2 DEF AfterEnsuring, Goto
  <2>5. FirstCall(k)
    BY <2>3 DEF FirstCall, Adopting, Critical, Working, Ensuring, Targeting
  <2>6. (Releases(call[c]) => Releases(k)) /\ \A d \in Planned : ~Ahead(call[c], d)
    BY <2>1, <2>3 DEF Releases, Ahead, Ensuring
  <2>7. QED
    BY <1>0, <1>1, <2>1, <2>3, <2>4, <2>5, <2>6, MoveFirst DEF Working, Ensuring
<1>5. CASE ReadTenant(c)
  <2>1. call[c].at = "join" /\ call[c].cur \in Planned /\ row[call[c].cur] = None
    BY <1>0, <1>5 DEF ReadTenant, At, FirstCall, Ensuring
  <2>2. CASE trial = None
    <3>1. PICK k : k = [call[c] EXCEPT !.at = "ensure"]
      OBVIOUS
    <3>2. k.at = "ensure" /\ k.s = call[c].s
      BY <1>0, <3>1 DEF Call
    <3>3. Step(c, k)
      BY <1>5, <2>2, <3>1 DEF ReadTenant
    <3>4. FirstCall(k)
      BY <1>0, <2>1, <3>2 DEF FirstCall, Adopting, Critical, Working, Ensuring, Targeting
    <3>5. QED
      BY <1>0, <1>1, <1>3, <2>1, <2>2, <3>3, <3>4, MoveFirst DEF Working, Ensuring
  <2>3. CASE trial # None
    <3>1. PICK k : k = [call[c] EXCEPT !.at = "item", !.old = sub]
      OBVIOUS
    <3>2. /\ k.at = "item" /\ k.s = call[c].s /\ k.old = sub /\ k.cur = call[c].cur
          /\ k.todo = call[c].todo /\ k.release = call[c].release
      BY <1>0, <3>1 DEF Call
    <3>3. Step(c, k)
      BY <1>2, <1>5, <2>3, <3>1 DEF ReadTenant
    <3>4. FirstCall(k)
      BY <1>0, <2>1, <2>3, <3>2
      DEF FirstCall, Adopting, Critical, Working, Ensuring, Targeting, FirstTrial, FirstRows
    <3>5. (Releases(call[c]) => Releases(k)) /\ \A d \in Planned : Ahead(call[c], d) => Ahead(k, d)
      BY <2>1, <3>2 DEF Releases, Ahead, Ensuring
    <3>6. QED
      BY <1>0, <1>1, <1>3, <2>1, <3>3, <3>4, <3>5, MoveFirst DEF Working, Ensuring
  <2>4. QED
    BY <2>2, <2>3
<1>6. CASE UseSavedCard(c) \/ \E d \in Planned : SelectPlan(c, d)
  <2>1. PICK k : Step(c, k) /\ k.at = "ensure" /\ k.s = None
    <3>1. CASE UseSavedCard(c)
      <4>1. PICK k : k = [Idle EXCEPT !.at = "ensure", !.todo = Planned, !.release = TRUE]
        OBVIOUS
      <4>2. k.at = "ensure" /\ k.s = None
        BY <4>1 DEF Idle
      <4>3. QED
        BY <3>1, <4>1, <4>2 DEF UseSavedCard
    <3>2. ASSUME NEW d \in Planned, SelectPlan(c, d)
          PROVE  \E k : Step(c, k) /\ k.at = "ensure" /\ k.s = None
      <4>1. PICK k : k = [Idle EXCEPT !.at = "ensure", !.todo = {d}]
        OBVIOUS
      <4>2. k.at = "ensure" /\ k.s = None
        BY <4>1 DEF Idle
      <4>3. QED
        BY <3>2, <4>1, <4>2 DEF SelectPlan
    <3>3. QED
      BY <1>6, <3>1, <3>2
  <2>2. Quiet /\ call[c].at = "idle"
    BY <1>6 DEF UseSavedCard, SelectPlan, At
  <2>3. FirstCall(k)
    BY <2>1 DEF FirstCall, Adopting, Critical, Working, Ensuring, Targeting
  <2>4. \A b \in Calls : call[b].at \notin Working
    BY <2>2 DEF Quiet, Over, Working, Ensuring
  <2>5. ~Releases(call[c]) /\ \A d \in Planned : ~Ahead(call[c], d)
    BY <2>2 DEF Releases, Ahead, Ensuring
  <2>6. QED
    BY <1>0, <1>1, <2>1, <2>2, <2>3, <2>4, <2>5, MoveFirst
<1>7. ASSUME NEW d \in Planned, ReadRow(c, d) PROVE FirstTrial'
  <2>1. call[c].at = "ensure" /\ d \in call[c].todo
    BY <1>7 DEF ReadRow, At
  <2>2. CASE HasLiveRow(d)
    <3>1. PICK k : k = [call[c] EXCEPT !.todo = @ \ {d}]
      OBVIOUS
    <3>2. /\ k.at = "ensure" /\ k.s = call[c].s /\ k.todo = call[c].todo \ {d}
          /\ k.release = call[c].release
      BY <1>0, <2>1, <3>1 DEF Call
    <3>3. Step(c, k)
      BY <1>7, <2>2, <3>1 DEF ReadRow
    <3>4. FirstCall(k)
      BY <1>0, <2>1, <3>2 DEF FirstCall, Adopting, Critical, Working, Ensuring, Targeting
    <3>5. Releases(call[c]) => Releases(k)
      BY <2>1, <3>2 DEF Releases, Ensuring
    <3>6. \A e \in Planned : row[e] = None /\ Ahead(call[c], e) => Ahead(k, e)
      BY <2>1, <2>2, <3>2 DEF Ahead, Ensuring, HasLiveRow
    <3>7. QED
      BY <1>0, <1>1, <1>3, <2>1, <3>3, <3>4, <3>5, <3>6, MoveFirst DEF Working, Ensuring
  <2>3. CASE ~HasLiveRow(d)
    <3>1. PICK k : k = [call[c] EXCEPT !.at = "join", !.todo = @ \ {d}, !.cur = d]
      OBVIOUS
    <3>2. /\ k.at = "join" /\ k.s = call[c].s /\ k.todo = call[c].todo \ {d} /\ k.cur = d
          /\ k.release = call[c].release
      BY <1>0, <2>1, <3>1 DEF Call
    <3>3. Step(c, k)
      BY <1>7, <2>3, <3>1 DEF ReadRow
    <3>4. row[d] = None
      BY <2>3 DEF HasLiveRow, FirstTrial, FirstRows
    <3>5. FirstCall(k)
      BY <1>0, <2>1, <3>2, <3>4 DEF FirstCall, Adopting, Critical, Working, Ensuring, Targeting
    <3>6. (Releases(call[c]) => Releases(k)) /\ \A e \in Planned : Ahead(call[c], e) => Ahead(k, e)
      BY <2>1, <3>2 DEF Releases, Ahead, Ensuring
    <3>7. QED
      BY <1>0, <1>1, <1>3, <2>1, <3>3, <3>5, <3>6, MoveFirst DEF Working, Ensuring
  <2>4. QED
    BY <2>2, <2>3
<1>8. QED
  BY <1>4, <1>5, <1>6, <1>7

(* The adoption saves the tenant, then writes a row for each of its lines.   *)
LEMMA SavingFirst ==
    ASSUME IInv, AttachesAlone, Unbroken, FirstTrial, NEW c \in Calls, SaveTenant(c)
    PROVE  FirstTrial'
<1>0. /\ TypeOK /\ call[c] \in Call /\ FirstCall(call[c]) /\ Remembers(call[c])
      /\ call[c].at = "save"
  BY DEF IInv, Typed, TypeOK, FirstTrial, SaveTenant, At
<1>1. /\ ~call[c].returning /\ ~call[c].failed /\ trial = None
      /\ call[c].s \in Sessions /\ call[c].s # None
  BY <1>0, NoneAssumption
  DEF FirstCall, Remembers, Adopting, Critical, Unsaved, IInv, Typed, Targets, Call
<1>2. /\ sub' = call[c].s /\ trial' = call[c].s /\ UNCHANGED <<items, row, held>>
  BY <1>1 DEF SaveTenant
<1>3. PICK k : k = [call[c] EXCEPT !.at = IF Lines = {} THEN "unlock" ELSE "rows",
                                   !.todo = Lines]
  OBVIOUS
<1>4. /\ k.at = (IF Lines = {} THEN "unlock" ELSE "rows") /\ k.todo = Lines
      /\ k.s = call[c].s /\ k.returning = call[c].returning /\ k.failed = call[c].failed
  BY <1>0, <1>3 DEF Call
<1>5. call'[c] = k /\ \A b \in Calls : b # c => call'[b] = call[b]
  BY <1>0, <1>3 DEF SaveTenant, Step, TypeOK
<1>6. \A b \in Calls : call[b].at \notin Working
  <2> SUFFICES ASSUME NEW b \in Calls, call[b].at \in Working PROVE FALSE
    OBVIOUS
  <2>1. call[b].s = None
    BY <1>1 DEF FirstTrial, FirstCall
  <2>2. call[b].at \notin Over /\ call[c].at \notin Over
    BY <1>0 DEF Working, Ensuring, Over
  <2>3. b = c
    BY <2>1, <2>2 DEF AttachesAlone
  <2>4. QED
    BY <1>1, <2>1, <2>3
<1>7. OneWorker'
  BY <1>5, <1>6 DEF OneWorker
<1>8. FirstRows'
  BY <1>1, <1>2 DEF FirstTrial, FirstRows
<1>9. ASSUME NEW b \in Calls PROVE FirstCall(call[b])'
  <2>1. FirstCall(call[b]) /\ call[b].at \notin Working
    BY <1>6 DEF FirstTrial
  <2>2. CASE b = c
    BY <1>1, <1>2, <1>4, <1>5, <2>2 DEF FirstCall, Adopting, Working, Ensuring, Targeting
  <2>3. CASE b # c
    BY <1>5, <2>1, <2>3 DEF FirstCall, Adopting, Working, Ensuring, Targeting
  <2>4. QED
    BY <2>2, <2>3
<1>10. Counted'
  <2> SUFFICES ASSUME NEW s \in Sessions, NEW d \in Planned
               PROVE  items'[s][d] <= 1 /\ (items'[s][d] = 1 => d \in Lines)
    BY DEF Counted
  <2>1. row[d] = None /\ \A b \in Calls : call[b].at # "upsert"
    BY <1>1, <1>6 DEF FirstTrial, FirstRows, Working, Ensuring
  <2>2. QED
    BY <1>1, <1>2, <2>1 DEF FirstTrial, Counted
<1>11. LinesFirst'
  BY <1>4, <1>5 DEF LinesFirst
<1>12. NoneForgotten'
  BY <1>2, <1>4, <1>5 DEF NoneForgotten, Ahead
<1>13. HoldsGo'
  BY <1>2, <1>4, <1>5 DEF HoldsGo, Releases
<1>14. QED
  BY <1>7, <1>8, <1>9, <1>10, <1>11, <1>12, <1>13 DEF FirstTrial

(* A row is written, by the adoption or by a call that attaches a domain.    *)
LEMMA RowFirst ==
    ASSUME TypeOK, FirstTrial, NEW c \in Calls, NEW d \in Planned, NEW k, Step(c, k),
           trial # None, UNCHANGED <<items, trial, sub, held>>,
           row' = [row EXCEPT ![d] = [sub |-> trial, live |-> TRUE]],
           call[c].at \in {"rows", "upsert"}, k.s = call[c].s,
           k.at \in {"rows", "unlock", "ensure"},
           k.at \in Adopting => ~k.returning /\ ~k.failed,
           call[c].at = "upsert" => k.at = "ensure" /\ call[c].cur = d,
           call[c].at = "rows" => \A e \in call[c].todo \ {d} : k.at = "rows" /\ e \in k.todo,
           call[c].at = "rows" => k.at # "ensure",
           call[c].at = "upsert" => k.todo = call[c].todo /\ k.release = call[c].release
    PROVE  FirstTrial'
<1>1. call'[c] = k /\ \A b \in Calls : b # c => call'[b] = call[b]
  BY DEF Step, TypeOK
<1>2. /\ row'[d] # None /\ row'[d] = [sub |-> trial, live |-> TRUE]
      /\ \A e \in Planned : e # d => row'[e] = row[e]
  <2>1. row'[d] = [sub |-> trial, live |-> TRUE] /\ \A e \in Planned : e # d => row'[e] = row[e]
    BY DEF TypeOK
  <2>2. [sub |-> trial, live |-> TRUE] # None
    <3>1. trial \in Sessions
      BY DEF TypeOK
    <3>2. [sub |-> trial, live |-> TRUE] \in Row
      BY <3>1 DEF Row
    <3>3. QED
      BY <3>2, RowAssumption
  <2>3. QED
    BY <2>1, <2>2
<1>3. call[c].at \in Working /\ \A b \in Calls : call[b].at \in Working => b = c
  BY DEF FirstTrial, OneWorker, Working, Ensuring
<1>4. OneWorker'
  BY <1>1, <1>3 DEF OneWorker
<1>5. FirstRows'
  BY <1>2 DEF FirstTrial, FirstRows
<1>6. ASSUME NEW b \in Calls PROVE FirstCall(call[b])'
  <2>1. FirstCall(call[b])
    BY DEF FirstTrial
  <2>2. CASE b = c
    BY <1>1, <1>3, <2>1, <2>2 DEF FirstCall, Working, Ensuring, Targeting
  <2>3. CASE b # c
    BY <1>1, <1>3, <2>1, <2>3 DEF FirstCall, Working, Ensuring, Targeting
  <2>4. QED
    BY <2>2, <2>3
<1>7. Counted'
  <2> SUFFICES ASSUME NEW s \in Sessions, NEW e \in Planned, trial = s
               PROVE  /\ items[s][e] <= 1
                      /\ items[s][e] = 1 => e \in Lines \/ row'[e] # None
    BY DEF Counted
  <2>1. items[s][e] = 1 => e \in Lines \/ row[e] # None \/ e = d
    BY <1>3 DEF FirstTrial, Counted, Working, Ensuring
  <2>2. QED
    BY <1>2, <2>1 DEF FirstTrial, Counted
<1>8. LinesFirst'
  <2> SUFFICES ASSUME NEW e \in Lines, e # d, row[e] = None
               PROVE  \E b \in Calls : call'[b].at = "rows" /\ e \in call'[b].todo
    BY <1>2, DomainsAssumption DEF LinesFirst
  <2>1. PICK b \in Calls : call[b].at = "rows" /\ e \in call[b].todo
    BY DEF FirstTrial, LinesFirst
  <2>2. b = c
    BY <1>3, <2>1 DEF Working
  <2>3. QED
    BY <1>1, <2>1, <2>2
<1>9. NoneForgotten'
  <2> SUFFICES ASSUME NEW e \in Planned, e # d, row[e] = None
               PROVE  \E b \in Calls : Ahead(call[b], e)'
    BY <1>2 DEF NoneForgotten
  <2>1. PICK b \in Calls : Ahead(call[b], e)
    BY DEF FirstTrial, NoneForgotten
  <2>2. b = c
    BY <1>3, <2>1 DEF Ahead, Working
  <2>3. QED
    BY <1>1, <2>1, <2>2 DEF Ahead, Ensuring
<1>10. HoldsGo'
  <2> SUFFICES ASSUME held # {} PROVE \E b \in Calls : Releases(call[b])'
    BY DEF HoldsGo
  <2>1. PICK b \in Calls : Releases(call[b])
    BY DEF FirstTrial, HoldsGo
  <2>2. QED
    BY <1>1, <2>1 DEF Releases, Ensuring
<1>11. QED
  BY <1>4, <1>5, <1>6, <1>7, <1>8, <1>9, <1>10 DEF FirstTrial

(* The bill grows by one item, for a domain that has neither row nor item.   *)
LEMMA AddFirst ==
    ASSUME IInv, Unbroken, FirstTrial, NEW c \in Calls, AddItem(c)
    PROVE  FirstTrial'
<1>0. TypeOK /\ call[c] \in Call /\ FirstCall(call[c]) /\ call[c].at = "item"
  BY DEF IInv, Typed, TypeOK, FirstTrial, AddItem, At
<1>1. /\ trial # None /\ call[c].old = trial /\ call[c].cur \in Planned
      /\ row[call[c].cur] = None /\ trial \in Sessions
  BY <1>0 DEF FirstCall, Targeting, Ensuring, TypeOK
<1>2. PICK d : d = call[c].cur
  OBVIOUS
<1>3. PICK k : k = [call[c] EXCEPT !.at = "upsert"]
  OBVIOUS
<1>4. /\ k.at = "upsert" /\ k.s = call[c].s /\ k.cur = d /\ k.old = call[c].old
      /\ k.todo = call[c].todo /\ k.release = call[c].release
  BY <1>0, <1>2, <1>3 DEF Call
<1>5. /\ items' = [items EXCEPT ![trial][d] = @ + 1] /\ Step(c, k)
      /\ UNCHANGED <<trial, sub, row, held>>
  BY <1>1, <1>2, <1>3 DEF AddItem, Unbroken, Goto, tenantVars
<1>6. call'[c] = k /\ \A b \in Calls : b # c => call'[b] = call[b]
  BY <1>0, <1>5 DEF Step, TypeOK
<1>7. call[c].at \in Working /\ \A b \in Calls : call[b].at \in Working => b = c
  BY <1>0 DEF FirstTrial, OneWorker, Working, Ensuring
<1>8. items[trial][d] = 0
  <2>1. d \notin Lines
    BY <1>0, <1>1, <1>2, <1>7 DEF FirstTrial, LinesFirst, Working
  <2>2. items[trial][d] <= 1 /\ items[trial][d] # 1
    BY <1>0, <1>1, <1>2, <1>7, <2>1 DEF FirstTrial, Counted, Working, Ensuring
  <2>3. items[trial][d] \in Nat
    BY <1>0, <1>1, <1>2 DEF TypeOK
  <2>4. QED
    BY <2>2, <2>3
<1>9. items'[trial][d] = 1 /\ \A e \in Planned : e # d => items'[trial][e] = items[trial][e]
  BY <1>0, <1>1, <1>2, <1>5, <1>8 DEF TypeOK
<1>10. OneWorker'
  BY <1>6, <1>7 DEF OneWorker
<1>11. FirstRows' /\ LinesFirst'
  BY <1>0, <1>5, <1>6 DEF FirstTrial, FirstRows, LinesFirst
<1>12. ASSUME NEW b \in Calls PROVE FirstCall(call[b])'
  <2>1. FirstCall(call[b])
    BY DEF FirstTrial
  <2>2. CASE b = c
    BY <1>0, <1>1, <1>2, <1>4, <1>5, <1>6, <2>2
    DEF FirstCall, Adopting, Critical, Working, Ensuring, Targeting
  <2>3. CASE b # c
    BY <1>5, <1>6, <2>1, <2>3 DEF FirstCall
  <2>4. QED
    BY <2>2, <2>3
<1>13. Counted'
  <2> SUFFICES ASSUME NEW e \in Planned
               PROVE  /\ items'[trial][e] <= 1
                      /\ items'[trial][e] = 1 =>
                            \/ e \in Lines \/ row[e] # None
                            \/ \E b \in Calls : call'[b].at = "upsert" /\ call'[b].cur = e
    BY <1>1, <1>5 DEF Counted
  <2>1. CASE e = d
    BY <1>4, <1>6, <1>9, <2>1
  <2>2. CASE e # d
    <3>1. items[trial][e] <= 1 /\ (items[trial][e] = 1 => e \in Lines \/ row[e] # None)
      BY <1>0, <1>1, <1>7 DEF FirstTrial, Counted, Working, Ensuring
    <3>2. QED
      BY <1>9, <2>2, <3>1
  <2>3. QED
    BY <2>1, <2>2
<1>14. NoneForgotten'
  <2> SUFFICES ASSUME NEW e \in Planned, row[e] = None
               PROVE  \E b \in Calls : Ahead(call[b], e)'
    BY <1>5 DEF NoneForgotten
  <2>1. PICK b \in Calls : Ahead(call[b], e)
    BY <1>1 DEF FirstTrial, NoneForgotten
  <2>2. b = c
    BY <1>7, <2>1 DEF Ahead, Working
  <2>3. QED
    BY <1>0, <1>2, <1>4, <1>5, <1>6, <2>1, <2>2 DEF Ahead, Ensuring
<1>15. HoldsGo'
  <2> SUFFICES ASSUME held # {} PROVE \E b \in Calls : Releases(call[b])'
    BY <1>5 DEF HoldsGo
  <2>1. PICK b \in Calls : Releases(call[b])
    BY <1>1 DEF FirstTrial, HoldsGo
  <2>2. QED
    BY <1>0, <1>4, <1>5, <1>6, <2>1 DEF Releases, Ensuring
<1>16. QED
  BY <1>10, <1>11, <1>12, <1>13, <1>14, <1>15 DEF FirstTrial

(* Stripe and time: a checkout is billed once per line, and only the end of  *)
(* the first trial's own subscription touches its rows.                      *)
LEMMA StripeFirst ==
    ASSUME IInv, Unbroken, FirstTrial,
           \/ LockGoesStale
           \/ \E s \in Sessions : \/ StartCheckout(s) \/ Complete(s)
                                 \/ EndSubscription(s) \/ SubscriptionDeleted(s)
    PROVE  FirstTrial'
<1>0. TypeOK
  BY DEF IInv, Typed
<1>1. ASSUME UNCHANGED <<items, trial, sub, row, held, call>> PROVE FirstTrial'
  <2>1. \A c \in Calls : FirstCall(call[c])'
    BY <1>1 DEF FirstTrial, FirstCall
  <2>2. OneWorker' /\ FirstRows' /\ Counted' /\ LinesFirst'
    BY <1>1 DEF FirstTrial, OneWorker, FirstRows, Counted, LinesFirst
  <2>3. NoneForgotten' /\ HoldsGo'
    BY <1>1 DEF FirstTrial, NoneForgotten, Ahead, HoldsGo, Releases
  <2>4. QED
    BY <2>1, <2>2, <2>3 DEF FirstTrial
<1>2. CASE LockGoesStale \/ \E s \in Sessions : StartCheckout(s) \/ EndSubscription(s)
  BY <1>1, <1>2 DEF LockGoesStale, StartCheckout, EndSubscription, tenantVars
<1>3. ASSUME NEW s \in Sessions, SubscriptionDeleted(s) PROVE FirstTrial'
  <2>1. s # trial
    BY <1>3 DEF SubscriptionDeleted, Unbroken
  <2>2. RowsOf(s) = {}
    BY <2>1 DEF RowsOf, FirstTrial, FirstRows
  <2>3. FALSE
    BY <1>3, <2>2 DEF SubscriptionDeleted
  <2>4. QED
    BY <2>3
<1>4. ASSUME NEW s \in Sessions, Complete(s) PROVE FirstTrial'
  <2>1. UNCHANGED <<trial, sub, row, held, call>>
    BY <1>4 DEF Complete, tenantVars
  <2>2. \A x \in Sessions, d \in Planned :
           items'[x][d] = IF x = s THEN IF d \in Lines THEN 1 ELSE 0 ELSE items[x][d]
    BY <1>0, <1>4 DEF Complete, TypeOK
  <2>3. Counted'
    BY <2>1, <2>2 DEF FirstTrial, Counted
  <2>4. \A c \in Calls : FirstCall(call[c])'
    BY <2>1 DEF FirstTrial, FirstCall
  <2>5. OneWorker' /\ FirstRows' /\ LinesFirst'
    BY <2>1 DEF FirstTrial, OneWorker, FirstRows, LinesFirst
  <2>6. NoneForgotten' /\ HoldsGo'
    BY <2>1 DEF FirstTrial, NoneForgotten, Ahead, HoldsGo, Releases
  <2>7. QED
    BY <2>3, <2>4, <2>5, <2>6 DEF FirstTrial
<1>5. QED
  BY <1>2, <1>3, <1>4

(* While no call is cut short and the first trial runs, every step keeps     *)
(* what is said of it; and neither condition comes back once it is lost.     *)
LEMMA FirstStep ==
    ASSUME AttachAlone, IInv, FirstInv, [Next]_vars, Unbroken'
    PROVE  FirstTrial'
<1>0. TypeOK
  BY DEF IInv, Typed
<1>1. ASSUME NEW c \in Calls, Throws(c) \/ Dies(c) PROVE FALSE
  BY <1>0, <1>1 DEF Throws, Dies, Unbroken, TypeOK
<1>2. Unbroken
  <2>1. cut = 0
    BY <1>1 DEF Next, Runs, Adopts, vars, Adopt, Claim, ClaimMissed, Missed,
     RetrieveSubscription, SaveTenant, AdoptRow, Unlock, AfterEnsuring, ReadTenant, AddItem,
     UpsertRow, ReleaseHolds, ReadRow, TryAgain, UseSavedCard, SelectPlan, LockGoesStale,
     StartCheckout, Complete, SubscriptionDeleted, EndSubscription, Frame, Unbroken
  <2>2. canceled \subseteq canceled'
    BY <1>1 DEF Next, Runs, Adopts, vars, Adopt, Claim, ClaimMissed, Missed,
     RetrieveSubscription, SaveTenant, AdoptRow, Unlock, AfterEnsuring, ReadTenant, AddItem,
     UpsertRow, ReleaseHolds, ReadRow, TryAgain, UseSavedCard, SelectPlan, LockGoesStale,
     StartCheckout, Complete, SubscriptionDeleted, EndSubscription, Frame, stripeVars
  <2>3. trial' = trial \/ \E c \in Calls : SaveTenant(c)
    BY <1>1 DEF Next, Runs, Adopts, vars, Adopt, Claim, ClaimMissed, Missed,
     RetrieveSubscription, AdoptRow, Unlock, AfterEnsuring, ReadTenant, AddItem,
     UpsertRow, ReleaseHolds, ReadRow, TryAgain, UseSavedCard, SelectPlan, LockGoesStale,
     StartCheckout, Complete, SubscriptionDeleted, EndSubscription, tenantVars
  <2>4. ASSUME NEW c \in Calls, SaveTenant(c) PROVE trial' = trial \/ trial = None
    BY <2>4 DEF SaveTenant, IInv, Remembers, At, Unsaved
  <2>5. None \notin canceled
    BY <1>0, NoneAssumption DEF TypeOK
  <2>6. QED
    BY <2>1, <2>2, <2>3, <2>4, <2>5 DEF Unbroken
<1>3. FirstTrial /\ AttachesAlone
  BY <1>2 DEF FirstInv
<1>4. ASSUME NEW c \in Calls, NEW d \in Planned, AdoptRow(c, d) PROVE FirstTrial'
  <2>1. call[c] \in Call /\ call[c].at = "rows" /\ FirstCall(call[c]) /\ d \in call[c].todo
    BY <1>0, <1>3, <1>4 DEF TypeOK, FirstTrial, AdoptRow, At
  <2>2. call[c].s = trial /\ trial # None /\ ~call[c].returning /\ ~call[c].failed
    BY <2>1 DEF FirstCall, Working, Adopting, Critical, IInv, Typed, Targets
  <2>3. PICK k : k = [call[c] EXCEPT !.at = IF call[c].todo \ {d} = {} THEN "unlock" ELSE "rows",
                                     !.todo = call[c].todo \ {d}]
    OBVIOUS
  <2>4. /\ k.at = (IF call[c].todo \ {d} = {} THEN "unlock" ELSE "rows")
        /\ k.todo = call[c].todo \ {d} /\ k.s = call[c].s
        /\ k.returning = call[c].returning /\ k.failed = call[c].failed
    BY <2>1, <2>3 DEF Call
  <2>5. /\ Step(c, k) /\ row' = [row EXCEPT ![d] = [sub |-> trial, live |-> TRUE]]
        /\ UNCHANGED <<items, trial, sub, held>>
    BY <1>4, <2>2, <2>3 DEF AdoptRow, tenantVars
  <2>6. QED
    BY <1>0, <1>3, <2>1, <2>2, <2>4, <2>5, RowFirst
<1>5. ASSUME NEW c \in Calls, UpsertRow(c) PROVE FirstTrial'
  <2>1. call[c] \in Call /\ call[c].at = "upsert" /\ FirstCall(call[c])
    BY <1>0, <1>3, <1>5 DEF TypeOK, FirstTrial, UpsertRow, At
  <2>2. PICK d : d = call[c].cur
    OBVIOUS
  <2>3. call[c].old = trial /\ trial # None /\ d \in Planned
    BY <2>1, <2>2 DEF FirstCall, Targeting, Ensuring
  <2>4. PICK k : k = [call[c] EXCEPT !.at = "ensure"]
    OBVIOUS
  <2>5. /\ k.at = "ensure" /\ k.todo = call[c].todo /\ k.s = call[c].s
        /\ k.release = call[c].release
    BY <2>1, <2>4 DEF Call
  <2>6. /\ Step(c, k) /\ row' = [row EXCEPT ![d] = [sub |-> trial, live |-> TRUE]]
        /\ UNCHANGED <<items, trial, sub, held>>
    BY <1>5, <2>2, <2>3, <2>4 DEF UpsertRow, AttachedRow, Goto, tenantVars
  <2>7. k.at \notin Adopting
    BY <2>5 DEF Adopting, Critical
  <2>8. QED
    BY <1>0, <1>3, <2>1, <2>2, <2>3, <2>5, <2>6, <2>7, RowFirst
<1>6. CASE UNCHANGED vars
  <2>1. \A c \in Calls : FirstCall(call[c])'
    BY <1>3, <1>6 DEF vars, tenantVars, FirstTrial, FirstCall
  <2>2. OneWorker' /\ FirstRows' /\ Counted' /\ LinesFirst'
    BY <1>3, <1>6 DEF vars, tenantVars, FirstTrial, OneWorker, FirstRows, Counted, LinesFirst
  <2>3. NoneForgotten' /\ HoldsGo'
    BY <1>3, <1>6 DEF vars, tenantVars, FirstTrial, NoneForgotten, Ahead, HoldsGo, Releases
  <2>4. QED
    BY <2>1, <2>2, <2>3 DEF FirstTrial
<1>7. CASE Next
  BY <1>1, <1>2, <1>3, <1>4, <1>5, <1>7, AdoptingFirst, EnsuringFirst, SavingFirst, AddFirst,
     StripeFirst DEF Next, Runs
<1>8. QED
  BY <1>6, <1>7

(* FirstInv holds when no call outlasts the lock and domains attach alone.   *)
THEOREM FirstInductive == ASSUME ~Slow, AttachAlone PROVE Spec => []FirstInv
<1>1. Init => FirstInv
  <2> SUFFICES ASSUME Init PROVE FirstInv
    OBVIOUS
  <2>1. \A c \in Calls : call[c].at = "idle"
    BY DEF Init, Idle
  <2>2. AttachesAlone /\ OneWorker
    BY <2>1 DEF AttachesAlone, OneWorker, Over, Working, Ensuring
  <2>3. \A c \in Calls : FirstCall(call[c])
    BY <2>1 DEF FirstCall, Adopting, Critical, Working, Ensuring, Targeting
  <2>4. FirstRows /\ Counted /\ LinesFirst /\ NoneForgotten /\ HoldsGo
    BY DEF Init, FirstRows, Counted, LinesFirst, NoneForgotten, HoldsGo
  <2>5. QED
    BY <2>2, <2>3, <2>4 DEF FirstInv, FirstTrial
<1>2. IInv /\ FirstInv /\ [Next]_vars => FirstInv'
  <2> SUFFICES ASSUME IInv, FirstInv, [Next]_vars PROVE FirstInv'
    OBVIOUS
  <2>1. AttachesAlone'
    BY AloneStep DEF IInv, Typed, FirstInv
  <2>2. Unbroken' => FirstTrial'
    BY FirstStep
  <2>3. QED
    BY <2>1, <2>2 DEF FirstInv
<1>3. QED
  BY <1>1, <1>2, Inductive, PTL DEF Spec

(* While the trial's subscription lasts and no call is cut short, Stripe     *)
(* bills each domain at most once, however many return trips, webhooks and   *)
(* later attachments there are (ensureDomainSubscription).                   *)
THEOREM NobodyPaysTwice == ASSUME ~Slow, AttachAlone PROVE Spec => []BilledOnce
<1>1. IInv /\ FirstInv => BilledOnce
  BY DEF IInv, Typed, TypeOK, FirstInv, Unbroken, FirstTrial, Counted, BilledOnce
<1>2. QED
  BY <1>1, Inductive, FirstInductive, PTL

(* Once an uninterrupted adoption of the running trial is over, every        *)
(* planned domain has its row and no mailbox is on hold                      *)
(* (adoptActivationSession).                                                 *)
THEOREM AdoptionIsComplete == ASSUME ~Slow, AttachAlone PROVE Spec => []AdoptedIsComplete
<1>1. FirstInv => AdoptedIsComplete
  <2> SUFFICES ASSUME FirstInv, Quiet, cut = 0, trial # None, trial \notin canceled
               PROVE  held = {} /\ \A d \in Planned : row[d] # None
    BY DEF AdoptedIsComplete
  <2>1. FirstTrial
    BY DEF FirstInv, Unbroken
  <2>2. \A c \in Calls : ~Releases(call[c])
    BY DEF Quiet, Over, Releases, Ensuring
  <2>3. \A c \in Calls, d \in Planned : ~Ahead(call[c], d)
    BY DEF Quiet, Over, Ahead, Ensuring
  <2>4. QED
    BY <2>1, <2>2, <2>3 DEF FirstTrial, HoldsGo, NoneForgotten
<1>2. QED
  BY <1>1, FirstInductive, PTL

=============================================================================
