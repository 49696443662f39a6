---------------------------- MODULE Billing_proofs ----------------------------
(***************************************************************************)
(* Proofs about CouponRedemption and SharedSubscription, the trial a coupon *)
(* extends and the subscription that follows it, for any numbers of calls,  *)
(* tenants, coupons, domains and plans and any limits.  The two models share *)
(* no variable.  CouponInv is inductive and the redemption invariants follow *)
(* from it.  Of the shared subscription, TypeInv types it, MailInv adds what *)
(* each call and the webhook will still do to a domain's mail, and PlanInv   *)
(* what they will still do to its item, its price and the schedule.         *)
(***************************************************************************)
EXTENDS CouponRedemption, SharedSubscription, FiniteSetTheorems, TLAPS

-----------------------------------------------------------------------------
(* CouponRedemption. *)

(* One claim adds one entry, so the count goes up by one (Claim). *)
LEMMA AddEntry ==
    ASSUME NEW S \in SUBSET Requests, NEW r \in Requests, r \notin S
    PROVE  Cardinality(S \cup {r}) = Cardinality(S) + 1
BY RequestsFinite, FS_Subset, FS_AddElement

(* Pulling every entry of a tenant that has exactly one takes one entry     *)
(* away, so a decrement by one keeps the count (ReleaseRedemption).         *)
LEMMA PullEntry ==
    ASSUME NEW S \in SUBSET Requests, NEW f \in [Requests -> Tenants],
           NEW q \in S,
           \A x, y \in S : f[x] = f[y] => x = y
    PROVE  Cardinality({x \in S : f[x] # f[q]}) = Cardinality(S) - 1
<1>1. {x \in S : f[x] # f[q]} = S \ {q}
  OBVIOUS
<1>2. IsFiniteSet(S)
  BY RequestsFinite, FS_Subset
<1>3. QED
  BY <1>1, <1>2, FS_RemoveElement

(* Every step keeps every variable in its type. *)
LEMMA CouponTypeStep == CouponTypeOK /\ [CouponNext]_redemptionVars => CouponTypeOK'
<1> SUFFICES ASSUME CouponTypeOK, [CouponNext]_redemptionVars
             PROVE  CouponTypeOK'
  OBVIOUS
<1> USE DEF CouponTypeOK, Statuses, Stages, Proceed, couponVars, adminVars, argVars, trialVars
<1>1. ASSUME NEW r \in Requests, Call(r)
      PROVE  CouponTypeOK'
  BY <1>1, DaysAssumption, ClockAssumption
  DEF Call, Redeem, StartCheckout, AdoptCheckout, AdoptAlreadyStarted
<1>2. ASSUME NEW r \in Requests, Precheck(r) \/ Claim(r) \/ ClaimMissed(r) \/ MarkUsed(r)
      PROVE  CouponTypeOK'
  BY <1>2 DEF Precheck, Claim, ClaimMissed, MarkUsed, ClaimAfter
<1>3. ASSUME NEW r \in Requests, Extend(r) \/ ExtendTooLate(r)
      PROVE  CouponTypeOK'
  BY <1>3, DaysAssumption DEF Extend, ExtendTooLate
<1>4. ASSUME NEW r \in Requests,
             StripeExtends(r) \/ StripeRefuses(r) \/ Rollback(r) \/ UpdateRows(r)
      PROVE  CouponTypeOK'
  BY <1>4, DaysAssumption DEF StripeExtends, StripeRefuses, Rollback, UpdateRows
<1>5. ASSUME NEW r \in Requests, ReleaseRedemption(r) \/ Reopen(r)
      PROVE  CouponTypeOK'
  BY <1>5 DEF ReleaseRedemption, WithoutTenant, Reopen
<1>6. ASSUME NEW r \in Requests, Lost(r)
      PROVE  CouponTypeOK'
  BY <1>6 DEF Lost
<1>7. ASSUME NEW c \in Coupons, Administer(c)
      PROVE  CouponTypeOK'
  BY <1>7 DEF Administer, CreateCoupon, RevokeLoad, RevokeSave, DeleteLoad, DeleteCommit
<1>8. ASSUME NEW t \in Tenants, StartTrial(t)
      PROVE  CouponTypeOK'
  BY <1>8, ClockAssumption DEF StartTrial
<1>9. CASE ListCoupons
  BY <1>9 DEF ListCoupons
<1>10. CASE DayPasses
  BY <1>10 DEF DayPasses
<1>11. CASE UNCHANGED redemptionVars
  BY <1>11 DEF redemptionVars
<1>12. QED
  BY <1>1, <1>2, <1>3, <1>4, <1>5, <1>6, <1>7, <1>8, <1>9, <1>10, <1>11
  DEF CouponNext, Handle

-----------------------------------------------------------------------------

(* The entries of a coupon and their number change together, and only by    *)
(* one entry at a time.                                                     *)
LEMMA RecordStep ==
    CouponInv /\ [CouponNext]_redemptionVars =>
        (CountMatchesRedemptions /\ LimitRespected /\ OncePerTenant /\ UnbornIsUnused)'
<1> SUFFICES ASSUME CouponInv, [CouponNext]_redemptionVars
             PROVE  (CountMatchesRedemptions /\ LimitRespected /\ OncePerTenant
                     /\ UnbornIsUnused)'
  OBVIOUS
<1> USE DEF CouponInv, CouponTypeOK, CountMatchesRedemptions, LimitRespected, OncePerTenant,
            UnbornIsUnused
<1> DEFINE Goal == (CountMatchesRedemptions /\ LimitRespected /\ OncePerTenant
                    /\ UnbornIsUnused)'
<1>1. ASSUME UNCHANGED <<usedCount, redemptions, tenantOf>>,
             \A c \in Coupons : status'[c] = "unborn" => status[c] = "unborn"
      PROVE  Goal
  BY <1>1
<1>2. ASSUME NEW r \in Requests, Claim(r)
      PROVE  Goal
  <2> DEFINE c == couponOf[r]
  <2>1. /\ c \in Coupons
        /\ r \notin redemptions[c]
        /\ status[c] # "unborn"
    BY <1>2 DEF Claim, Claimable, RedeemedBy
  <2>2. Cardinality(redemptions[c] \cup {r}) = Cardinality(redemptions[c]) + 1
    BY <2>1, AddEntry
  <2>3. CountMatchesRedemptions'
    BY <1>2, <2>1, <2>2 DEF Claim
  <2>4. LimitRespected'
    <3>0. usedCount[c] < MaxUses[c]
      BY <1>2 DEF Claim, Claimable
    <3>1. usedCount[c] \in Int /\ MaxUses[c] \in Int /\ usedCount[c] < MaxUses[c]
      BY <3>0, <2>1, MaxUsesAssumption
    <3>2. usedCount[c] + 1 <= MaxUses[c]
      BY <3>1
    <3>3. usedCount' = [usedCount EXCEPT ![c] = @ + 1]
      BY <1>2 DEF Claim
    <3>4. \A d \in Coupons : MaxUses[d] \in Int /\ usedCount[d] <= MaxUses[d]
      BY MaxUsesAssumption
    <3>5. \A d \in Coupons : usedCount'[d] = IF d = c THEN usedCount[d] + 1 ELSE usedCount[d]
      BY <2>1, <3>3
    <3> HIDE DEF c
    <3>6. QED
      BY <3>2, <3>4, <3>5
  <2>5. OncePerTenant'
    BY <1>2, <2>1 DEF Claim, Claimable, RedeemedBy, argVars
  <2>6. UnbornIsUnused'
    BY <1>2, <2>1 DEF Claim
  <2>7. QED
    BY <2>3, <2>4, <2>5, <2>6
<1>3. ASSUME NEW r \in Requests, ReleaseRedemption(r)
      PROVE  Goal
  <2> DEFINE c == couponOf[r]
             t == tenantOf[r]
  <2>1. CASE Exists(c) /\ RedeemedBy(c, t)
    <3>1. PICK q \in redemptions[c] : tenantOf[q] = t
      BY <2>1 DEF RedeemedBy
    <3>2. Cardinality({x \in redemptions[c] : tenantOf[x] # t})
            = Cardinality(redemptions[c]) - 1
      BY <3>1, PullEntry
    <3>3. CountMatchesRedemptions'
      BY <1>3, <2>1, <3>2 DEF ReleaseRedemption, WithoutTenant
    <3>4. LimitRespected'
      <4>1. usedCount[c] \in Int /\ MaxUses[c] \in Int /\ usedCount[c] <= MaxUses[c]
        BY MaxUsesAssumption
      <4>2. usedCount[c] - 1 <= MaxUses[c]
        BY <4>1
      <4>3. usedCount' = [usedCount EXCEPT ![c] = @ - 1]
        BY <1>3, <2>1 DEF ReleaseRedemption
      <4>4. QED
        BY <4>2, <4>3
    <3>5. OncePerTenant'
      BY <1>3, <2>1 DEF ReleaseRedemption, WithoutTenant, argVars
    <3>6. UnbornIsUnused'
      BY <1>3, <2>1 DEF ReleaseRedemption, WithoutTenant
    <3>7. QED
      BY <3>3, <3>4, <3>5, <3>6
  <2>2. CASE ~(Exists(c) /\ RedeemedBy(c, t))
    BY <1>3, <2>2, <1>1 DEF ReleaseRedemption, argVars
  <2>3. QED
    BY <2>1, <2>2
<1>4. ASSUME NEW r \in Requests, Call(r) \/ Lost(r)
      PROVE  Goal
  BY <1>4, <1>1 DEF Call, Redeem, StartCheckout, AdoptCheckout, AdoptAlreadyStarted,
                    Lost, couponVars, argVars
<1>5. ASSUME NEW r \in Requests, Handle(r), ~Claim(r), ~ReleaseRedemption(r)
      PROVE  Goal
  BY <1>5, <1>1 DEF Handle, Precheck, ClaimMissed, MarkUsed, Extend, ExtendTooLate,
                    StripeExtends, StripeRefuses, Rollback, Reopen, UpdateRows,
                    Exists, couponVars, argVars
<1>6. ASSUME NEW c \in Coupons, Administer(c)
      PROVE  Goal
  BY <1>6, <1>1 DEF Administer, CreateCoupon, RevokeLoad, RevokeSave, DeleteLoad,
                    DeleteCommit, Exists, couponVars, argVars
<1>7. CASE ListCoupons
  BY <1>7, <1>1 DEF ListCoupons, argVars
<1>8. CASE UNCHANGED redemptionVars \/ DayPasses \/ \E t \in Tenants : StartTrial(t)
  BY <1>8, <1>1 DEF DayPasses, StartTrial, couponVars, argVars, redemptionVars
<1>9. QED
  BY <1>2, <1>3, <1>4, <1>5, <1>6, <1>7, <1>8 DEF CouponNext
-----------------------------------------------------------------------------

(* A call's stage keeps telling whether it holds an entry and its days.      *)
(* The delicate step is another call's release: it pulls by tenant, and      *)
(* OncePerTenant makes that the releasing call's own entry.                  *)
LEMMA StageStep == CouponInv /\ [CouponNext]_redemptionVars => StageMatchesRecord'
<1> SUFFICES ASSUME CouponInv, [CouponNext]_redemptionVars
             PROVE  StageMatchesRecord'
  OBVIOUS
<1> USE DEF CouponInv, CouponTypeOK, Stages, StageMatchesRecord, Claimed, Unclaimed, Extended,
            Unextended, Proceed
<1>1. ASSUME NEW r \in Requests, Claim(r)
      PROVE  StageMatchesRecord'
  <2>1. status[couponOf[r]] = "active"
    BY <1>1 DEF Claim, Claimable
  <2>2. QED
    BY <1>1, <2>1 DEF Claim, ClaimAfter, argVars, trialVars
<1>2. ASSUME NEW r \in Requests, ReleaseRedemption(r)
      PROVE  StageMatchesRecord'
  <2> DEFINE c == couponOf[r]
             t == tenantOf[r]
  <2>1. pc[r] = "release" /\ ~viaCheckout[r] /\ r \notin granted
    BY <1>2 DEF ReleaseRedemption
  <2>2. CASE status[c] = "deleted"
    <3>1. redemptions' = redemptions
      BY <1>2, <2>2 DEF ReleaseRedemption, Exists
    <3>2. QED
      BY <1>2, <2>1, <2>2, <3>1 DEF ReleaseRedemption, Exists, argVars, trialVars
  <2>3. CASE status[c] # "deleted"
    <3>1. r \in redemptions[c]
      BY <2>1, <2>3
    <3>2. Exists(c) /\ RedeemedBy(c, t)
      BY <2>3, <3>1 DEF Exists, RedeemedBy, UnbornIsUnused
    <3>3. {q \in redemptions[c] : tenantOf[q] # t} = redemptions[c] \ {r}
      BY <3>1 DEF OncePerTenant
    <3>4. redemptions' = [redemptions EXCEPT ![c] = @ \ {r}]
      BY <1>2, <3>2, <3>3 DEF ReleaseRedemption, WithoutTenant
    <3>5. pc' = [pc EXCEPT ![r] = "reopen"] \/ pc' = [pc EXCEPT ![r] = "refused"]
      BY <1>2 DEF ReleaseRedemption
    <3>6. UNCHANGED <<status, tenantOf, couponOf, viaCheckout, granted>>
      BY <1>2 DEF ReleaseRedemption, argVars, trialVars
    <3>7. QED
      BY <2>1, <3>4, <3>5, <3>6
  <2>4. QED
    BY <2>2, <2>3
<1>3. ASSUME NEW r \in Requests, Call(r)
      PROVE  StageMatchesRecord'
  BY <1>3 DEF Call, Redeem, StartCheckout, AdoptCheckout, AdoptAlreadyStarted,
              couponVars, argVars, trialVars
<1>4. ASSUME NEW r \in Requests, Precheck(r) \/ ClaimMissed(r)
      PROVE  StageMatchesRecord'
  BY <1>4 DEF Precheck, ClaimMissed, couponVars, argVars, trialVars
<1>5. ASSUME NEW r \in Requests, MarkUsed(r) \/ Reopen(r)
      PROVE  StageMatchesRecord'
  BY <1>5 DEF MarkUsed, Reopen, ClaimAfter, Exists, argVars, trialVars
<1>6. ASSUME NEW r \in Requests, Extend(r) \/ ExtendTooLate(r) \/ Rollback(r)
      PROVE  StageMatchesRecord'
  BY <1>6 DEF Extend, ExtendTooLate, Rollback, couponVars, argVars, trialVars
<1>7. ASSUME NEW r \in Requests, StripeExtends(r) \/ StripeRefuses(r) \/ UpdateRows(r)
      PROVE  StageMatchesRecord'
  BY <1>7 DEF StripeExtends, StripeRefuses, UpdateRows, couponVars, argVars, trialVars
<1>8. ASSUME NEW r \in Requests, Lost(r)
      PROVE  StageMatchesRecord'
  BY <1>8 DEF Lost, couponVars, argVars, trialVars
<1>9. ASSUME NEW c \in Coupons, Administer(c)
      PROVE  StageMatchesRecord'
  BY <1>9 DEF Administer, CreateCoupon, RevokeLoad, RevokeSave, DeleteLoad,
              DeleteCommit, Exists, couponVars, argVars, trialVars
<1>10. CASE ListCoupons
  BY <1>10 DEF ListCoupons, argVars, trialVars
<1>11. CASE UNCHANGED redemptionVars \/ DayPasses \/ \E t \in Tenants : StartTrial(t)
  BY <1>11 DEF redemptionVars, DayPasses, StartTrial, couponVars, argVars, trialVars
<1>12. QED
  BY <1>1, <1>2, <1>3, <1>4, <1>5, <1>6, <1>7, <1>8, <1>9, <1>10, <1>11 DEF CouponNext, Handle

-----------------------------------------------------------------------------

(* CouponInv holds in every reachable state, for all values of the constants. *)
THEOREM CouponInductive == CouponSpec => []CouponInv
<1>1. CouponInit => CouponInv
  <2> SUFFICES ASSUME CouponInit PROVE CouponInv
    OBVIOUS
  <2>1. CouponTypeOK
    BY DEF CouponInit, CouponTypeOK, Statuses, Stages
  <2>2. CountMatchesRedemptions
    BY FS_EmptySet DEF CouponInit, CountMatchesRedemptions
  <2>3. LimitRespected
    BY MaxUsesAssumption DEF CouponInit, LimitRespected
  <2>4. OncePerTenant /\ UnbornIsUnused
    BY DEF CouponInit, OncePerTenant, UnbornIsUnused
  <2>5. StageMatchesRecord
    BY DEF CouponInit, StageMatchesRecord, Claimed, Unclaimed, Extended, Unextended
  <2>6. QED
    BY <2>1, <2>2, <2>3, <2>4, <2>5 DEF CouponInv
<1>2. CouponInv /\ [CouponNext]_redemptionVars => CouponInv'
  BY CouponTypeStep, RecordStep, StageStep DEF CouponInv
<1>3. QED
  BY <1>1, <1>2, PTL DEF CouponSpec

(* The type invariant. *)
THEOREM CouponTypeCorrect == CouponSpec => []CouponTypeOK
<1>1. CouponInv => CouponTypeOK
  BY DEF CouponInv
<1>2. QED
  BY <1>1, CouponInductive, PTL

(* redeemCoupon's atomic claim and its rollback: however many calls run at  *)
(* once, usedCount equals the number of entries.                             *)
THEOREM ClaimsAreCounted == CouponSpec => []CountMatchesRedemptions
<1>1. CouponInv => CountMatchesRedemptions
  BY DEF CouponInv
<1>2. QED
  BY <1>1, CouponInductive, PTL

(* The claim's filter: a coupon is never used more often than maxUses.       *)
THEOREM LimitHolds == CouponSpec => []LimitRespected
<1>1. CouponInv => LimitRespected
  BY DEF CouponInv
<1>2. QED
  BY <1>1, CouponInductive, PTL

(* The claim's filter: no tenant has two entries of one coupon, however many *)
(* of its calls passed the pre-check together.                               *)
THEOREM OneClaimPerTenant == CouponSpec => []OncePerTenant
<1>1. CouponInv => OncePerTenant
  BY DEF CouponInv
<1>2. QED
  BY <1>1, CouponInductive, PTL

(* A redeem call's days and its entry stand or fall together: while they are *)
(* in the trial no other call's rollback removes the entry, and when the     *)
(* call is over it left both or neither.                                     *)
THEOREM RedeemIsAllOrNothing == CouponSpec => [](ExtensionHoldsClaim /\ SettledTogether)
<1>1. CouponInv => ExtensionHoldsClaim
  BY DEF CouponInv, StageMatchesRecord, ExtensionHoldsClaim, Exists, CouponTypeOK
<1>2. CouponInv => SettledTogether
  BY DEF CouponInv, StageMatchesRecord, SettledTogether, Exists, CouponTypeOK, Claimed, Unclaimed,
         Extended, Unextended
<1>3. QED
  BY <1>1, <1>2, CouponInductive, PTL

-----------------------------------------------------------------------------
(* SharedSubscription: types. *)

\* A call that is under way is on a domain, and has the plan it is to bill.
ShapeOf(o) ==
    \/ o = Idle
    \/ o.dom \in Domains /\ (o.kind \in {"select", "upgrade"} => o.plan \in Plans)

\* The type invariant's own strengthening.
TypeInv == TypeOK /\ \A c \in Calls : ShapeOf(op[c])

\* What is at rest has its type.
LEMMA RestTyped ==
  /\ NoRow \in Row /\ Idle \in Op /\ ShapeOf(Idle) /\ Idle.dom \notin Domains
  /\ Resting \in Hook /\ Unqueued \in Sync /\ Asleep \in Rec
BY NoneAssumption, BoundsAssumption
DEF NoRow, Row, Idle, Op, ShapeOf, Resting, Hook, Unqueued, Sync, Asleep, Rec, Gens, Users

\* The records of Row, Op and Hook, field by field.
LEMMA RowTyped ==
  ASSUME NEW r \in Row
  PROVE  /\ r.state \in {"none", "live", "canceled", "gone"} /\ r.gen \in Gens
         /\ r.plan \in Plans \cup {None} /\ r.pending \in Plans \cup {None}
         /\ \A s \in {"none", "live", "canceled", "gone"} : [r EXCEPT !.state = s] \in Row
         /\ \A g \in Gens : [r EXCEPT !.gen = g] \in Row
         /\ \A p \in Plans \cup {None} :
               [r EXCEPT !.plan = p] \in Row /\ [r EXCEPT !.pending = p] \in Row
BY DEF Row

\* The fields of a call's record.
LEMMA OpTyped ==
  ASSUME NEW o \in Op
  PROVE  /\ o.row \in Row /\ o.plan \in Plans \cup {None} /\ o.dom \in Domains \cup {None}
         /\ o.qty \in Users /\ o.alone \in BOOLEAN /\ o.pend \subseteq Pending
         /\ \A s \in {"idle", "start", "stripe", "save", "off", "read", "write", "restore"} :
               /\ [o EXCEPT !.at = s] \in Op
               /\ [o EXCEPT !.at = s].kind = o.kind /\ [o EXCEPT !.at = s].dom = o.dom
               /\ [o EXCEPT !.at = s].plan = o.plan
BY DEF Op

\* A call goes on as o: the calls keep their types.
LEMMA OpStays ==
  ASSUME TypeInv, NEW c \in Calls, NEW o \in Op, ShapeOf(o), op' = [op EXCEPT ![c] = o]
  PROVE  op' \in [Calls -> Op] /\ (\A b \in Calls : ShapeOf(op[b]))'
<1>1. op' \in [Calls -> Op]
  BY DEF TypeInv, TypeOK
<1>2. \A b \in Calls : ShapeOf(op'[b])
  BY DEF TypeInv, TypeOK
<1> QED BY <1>1, <1>2 DEF ShapeOf, Idle

\* A call that goes to another stage, or that is finished.
LEMMA GotoStays ==
  ASSUME TypeInv, NEW c \in Calls,
         NEW s \in {"idle", "start", "stripe", "save", "off", "read", "write", "restore"},
         op[c] # Idle, Goto(c, s)
  PROVE  op' \in [Calls -> Op] /\ (\A b \in Calls : ShapeOf(op[b]))'
<1> DEFINE o == [op[c] EXCEPT !.at = s]
<1>1. op[c] \in Op /\ ShapeOf(op[c])
  BY DEF TypeInv, TypeOK
<1>2. o \in Op /\ ShapeOf(o)
  BY <1>1, OpTyped DEF ShapeOf
<1>3. op' = [op EXCEPT ![c] = o]
  BY DEF Goto
<1> HIDE DEF o
<1> QED BY <1>2, <1>3, OpStays

\* A call that is over leaves the calls typed.
LEMMA FinishStays ==
  ASSUME TypeInv, NEW c \in Calls, Finish(c)
  PROVE  op' \in [Calls -> Op] /\ (\A b \in Calls : ShapeOf(op[b]))'
BY RestTyped, OpStays DEF Finish

\* The parts of TypeInv.
RowsTyped == row \in [Domains -> Row] /\ users \in [Domains -> Users] /\ mail \in [Domains -> BOOLEAN]
StripeTyped ==
    /\ items \subseteq Item /\ next \subseteq Item
    /\ sub \in {"running", "ending", "ended"} /\ made \in [Domains -> Gens] /\ events \subseteq Event
CallsTyped == op \in [Calls -> Op] /\ \A c \in Calls : ShapeOf(op[c])
JobsTyped == hook \in Hook /\ sync \in [Domains -> Sync] /\ rec \in Rec
BoundsTyped ==
    /\ period \in 0..LastPeriod /\ begun \in 0..MaxBegun /\ faults \in 0..MaxFaults
    /\ excused \subseteq Domains /\ lost \in BOOLEAN

\* TypeInv is its parts.
LEMMA TypeParts ==
  /\ TypeInv <=> RowsTyped /\ StripeTyped /\ CallsTyped /\ JobsTyped /\ BoundsTyped
  /\ TypeInv' <=> RowsTyped' /\ StripeTyped' /\ CallsTyped' /\ JobsTyped' /\ BoundsTyped'
BY DEF TypeInv, TypeOK, RowsTyped, StripeTyped, CallsTyped, JobsTyped, BoundsTyped

\* What does not change keeps its type.
LEMMA SameTyped ==
  /\ RowsTyped /\ UNCHANGED rowVars => RowsTyped'
  /\ StripeTyped /\ UNCHANGED stripeVars => StripeTyped'
  /\ CallsTyped /\ UNCHANGED op => CallsTyped'
  /\ JobsTyped /\ UNCHANGED jobVars => JobsTyped'
  /\ BoundsTyped /\ UNCHANGED <<boundVars, historyVars>> => BoundsTyped'
<1>1. RowsTyped /\ UNCHANGED rowVars => RowsTyped'
  BY DEF RowsTyped, rowVars
<1>2. StripeTyped /\ UNCHANGED stripeVars => StripeTyped'
  BY DEF StripeTyped, stripeVars
<1>3. CallsTyped /\ UNCHANGED op => CallsTyped'
  BY DEF CallsTyped, ShapeOf, Idle
<1>4. JobsTyped /\ UNCHANGED jobVars => JobsTyped'
  BY DEF JobsTyped, jobVars
<1>5. BoundsTyped /\ UNCHANGED <<boundVars, historyVars>> => BoundsTyped'
  BY DEF BoundsTyped, boundVars, historyVars
<1> QED BY <1>1, <1>2, <1>3, <1>4, <1>5

\* A row that is saved, items that are set, a schedule that is rebuilt.
LEMMA SaveTyped ==
  ASSUME RowsTyped, NEW d \in Domains, NEW r \in Row, SaveRow(d, r) \/ row' = [row EXCEPT ![d] = r],
         UNCHANGED <<users, mail>>
  PROVE  RowsTyped'
BY DEF RowsTyped, SaveRow

\* What is told of a change is an event.
LEMMA UpdatedTyped == \A s : Updated(s) \in Event
BY DEF Updated, Event

\* Items replaced by items are typed.
LEMMA SetTyped ==
  ASSUME StripeTyped, NEW new \in SUBSET Item, SetItems(new)
  PROVE  StripeTyped'
BY UpdatedTyped DEF StripeTyped, SetItems

\* Items given a plan and a number of users are items.
LEMMA ChangedTyped ==
  ASSUME StripeTyped, NEW old \in SUBSET items, NEW p \in Plans \cup {None}, NEW n \in Users
  PROVE  Changed(old, p, n) \subseteq Item
<1>1. items \subseteq Item
  BY DEF StripeTyped
<1>2. \A i \in Item : [i EXCEPT !.plan = IF p = None THEN @ ELSE p, !.qty = n] \in Item
  BY DEF Item
<1> QED BY <1>1, <1>2 DEF Changed

\* Rows with a pending plan are downgrades.
LEMMA PendingTyped ==
  ASSUME RowsTyped
  PROVE  PendingRows \subseteq Pending
<1> SUFFICES ASSUME NEW d \in Domains, row[d].pending # None
             PROVE  [dom |-> d, gen |-> row[d].gen, plan |-> row[d].pending] \in Pending
  BY DEF PendingRows
<1>1. row[d] \in Row
  BY DEF RowsTyped
<1> QED BY <1>1, RowTyped DEF Pending

\* The next phase is made of items.
LEMMA PhaseTyped ==
  ASSUME StripeTyped, NEW due \in SUBSET Pending
  PROVE  NextPhase(due) \subseteq Item
<1> SUFFICES ASSUME NEW i \in items, \E p \in due : p.dom = i.dom /\ p.gen = i.gen
             PROVE  [i EXCEPT !.plan = (CHOOSE p \in due : p.dom = i.dom /\ p.gen = i.gen).plan] \in Item
  BY DEF NextPhase, StripeTyped
<1>1. (CHOOSE p \in due : p.dom = i.dom /\ p.gen = i.gen) \in due
  OBVIOUS
<1>2. PICK p \in due : p = CHOOSE q \in due : q.dom = i.dom /\ q.gen = i.gen
  BY <1>1
<1>3. p.plan \in Plans
  BY DEF Pending
<1>4. i \in Item
  BY DEF StripeTyped
<1>5. [i EXCEPT !.plan = p.plan] \in Item
  BY <1>3, <1>4 DEF Item
<1> QED BY <1>2, <1>5

\* A rebuilt schedule keeps what is at Stripe typed.
LEMMA RebuildTyped ==
  ASSUME StripeTyped, NEW due \in SUBSET Pending, Rebuild(due)
  PROVE  StripeTyped'
<1>1. NextPhase(due) \subseteq Item
  BY PhaseTyped
<1>2. next' \subseteq Item
  BY <1>1 DEF Rebuild
<1>3. events' \subseteq Event
  BY UpdatedTyped DEF Rebuild, StripeTyped
<1> QED BY <1>2, <1>3 DEF Rebuild, StripeTyped

-----------------------------------------------------------------------------
\* A call begins with what it reads.
LEMMA BeginTyped ==
  ASSUME TypeInv, NEW c \in Calls, NEW d \in Domains,
         NEW k \in {"select", "upgrade", "downgrade", "keep", "cancel", "delete"},
         NEW p \in Plans \cup {None}, k \in {"select", "upgrade"} => p \in Plans,
         NEW s \in {"start", "stripe", "save"}, Begin(c, k, d, p, s)
  PROVE  TypeInv'
<1> DEFINE o == [Idle EXCEPT !.kind = k, !.dom = d, !.at = s, !.plan = p, !.row = row[d],
                    !.alone = Alone(d), !.qty = Active(d)]
<1> USE TypeParts
<1>1. row[d] \in Row /\ Active(d) \in Users /\ Alone(d) \in BOOLEAN
  BY BoundsAssumption DEF RowsTyped, Active, Alone, Users
<1>2. o \in Op /\ ShapeOf(o)
  BY <1>1, RestTyped DEF Op, ShapeOf, Idle
<1>3. op' = [op EXCEPT ![c] = o]
  BY DEF Begin
<1> HIDE DEF o
<1>4. CallsTyped'
  BY <1>2, <1>3, OpStays DEF CallsTyped
<1>5. BoundsTyped'
  BY BoundsAssumption DEF Begin, BoundsTyped
<1> QED BY <1>4, <1>5, SameTyped DEF Begin

\* Every call begins typed.
LEMMA BeginsTyped ==
  ASSUME TypeInv, NEW c \in Calls, NEW d \in Domains, BeginCall(c, d)
  PROVE  TypeInv'
<1>1. CASE Cancel(c, d) \/ Delete(c, d) \/ Keep(c, d)
  BY <1>1, BeginTyped DEF Cancel, Delete, Keep
<1>2. CASE \E p \in Plans : Select(c, d, p) \/ Upgrade(c, d, p) \/ Downgrade(c, d, p)
  BY <1>2, BeginTyped DEF Select, Upgrade, Downgrade
<1> QED BY <1>1, <1>2 DEF BeginCall

-----------------------------------------------------------------------------
\* The call of a step is under way, on a domain.
LEMMA UnderWay ==
  ASSUME TypeInv, NEW c \in Calls, op[c] # Idle
  PROVE  /\ op[c] \in Op /\ op[c].dom \in Domains /\ row[op[c].dom] \in Row
         /\ op[c].kind \in {"select", "upgrade"} => op[c].plan \in Plans
BY DEF TypeInv, TypeOK, ShapeOf

\* A call at one of its kinds' stages is under way.
LEMMA AtWork ==
  ASSUME NEW c \in Calls, op[c].at # "idle" \/ op[c].dom \in Domains
  PROVE  op[c] # Idle
BY NoneAssumption DEF Idle

\* The calls whose record changes in more than its stage.
LEMMA CountMoves ==
  ASSUME TypeInv, NEW c \in Calls, SelectCount(c), ~HasEnded
  PROVE  \E a \in BOOLEAN, n \in Users :
            op' = [op EXCEPT ![c] = [op[c] EXCEPT !.at = "stripe", !.alone = a, !.qty = n]]
<1>1. op[c] # Idle /\ op[c].dom \in Domains
  BY AtWork, UnderWay DEF SelectCount, At
<1>2. users[op[c].dom] \in Users /\ 0 \in Users /\ mail[op[c].dom] \in BOOLEAN
  BY <1>1, BoundsAssumption DEF TypeInv, TypeOK, Users
<1> DEFINE a == op[c].row.state = "canceled" /\ ~mail[op[c].dom]
           n == IF mail[op[c].dom] \/ op[c].row.state = "canceled" THEN users[op[c].dom] ELSE 0
<1>3. a \in BOOLEAN /\ n \in Users
  BY <1>2
<1>4. op' = [op EXCEPT ![c].at = "stripe", ![c].alone = a, ![c].qty = n]
  BY DEF SelectCount
<1>5. op \in [Calls -> Op]
  BY DEF TypeInv, TypeOK
<1> HIDE DEF a, n
<1>6. op' = [op EXCEPT ![c] = [op[c] EXCEPT !.at = "stripe", !.alone = a, !.qty = n]]
  BY <1>4, <1>5
<1> QED BY <1>3, <1>6

\* The item's number goes into the call's copy of the row.
LEMMA AddMoves ==
  ASSUME TypeInv, NEW c \in Calls, op[c] # Idle, NEW g \in Gens,
         op' = [op EXCEPT ![c].at = "save", ![c].row.gen = g]
  PROVE  /\ [op[c].row EXCEPT !.gen = g] \in Row
         /\ op' = [op EXCEPT ![c] =
                     [op[c] EXCEPT !.at = "save", !.row = [op[c].row EXCEPT !.gen = g]]]
<1>1. op[c].row \in Row
  BY UnderWay, OpTyped
<1>2. op \in [Calls -> Op]
  BY DEF TypeInv, TypeOK
<1>3. [op[c].row EXCEPT !.gen = g] \in Row
  BY <1>1, RowTyped
<1>4. op' = [op EXCEPT ![c] = [op[c] EXCEPT !.at = "save", !.row = [op[c].row EXCEPT !.gen = g]]]
  BY <1>2
<1> QED BY <1>3, <1>4

\* The downgrades a call reads go into its record.
LEMMA ReadMoves ==
  ASSUME TypeInv, NEW c \in Calls, SyncRead(c)
  PROVE  /\ PendingRows \subseteq Pending
         /\ op' = [op EXCEPT ![c] = [op[c] EXCEPT !.at = "write", !.pend = PendingRows]]
<1>1. PendingRows \subseteq Pending
  BY PendingTyped, TypeParts
<1>2. op \in [Calls -> Op]
  BY DEF TypeInv, TypeOK
<1> QED BY <1>1, <1>2 DEF SyncRead

\* A call's record with these fields changed.
LEMMA OpChanged ==
  ASSUME NEW o \in Op, ShapeOf(o), o # Idle
  PROVE  /\ \A a \in BOOLEAN, n \in Users :
               LET k == [o EXCEPT !.at = "stripe", !.alone = a, !.qty = n]
               IN  k \in Op /\ ShapeOf(k)
         /\ \A r \in Row : LET k == [o EXCEPT !.at = "save", !.row = r] IN k \in Op /\ ShapeOf(k)
         /\ \A due \in SUBSET Pending :
               LET k == [o EXCEPT !.at = "write", !.pend = due] IN k \in Op /\ ShapeOf(k)
BY DEF Op, ShapeOf

\* A domain joins (selectDomainPlan).
LEMMA SelectTyped ==
  ASSUME TypeInv, NEW c \in Calls, SelectCount(c) \/ SelectSave(c) \/ MailOff(c)
  PROVE  TypeInv'
<1>0. /\ op[c] # Idle /\ op[c] \in Op /\ op[c].dom \in Domains /\ row[op[c].dom] \in Row
      /\ op[c].kind = "select" => op[c].plan \in Plans
      /\ ShapeOf(op[c])
  BY AtWork, UnderWay DEF SelectCount, SelectSave, MailOff, At, TypeInv
<1> USE TypeParts
<1>1. CASE SelectCount(c)
  <2>1. CallsTyped'
    <3>1. CASE HasEnded
      BY <1>1, <3>1, FinishStays DEF SelectCount, CallsTyped
    <3>2. CASE ~HasEnded
      <4>1. PICK a \in BOOLEAN, n \in Users :
               op' = [op EXCEPT ![c] = [op[c] EXCEPT !.at = "stripe", !.alone = a, !.qty = n]]
        BY <1>1, <3>2, CountMoves
      <4>2. PICK k \in Op : ShapeOf(k) /\ op' = [op EXCEPT ![c] = k]
        BY <1>0, <4>1, OpChanged
      <4> QED BY <4>2, OpStays DEF CallsTyped
    <3> QED BY <3>1, <3>2
  <2>2. RowsTyped'
    BY <1>0, <1>1 DEF SelectCount, RowsTyped
  <2> QED BY <1>1, <2>1, <2>2, SameTyped DEF SelectCount
<1>2. CASE SelectSave(c)
  <2>1. CallsTyped'
    BY <1>2, FinishStays DEF SelectSave, CallsTyped
  <2>2. [row[op[c].dom] EXCEPT !.state = "live", !.gen = op[c].row.gen, !.plan = op[c].plan] \in Row
    <3>1. op[c].row \in Row /\ op[c].plan \in Plans
      BY <1>0, <1>2, OpTyped DEF SelectSave, At
    <3>2. op[c].row.gen \in Gens
      BY <3>1, RowTyped
    <3> QED BY <1>0, <3>1, <3>2 DEF Row
  <2>3. RowsTyped'
    BY <1>0, <1>2, <2>2, SaveTyped DEF SelectSave
  <2>4. BoundsTyped'
    BY <1>0, <1>2 DEF SelectSave, BoundsTyped, boundVars
  <2> QED BY <1>2, <2>1, <2>3, <2>4, SameTyped DEF SelectSave
<1>3. CASE MailOff(c)
  <2>1. CallsTyped'
    BY <1>3, FinishStays DEF MailOff, CallsTyped
  <2>2. RowsTyped'
    BY <1>0, <1>3 DEF MailOff, RowsTyped
  <2> QED BY <1>3, <2>1, <2>2, SameTyped DEF MailOff
<1> QED BY <1>1, <1>2, <1>3

\* Stripe adds its item, or refuses.
LEMMA AddTyped ==
  ASSUME TypeInv, NEW c \in Calls, SelectAdd(c)
  PROVE  TypeInv'
<1>0. /\ op[c] # Idle /\ op[c] \in Op /\ op[c].dom \in Domains /\ row[op[c].dom] \in Row
      /\ op[c].plan \in Plans /\ ShapeOf(op[c])
  BY AtWork, UnderWay DEF SelectAdd, At, TypeInv
<1> USE TypeParts
<1>1. made[op[c].dom] + 1 \in Gens
  BY <1>0 DEF StripeTyped, Gens
<1>2. BoundsTyped'
  BY BoundsAssumption DEF SelectAdd, Fault, NoFault, BoundsTyped, historyVars
<1>3. CASE op' = [op EXCEPT ![c].at = "save", ![c].row.gen = made[op[c].dom] + 1]
           /\ items' = items \cup {[dom |-> op[c].dom, gen |-> made[op[c].dom] + 1,
                                    plan |-> op[c].plan, qty |-> op[c].qty]}
           /\ made' = [made EXCEPT ![op[c].dom] = made[op[c].dom] + 1]
           /\ events' = events \cup {Updated(next)}
  <2>1. PICK r \in Row : op' = [op EXCEPT ![c] = [op[c] EXCEPT !.at = "save", !.row = r]]
    BY <1>0, <1>1, <1>3, AddMoves
  <2>2. PICK k \in Op : ShapeOf(k) /\ op' = [op EXCEPT ![c] = k]
    BY <1>0, <2>1, OpChanged
  <2>3. CallsTyped'
    BY <2>2, OpStays DEF CallsTyped
  <2>4. op[c].qty \in Users
    BY <1>0, OpTyped
  <2>5. [dom |-> op[c].dom, gen |-> made[op[c].dom] + 1, plan |-> op[c].plan, qty |-> op[c].qty] \in Item
    BY <1>0, <1>1, <2>4 DEF Item
  <2>6. StripeTyped'
    BY <1>1, <1>3, <2>5, UpdatedTyped DEF SelectAdd, StripeTyped
  <2> QED BY <1>2, <2>3, <2>6, SameTyped DEF SelectAdd
<1>4. CASE UNCHANGED <<items, made, events>> /\ (IF op[c].alone THEN Goto(c, "off") ELSE Finish(c))
  <2>1. CallsTyped'
    BY <1>0, <1>4, GotoStays, FinishStays DEF CallsTyped
  <2>2. UNCHANGED stripeVars
    BY <1>4 DEF SelectAdd, stripeVars
  <2> QED BY <1>2, <2>1, <2>2, SameTyped DEF SelectAdd
<1> QED BY <1>3, <1>4 DEF SelectAdd

\* Fault and NoFault keep the bounds.
LEMMA FaultTyped ==
  ASSUME BoundsTyped, Fault \/ NoFault, UNCHANGED <<period, begun, lost>>,
         excused' \subseteq Domains
  PROVE  BoundsTyped'
BY BoundsAssumption DEF Fault, NoFault, BoundsTyped

\* Upgrade, downgrade and its withdrawal.
LEMMA UpgradeTyped ==
  ASSUME TypeInv, NEW c \in Calls, UpgradePush(c) \/ UpgradeSave(c) \/ DowngradeSave(c)
            \/ KeepSave(c) \/ KeepRestore(c)
  PROVE  TypeInv'
<1>0. /\ op[c] # Idle /\ op[c] \in Op /\ op[c].dom \in Domains /\ row[op[c].dom] \in Row
      /\ op[c].plan \in Plans \cup {None} /\ op[c].qty \in Users /\ op[c].row \in Row
  BY AtWork, UnderWay, OpTyped DEF UpgradePush, UpgradeSave, DowngradeSave, KeepSave, KeepRestore, At
<1> USE TypeParts
<1>1. CASE UpgradePush(c)
  <2>1. CallsTyped'
    BY <1>0, <1>1, GotoStays, FinishStays DEF UpgradePush, CallsTyped
  <2>2. CASE UNCHANGED stripeVars
    BY <1>1, <2>1, <2>2, SameTyped DEF UpgradePush
  <2>3. CASE \E i \in ItemOf(op[c].dom, op[c].row.gen) :
                SetItems(Changed(ItemOf(op[c].dom, op[c].row.gen), op[c].plan,
                                 IF op[c].qty = 0 THEN i.qty ELSE op[c].qty))
    <3>1. PICK i \in ItemOf(op[c].dom, op[c].row.gen) :
                SetItems(Changed(ItemOf(op[c].dom, op[c].row.gen), op[c].plan,
                                 IF op[c].qty = 0 THEN i.qty ELSE op[c].qty))
      BY <2>3
    <3>2. ItemOf(op[c].dom, op[c].row.gen) \subseteq items /\ i \in Item
      BY DEF ItemOf, StripeTyped
    <3>3. (IF op[c].qty = 0 THEN i.qty ELSE op[c].qty) \in Users
      BY <1>0, <3>2 DEF Item
    <3>4. Changed(ItemOf(op[c].dom, op[c].row.gen), op[c].plan,
                  IF op[c].qty = 0 THEN i.qty ELSE op[c].qty) \subseteq Item
      BY <1>0, <3>2, <3>3, ChangedTyped
    <3>5. StripeTyped'
      BY <3>1, <3>4, SetTyped
    <3> QED BY <1>1, <2>1, <3>5, SameTyped DEF UpgradePush
  <2> QED BY <1>1, <2>2, <2>3 DEF UpgradePush
<1>2. CASE UpgradeSave(c)
  <2>1. CallsTyped'
    BY <1>0, <1>2, GotoStays, FinishStays DEF UpgradeSave, CallsTyped
  <2>2. PICK p \in Plans \cup {None}, q \in Plans \cup {None} :
           SaveRow(op[c].dom, [row[op[c].dom] EXCEPT !.plan = p, !.pending = q])
    <3>1. row[op[c].dom].plan \in Plans \cup {None} /\ row[op[c].dom].pending \in Plans \cup {None}
      BY <1>0, RowTyped
    <3> QED BY <1>0, <1>2, <3>1 DEF UpgradeSave
  <2>3. [row[op[c].dom] EXCEPT !.plan = p, !.pending = q] \in Row
    BY <1>0 DEF Row
  <2>4. RowsTyped'
    BY <1>0, <1>2, <2>2, <2>3, SaveTyped DEF UpgradeSave
  <2> QED BY <1>2, <2>1, <2>4, SameTyped DEF UpgradeSave
<1>3. CASE DowngradeSave(c) \/ KeepSave(c) \/ KeepRestore(c)
  <2>1. CallsTyped'
    BY <1>0, <1>3, GotoStays, FinishStays DEF DowngradeSave, KeepSave, KeepRestore, CallsTyped
  <2>2. PICK q \in Plans \cup {None} : SaveRow(op[c].dom, [row[op[c].dom] EXCEPT !.pending = q])
    <3>1. op[c].row.pending \in Plans \cup {None}
      BY <1>0, RowTyped
    <3> QED BY <1>0, <1>3, <3>1 DEF DowngradeSave, KeepSave, KeepRestore
  <2>3. [row[op[c].dom] EXCEPT !.pending = q] \in Row
    BY <1>0, RowTyped
  <2>4. RowsTyped'
    BY <1>0, <1>3, <2>2, <2>3, SaveTyped DEF DowngradeSave, KeepSave, KeepRestore
  <2> QED BY <1>3, <2>1, <2>4, SameTyped DEF DowngradeSave, KeepSave, KeepRestore
<1> QED BY <1>1, <1>2, <1>3

\* The schedule is read for and written.
LEMMA SyncTyped ==
  ASSUME TypeInv, NEW c \in Calls, SyncRead(c) \/ SyncWrite(c)
  PROVE  TypeInv'
<1>0. op[c] # Idle /\ op[c] \in Op /\ ShapeOf(op[c]) /\ op[c].pend \subseteq Pending
  BY AtWork, UnderWay, OpTyped DEF SyncRead, SyncWrite, TypeInv
<1> USE TypeParts
<1>1. CASE SyncRead(c)
  <2>1. PICK k \in Op : ShapeOf(k) /\ op' = [op EXCEPT ![c] = k]
    BY <1>0, <1>1, ReadMoves, OpChanged
  <2>2. CallsTyped'
    BY <2>1, OpStays DEF CallsTyped
  <2> QED BY <1>1, <2>2, SameTyped DEF SyncRead
<1>2. CASE SyncWrite(c)
  <2>1. CallsTyped'
    BY <1>0, <1>2, GotoStays, FinishStays DEF SyncWrite, CallsTyped
  <2>2. StripeTyped'
    BY <1>0, <1>2, RebuildTyped, SameTyped DEF SyncWrite
  <2>3. BoundsTyped'
    BY <1>2, FaultTyped DEF SyncWrite, BoundsTyped, historyVars
  <2> QED BY <1>2, <2>1, <2>2, <2>3, SameTyped DEF SyncWrite
<1> QED BY <1>1, <1>2

\* A subscription that ends.
LEMMA EndedTyped ==
  ASSUME StripeTyped, Ended
  PROVE  StripeTyped'
BY DEF StripeTyped, Ended, Event

\* Cancellation and deletion.
LEMMA CancelTyped ==
  ASSUME TypeInv, NEW c \in Calls, CancelStripe(c) \/ CancelSave(c) \/ DeleteStripe(c) \/ DeleteRow(c)
  PROVE  TypeInv'
<1>0. /\ op[c] # Idle /\ op[c] \in Op /\ op[c].dom \in Domains /\ row[op[c].dom] \in Row
  BY AtWork, UnderWay DEF CancelStripe, CancelSave, DeleteStripe, DeleteRow, At
<1> USE TypeParts
<1>1. \A old \in SUBSET items : items \ old \in SUBSET Item
  BY DEF StripeTyped
<1>2. ItemOf(op[c].dom, op[c].row.gen) \subseteq items
  BY DEF ItemOf
<1>3. CASE CancelStripe(c)
  <2>1. CallsTyped'
    BY <1>0, <1>3, GotoStays DEF CancelStripe, CallsTyped
  <2>2. BoundsTyped'
    <3>1. excused' \subseteq Domains
      BY <1>0, <1>3 DEF CancelStripe, BoundsTyped
    <3> QED BY <1>3, <3>1, FaultTyped DEF CancelStripe
  <2>3. StripeTyped'
    <3>1. CASE sub' = "ending" /\ events' = events \cup {Updated(next)} /\ UNCHANGED <<items, next, made>>
      BY <3>1, UpdatedTyped DEF StripeTyped
    <3>2. CASE SetItems(items \ ItemOf(op[c].dom, op[c].row.gen))
      BY <1>1, <1>2, <3>2, SetTyped
    <3>3. CASE UNCHANGED stripeVars
      BY <3>3, SameTyped
    <3> QED BY <1>3, <3>1, <3>2, <3>3 DEF CancelStripe
  <2> QED BY <1>3, <2>1, <2>2, <2>3, SameTyped DEF CancelStripe
<1>4. CASE CancelSave(c)
  <2>1. CallsTyped'
    BY <1>0, <1>4, GotoStays, FinishStays DEF CancelSave, AfterCancel, CallsTyped
  <2>2. RowsTyped'
    <3>1. CASE UNCHANGED row
      BY <1>4, <3>1 DEF CancelSave, RowsTyped
    <3>2. CASE \E s \in {"none", "live", "canceled", "gone"} :
                  SaveRow(op[c].dom, [row[op[c].dom] EXCEPT !.state = s])
      BY <1>0, <1>4, <3>2, RowTyped, SaveTyped DEF CancelSave
    <3>3. row[op[c].dom].state \in {"none", "live", "canceled", "gone"}
      BY <1>0, RowTyped
    <3>4. \/ UNCHANGED row
          \/ SaveRow(op[c].dom, [row[op[c].dom] EXCEPT !.state =
                IF op[c].row.state = "canceled" THEN @ ELSE "canceled"])
      BY <1>4 DEF CancelSave
    <3> QED BY <3>1, <3>2, <3>3, <3>4
  <2> QED BY <1>4, <2>1, <2>2, SameTyped DEF CancelSave
<1>5. CASE DeleteStripe(c)
  <2>1. CallsTyped'
    BY <1>0, <1>5, GotoStays DEF DeleteStripe, CallsTyped
  <2>2. BoundsTyped'
    <3>1. excused' \subseteq Domains
      BY <1>0, <1>5 DEF DeleteStripe, BoundsTyped
    <3> QED BY <1>5, <3>1, FaultTyped DEF DeleteStripe
  <2>3. StripeTyped'
    <3>1. CASE Ended
      BY <3>1, EndedTyped
    <3>2. CASE SetItems(items \ ItemOf(op[c].dom, op[c].row.gen))
      BY <1>1, <1>2, <3>2, SetTyped
    <3>3. CASE UNCHANGED stripeVars
      BY <3>3, SameTyped
    <3> QED BY <1>5, <3>1, <3>2, <3>3 DEF DeleteStripe
  <2> QED BY <1>5, <2>1, <2>2, <2>3, SameTyped DEF DeleteStripe
<1>6. CASE DeleteRow(c)
  <2>1. CallsTyped'
    BY <1>6, FinishStays DEF DeleteRow, CallsTyped
  <2>2. [NoRow EXCEPT !.state = "gone"] \in Row
    BY RestTyped, RowTyped
  <2>3. RowsTyped'
    BY <1>0, <1>6, <2>2, SaveTyped DEF DeleteRow
  <2> QED BY <1>6, <2>1, <2>3, SameTyped DEF DeleteRow
<1> QED BY <1>3, <1>4, <1>5, <1>6

\* The webhook's steps.
LEMMA HookTyped ==
  ASSUME TypeInv, HookStep
  PROVE  TypeInv'
<1> USE TypeParts
<1>0. hook \in Hook /\ Resting \in Hook /\ hook.due \subseteq Pending
  BY RestTyped DEF JobsTyped, Hook
<1>1. \A e : Take(e) => StripeTyped'
  BY DEF Take, StripeTyped
<1>2. CASE HookRead
  <2>1. [hook EXCEPT !.at = "write", !.due = PendingRows] \in Hook
    BY <1>0, PendingTyped DEF Hook
  <2>2. JobsTyped'
    BY <1>2, <2>1 DEF HookRead, JobsTyped
  <2> QED BY <1>2, <2>2, SameTyped DEF HookRead
<1>3. CASE HookWrite
  <2>1. StripeTyped'
    <3>1. CASE Rebuild(hook.due)
      BY <1>0, <3>1, RebuildTyped
    <3>2. CASE events' = events \cup {Updated(next)} /\ UNCHANGED <<items, next, sub, made>>
      BY <3>2, UpdatedTyped DEF StripeTyped
    <3> QED BY <1>3, <3>1, <3>2 DEF HookWrite
  <2>2. JobsTyped'
    BY <1>0, <1>3 DEF HookWrite, JobsTyped
  <2>3. BoundsTyped'
    BY <1>3, FaultTyped DEF HookWrite, BoundsTyped, historyVars
  <2> QED BY <1>3, <2>1, <2>2, <2>3, SameTyped DEF HookWrite
<1>4. CASE HookApply
  <2>1. RowsTyped'
    <3>1. ASSUME NEW d \in Domains, \E p \in hook.due : p.dom = d
          PROVE  [row[d] EXCEPT !.plan = (CHOOSE p \in hook.due : p.dom = d).plan,
                                !.pending = None] \in Row
      <4>1. PICK p \in hook.due : p = CHOOSE q \in hook.due : q.dom = d
        BY <3>1
      <4>2. p.plan \in Plans /\ row[d] \in Row
        BY <1>0 DEF Pending, RowsTyped
      <4>3. [row[d] EXCEPT !.plan = p.plan, !.pending = None] \in Row
        BY <4>2 DEF Row
      <4> QED BY <4>1, <4>3
    <3>2. row' \in [Domains -> Row]
      BY <1>4, <3>1 DEF HookApply, RowsTyped
    <3> QED BY <1>4, <3>2 DEF HookApply, RowsTyped
  <2>2. JobsTyped'
    BY <1>0, <1>4 DEF HookApply, JobsTyped
  <2> QED BY <1>4, <2>1, <2>2, SameTyped DEF HookApply
<1>5. CASE HookOff
  <2>1. RowsTyped' /\ JobsTyped'
    BY <1>0, <1>5 DEF HookOff, RowsTyped, JobsTyped
  <2> QED BY <1>5, <2>1, SameTyped DEF HookOff
<1>6. ASSUME NEW e \in events, HookUpdated(e)
      PROVE  TypeInv'
  <2>1. RowsTyped'
    <3>1. \A d \in Domains : Followed(d) \in Row
      <4> SUFFICES ASSUME NEW d \in Domains, {i \in items : i.dom = d /\ i.gen # row[d].gen} # {}
                   PROVE  [row[d] EXCEPT !.gen =
                       (CHOOSE i \in {j \in items : j.dom = d /\ j.gen # row[d].gen} : TRUE).gen] \in Row
        BY DEF Followed, RowsTyped
      <4>1. PICK i \in items : i = CHOOSE j \in {k \in items : k.dom = d /\ k.gen # row[d].gen} : TRUE
        OBVIOUS
      <4>2. i.gen \in Gens /\ row[d] \in Row
        BY DEF StripeTyped, Item, RowsTyped
      <4>3. [row[d] EXCEPT !.gen = i.gen] \in Row
        BY <4>2, RowTyped
      <4> QED BY <4>1, <4>3
    <3> QED BY <1>6, <3>1 DEF HookUpdated, RowsTyped
  <2>2. [hook EXCEPT !.at = "read"] \in Hook
    BY <1>0 DEF Hook
  <2>3. JobsTyped'
    BY <1>0, <1>6, <2>2 DEF HookUpdated, JobsTyped
  <2>4. BoundsTyped'
    BY <1>6 DEF HookUpdated, BoundsTyped, boundVars
  <2> QED BY <1>1, <1>6, <2>1, <2>3, <2>4, SameTyped DEF HookUpdated
<1>7. ASSUME NEW e \in events, HookRenewed(e)
      PROVE  TypeInv'
  <2>1. [hook EXCEPT !.at = "apply", !.due = PendingRows] \in Hook
    BY <1>0, PendingTyped DEF Hook
  <2>2. JobsTyped'
    BY <1>7, <2>1 DEF HookRenewed, JobsTyped
  <2> QED BY <1>1, <1>7, <2>2, SameTyped DEF HookRenewed
<1>8. ASSUME NEW e \in events, HookDeleted(e)
      PROVE  TypeInv'
  <2>1. RowsTyped'
    <3>1. \A d \in Domains : row[d] \in Row /\ [row[d] EXCEPT !.state = "canceled"] \in Row
      BY RowTyped DEF RowsTyped
    <3> QED BY <1>8, <3>1 DEF HookDeleted, RowsTyped
  <2>2. [hook EXCEPT !.at = "off", !.doms = {d \in Domains : Live(d)}] \in Hook
    BY <1>0 DEF Hook
  <2>3. JobsTyped'
    BY <1>8, <2>2 DEF HookDeleted, JobsTyped
  <2> QED BY <1>1, <1>8, <2>1, <2>3, SameTyped DEF HookDeleted
<1> QED BY <1>2, <1>3, <1>4, <1>5, <1>6, <1>7, <1>8 DEF HookStep

\* The queue of counts.
LEMMA QueueTyped ==
  ASSUME TypeInv, NEW d \in Domains, ChangeUsers(d) \/ SyncCount(d) \/ SyncPush(d)
  PROVE  TypeInv'
<1> USE TypeParts
<1>0. /\ sync[d] \in Sync /\ Unqueued \in Sync /\ row[d] \in Row /\ Active(d) \in Users
      /\ sync[d].qty \in Users
  BY RestTyped, BoundsAssumption DEF JobsTyped, RowsTyped, Active, Users, Sync
<1>1. CASE ChangeUsers(d)
  <2>1. RowsTyped'
    BY <1>1 DEF ChangeUsers, RowsTyped
  <2>2. [sync[d] EXCEPT !.again = TRUE] \in Sync /\ [sync[d] EXCEPT !.at = "due"] \in Sync
    BY <1>0 DEF Sync
  <2>3. JobsTyped'
    BY <1>1, <2>2 DEF ChangeUsers, JobsTyped
  <2>4. BoundsTyped'
    BY <1>1, BoundsAssumption DEF ChangeUsers, BoundsTyped, historyVars
  <2> QED BY <1>1, <2>1, <2>3, <2>4, SameTyped DEF ChangeUsers
<1>2. CASE SyncCount(d)
  <2>1. [sync[d] EXCEPT !.at = "push", !.gen = row[d].gen, !.qty = Active(d)] \in Sync
    BY <1>0, RowTyped DEF Sync
  <2>2. JobsTyped'
    BY <1>0, <1>2, <2>1 DEF SyncCount, JobsTyped
  <2> QED BY <1>2, <2>2, SameTyped DEF SyncCount
<1>3. CASE SyncPush(d)
  <2>1. [Unqueued EXCEPT !.at = "due"] \in Sync
    BY <1>0 DEF Sync
  <2>2. JobsTyped'
    BY <1>0, <1>3, <2>1 DEF SyncPush, JobsTyped
  <2>3. ItemOf(d, sync[d].gen) \subseteq items
    BY DEF ItemOf
  <2>4. StripeTyped'
    <3>1. CASE SetItems(Changed(ItemOf(d, sync[d].gen), None, sync[d].qty))
      BY <1>0, <2>3, <3>1, ChangedTyped, SetTyped
    <3> QED BY <1>3, <3>1, SameTyped DEF SyncPush
  <2>5. BoundsTyped'
    BY <1>3, FaultTyped DEF SyncPush, BoundsTyped, historyVars
  <2> QED BY <1>3, <2>2, <2>4, <2>5, SameTyped DEF SyncPush
<1> QED BY <1>1, <1>2, <1>3

\* The nightly reconciliation.
LEMMA NightTyped ==
  ASSUME TypeInv, RecStep
  PROVE  TypeInv'
<1> USE TypeParts
<1>0. rec \in Rec /\ Asleep \in Rec /\ rec.snap \subseteq Item /\ rec.cur \subseteq Item
  BY RestTyped DEF JobsTyped, Rec
<1>1. CASE RecBegin
  <2>1. [rec EXCEPT !.at = "next", !.snap = items] \in Rec
    BY <1>0 DEF Rec, StripeTyped
  <2>2. JobsTyped'
    BY <1>1, <2>1 DEF RecBegin, JobsTyped
  <2> QED BY <1>1, <2>2, SameTyped DEF RecBegin
<1>2. ASSUME NEW i \in rec.snap, RecCount(i)
      PROVE  TypeInv'
  <2>1. i \in Item /\ Active(i.dom) \in Users /\ rec.snap \ {i} \subseteq Item
    BY <1>0, BoundsAssumption DEF Item, Active, Users, RowsTyped
  <2>2. [i EXCEPT !.qty = Active(i.dom)] \in Item
    BY <2>1 DEF Item
  <2>3. /\ [at |-> "push", snap |-> rec.snap \ {i}, cur |-> {[i EXCEPT !.qty = Active(i.dom)]}] \in Rec
        /\ [rec EXCEPT !.snap = rec.snap \ {i}] \in Rec
    BY <1>0, <2>1, <2>2 DEF Rec
  <2>4. JobsTyped'
    BY <1>0, <1>2, <2>3 DEF RecCount, JobsTyped
  <2> QED BY <1>2, <2>4, SameTyped DEF RecCount
<1>3. CASE RecPush
  <2>1. [rec EXCEPT !.at = "next", !.cur = {}] \in Rec
    BY <1>0 DEF Rec
  <2>2. JobsTyped'
    BY <1>0, <1>3, <2>1 DEF RecPush, JobsTyped
  <2>3. StripeTyped'
    <3>1. ASSUME NEW i \in rec.cur, SetItems(Changed(ItemOf(i.dom, i.gen), None, i.qty))
          PROVE  StripeTyped'
      <4>1. ItemOf(i.dom, i.gen) \subseteq items /\ i.qty \in Users
        BY <1>0 DEF ItemOf, Item
      <4> QED BY <3>1, <4>1, ChangedTyped, SetTyped
    <3> QED BY <1>3, <3>1, SameTyped DEF RecPush
  <2>4. BoundsTyped'
    BY <1>3, FaultTyped DEF RecPush, BoundsTyped, historyVars
  <2> QED BY <1>3, <2>2, <2>3, <2>4, SameTyped DEF RecPush
<1> QED BY <1>1, <1>2, <1>3 DEF RecStep

\* The turn of a period.
LEMMA TurnTyped ==
  ASSUME TypeInv, Turn
  PROVE  TypeInv'
<1> USE TypeParts
<1>1. BoundsTyped'
  <2>1. \A c \in Calls : op[c].dom # None => op[c].dom \in Domains
    BY DEF CallsTyped, ShapeOf, Idle
  <2>2. excused' \subseteq Domains
    BY <2>1 DEF Turn, BoundsTyped
  <2> QED BY <2>2, BoundsAssumption DEF Turn, BoundsTyped
<1>2. StripeTyped'
  <2>1. CASE sub = "ending"
    BY <2>1, EndedTyped DEF Turn
  <2>2. CASE sub # "ending" /\ next = {}
    BY <2>2, UpdatedTyped DEF Turn, StripeTyped, Event
  <2>3. CASE sub # "ending" /\ next # {}
    <3>1. PICK kept \in SUBSET next :
             /\ items' = kept \cup {[i EXCEPT !.gen = made[i.dom] + 1] : i \in next \ kept}
             /\ made' = [d \in Domains |-> IF \E i \in next \ kept : i.dom = d
                                           THEN made[d] + 1 ELSE made[d]]
      BY <2>3 DEF Turn
    <3>2. \A i \in next : i \in Item /\ made[i.dom] + 1 \in Gens
      BY <2>3 DEF StripeTyped, Item, Gens
    <3>3. \A i \in next : [i EXCEPT !.gen = made[i.dom] + 1] \in Item
      BY <3>2 DEF Item
    <3>4. items' \subseteq Item
      BY <3>1, <3>2, <3>3
    <3>5. made' \in [Domains -> Gens]
      BY <3>1 DEF StripeTyped, Gens
    <3> QED BY <2>3, <3>4, <3>5, UpdatedTyped DEF Turn, StripeTyped, Event
  <2> QED BY <2>1, <2>2, <2>3
<1> QED BY <1>1, <1>2, SameTyped DEF Turn

\* The end of the whole subscription, restarts and stuttering.
LEMMA OthersTyped ==
  ASSUME TypeInv, Crash \/ \E ending \in BOOLEAN : EndAll(ending)
  PROVE  TypeInv'
<1> USE TypeParts
<1>1. CASE Crash
  <2>1. CallsTyped'
    BY <1>1, RestTyped DEF Crash, CallsTyped, ShapeOf, Idle
  <2>2. JobsTyped'
    BY <1>1, RestTyped DEF Crash, JobsTyped
  <2>3. BoundsTyped'
    BY <1>1, BoundsAssumption DEF Crash, Fault, BoundsTyped
  <2> QED BY <1>1, <2>1, <2>2, <2>3, SameTyped DEF Crash
<1>2. ASSUME NEW ending \in BOOLEAN, EndAll(ending)
      PROVE  TypeInv'
  <2>1. StripeTyped'
    BY <1>2, UpdatedTyped DEF EndAll, StripeTyped
  <2>2. BoundsTyped'
    BY <1>2, BoundsAssumption DEF EndAll, BoundsTyped, historyVars
  <2> QED BY <1>2, <2>1, <2>2, SameTyped DEF EndAll
<1> QED BY <1>1, <1>2

\* The initial state is typed.
LEMMA TypeInit == Init => TypeInv
<1> SUFFICES ASSUME Init PROVE TypeInv
  OBVIOUS
<1> USE TypeParts
<1> DEFINE plan == CHOOSE p \in Plans : TRUE
           joined == [NoRow EXCEPT !.state = "live", !.gen = 1, !.plan = plan]
<1>1. PICK on \in (SUBSET Domains) \ {{}} :
        /\ row = [d \in Domains |-> IF d \in on THEN joined ELSE NoRow]
        /\ items = {[dom |-> d, gen |-> 1, plan |-> plan, qty |-> 0] : d \in on}
        /\ made = [d \in Domains |-> IF d \in on THEN 1 ELSE 0]
  BY DEF Init
<1>2. plan \in Plans
  BY PlansAssumption
<1> HIDE DEF plan
<1>3. 0 \in Users /\ 0 \in Gens /\ 1 \in Gens /\ NoRow \in Row
  BY RestTyped, BoundsAssumption DEF Users, Gens
<1>4. joined \in Row
  BY <1>2, <1>3 DEF Row
<1>5. \A d \in on : [dom |-> d, gen |-> 1, plan |-> plan, qty |-> 0] \in Item
  BY <1>2, <1>3 DEF Item
<1> HIDE DEF joined
<1>6. /\ users = [d \in Domains |-> 0] /\ mail = [d \in Domains |-> TRUE]
      /\ next = {} /\ sub = "running" /\ events = {}
      /\ period = 0 /\ begun = 0 /\ faults = 0 /\ excused = {} /\ lost = FALSE
  BY DEF Init
<1>9. RowsTyped
  BY <1>1, <1>3, <1>4, <1>6 DEF RowsTyped
<1>10. StripeTyped
  <2>1. items \subseteq Item
    BY <1>1, <1>5
  <2>2. made \in [Domains -> Gens]
    BY <1>1, <1>3
  <2> QED BY <1>6, <2>1, <2>2 DEF StripeTyped
<1>7. CallsTyped /\ JobsTyped
  BY RestTyped DEF Init, CallsTyped, JobsTyped
<1>8. BoundsTyped
  <2>1. 0 \in 0..LastPeriod /\ 0 \in 0..MaxBegun /\ 0 \in 0..MaxFaults
    BY BoundsAssumption
  <2> QED BY <1>6, <2>1 DEF BoundsTyped
<1> QED BY <1>7, <1>8, <1>9, <1>10

\* Every step keeps the types.
LEMMA TypeStep == TypeInv /\ [Next]_vars => TypeInv'
<1> SUFFICES ASSUME TypeInv, [Next]_vars PROVE TypeInv'
  OBVIOUS
<1>1. ASSUME NEW c \in Calls, CallStep(c) PROVE TypeInv'
  BY <1>1, SelectTyped, AddTyped, UpgradeTyped, SyncTyped, CancelTyped DEF CallStep
<1>2. CASE UNCHANGED vars
  BY <1>2, SameTyped, TypeParts DEF vars
<1> QED BY <1>1, <1>2, BeginsTyped, HookTyped, NightTyped, TurnTyped, OthersTyped, QueueTyped DEF Next

(* Every call, the webhook, the queues and the nightly job keep their shape, *)
(* and rows, items and schedule theirs, whatever interleaving.               *)
THEOREM SubscriptionTyped == Spec => []TypeOK
<1>1. TypeInv => TypeOK
  BY DEF TypeInv
<1> QED BY <1>1, TypeInit, TypeStep, PTL DEF Spec

-----------------------------------------------------------------------------
(* What a call on a domain knows, and what the domain's mail waits for.      *)

\* Stripe's subscription has ended before its deletion is told.
Told == hook.at = "off" \/ (\E e \in events : e.kind = "deleted") => sub = "ended"

\* At most one call is on d.
Solo(d) == \A b, c \in Calls : op[b].dom = d /\ op[c].dom = d => b = c

\* A row in state s is still as call o found it.
Known(o, s) ==
    /\ o.kind = "select" => o.row.state \in {"none", "canceled"} /\ s = o.row.state
    /\ o.kind \in {"cancel", "delete"} =>
          /\ o.row.state \in {"live", "canceled"} /\ s \in {"live", "canceled"}
          /\ o.row.state = "canceled" => s = "canceled"
    /\ o.at = "off" \/ (o.kind = "select" /\ o.at = "stripe" /\ o.alone) => s = "canceled"

\* What the calls on d have read of its row is still so.
KnownState(d) == \A c \in Calls : op[c].dom = d => Known(op[c], row[d].state)

\* The webhook is about to stop d's mail.
HookStops(d) == hook.at = "off" /\ d \in hook.doms

\* Call o selects a plan and stands at this stage.
Selects(o, stage) == o.kind = "select" /\ o.at = stage

\* Call o will still set the mail.
Settles(o) == o.at = "off" \/ Selects(o, "save") \/ (Selects(o, "stripe") /\ o.alone)

\* The mail is as the row says, or whoever made it otherwise is about to set it.
MailKept(d) ==
    /\ row[d].state \in {"none", "live"} => mail[d]
    /\ HookStops(d) => row[d].state \in {"canceled", "gone"}
    /\ \A c \in Calls : op[c].dom = d =>
          /\ Selects(op[c], "save") => mail[d] /\ ~HookStops(d)
          /\ Selects(op[c], "stripe") /\ sub # "ended" =>
                mail[d] /\ (row[d].state = "canceled" => op[c].alone)
    /\ row[d].state = "canceled" =>
          ~mail[d] \/ HookStops(d) \/ \E c \in Calls : op[c].dom = d /\ Settles(op[c])

\* All of it for one domain; a fault ends what is promised.
MailOf(d) == Solo(d) /\ KnownState(d) /\ MailKept(d)
MailInv == faults = 0 => \A d \in Domains \ excused : MailOf(d)

-----------------------------------------------------------------------------
(* Steps, and the domains they are about. *)

\* A step takes call c to k.
Moves(c, k) == op' = [op EXCEPT ![c] = k]

\* It ends, or stays the same call.
Left(c, k) == k = Idle \/ (k.dom = op[c].dom /\ k.kind = op[c].kind)

\* A call changes nothing of other domains' rows and mail.
LEMMA CallMoves ==
  ASSUME TypeInv, NEW c \in Calls, CallStep(c)
  PROVE  /\ op[c] # Idle /\ op[c] \in Op /\ op[c].dom \in Domains
         /\ \E k \in Op : Moves(c, k) /\ Left(c, k)
         /\ \A e \in Domains \ {op[c].dom} : row'[e] = row[e] /\ mail'[e] = mail[e]
         /\ hook' = hook /\ (sub = "ended" => sub' = "ended")
         /\ excused \subseteq excused' /\ (faults' = faults \/ faults' = faults + 1)
<1>0. op[c] # Idle
  BY AtWork DEF CallStep, SelectCount, SelectAdd, SelectSave, MailOff, UpgradePush, UpgradeSave,
     DowngradeSave, KeepSave, KeepRestore, SyncRead, SyncWrite, CancelStripe, CancelSave,
     DeleteStripe, DeleteRow, At
<1>1. op[c] \in Op /\ op[c].dom \in Domains /\ ShapeOf(op[c])
  BY <1>0, UnderWay DEF TypeInv
<1>2. Finish(c) => \E k \in Op : Moves(c, k) /\ Left(c, k)
  BY RestTyped DEF Finish, Moves, Left
<1>3. ASSUME NEW s \in {"off", "save", "read", "write", "restore"}, Goto(c, s)
      PROVE  \E k \in Op : Moves(c, k) /\ Left(c, k)
  <2>1. [op[c] EXCEPT !.at = s] \in Op
    BY <1>1, OpTyped
  <2>2. Moves(c, [op[c] EXCEPT !.at = s])
    BY <1>3 DEF Goto, Moves
  <2>3. Left(c, [op[c] EXCEPT !.at = s])
    BY <1>1, OpTyped DEF Left
  <2> QED BY <2>1, <2>2, <2>3
<1>4. \E k \in Op : Moves(c, k) /\ Left(c, k)
  <2>1. CASE SelectCount(c)
    <3>1. CASE ~HasEnded
      <4>1. PICK a \in BOOLEAN, n \in Users :
               op' = [op EXCEPT ![c] = [op[c] EXCEPT !.at = "stripe", !.alone = a, !.qty = n]]
        BY <2>1, <3>1, CountMoves
      <4> DEFINE k == [op[c] EXCEPT !.at = "stripe", !.alone = a, !.qty = n]
      <4>2. k \in Op /\ k.dom = op[c].dom /\ k.kind = op[c].kind
        BY <1>1 DEF Op
      <4> QED BY <4>1, <4>2 DEF Moves, Left
    <3> QED BY <1>2, <2>1, <3>1 DEF SelectCount
  <2>2. CASE SelectAdd(c)
    <3>1. CASE op' = [op EXCEPT ![c].at = "save", ![c].row.gen = made[op[c].dom] + 1]
      <4>1. made[op[c].dom] + 1 \in Gens
        BY <1>1 DEF TypeInv, TypeOK, Gens
      <4>2. PICK r \in Row : op' = [op EXCEPT ![c] = [op[c] EXCEPT !.at = "save", !.row = r]]
        BY <1>0, <3>1, <4>1, AddMoves
      <4> DEFINE k == [op[c] EXCEPT !.at = "save", !.row = r]
      <4>3. k \in Op /\ k.dom = op[c].dom /\ k.kind = op[c].kind
        BY <1>1 DEF Op
      <4> QED BY <4>2, <4>3 DEF Moves, Left
    <3> QED BY <1>2, <1>3, <2>2, <3>1 DEF SelectAdd
  <2>3. CASE SyncRead(c)
    <3>1. PendingRows \subseteq Pending
          /\ op' = [op EXCEPT ![c] = [op[c] EXCEPT !.at = "write", !.pend = PendingRows]]
      BY <2>3, ReadMoves
    <3> DEFINE k == [op[c] EXCEPT !.at = "write", !.pend = PendingRows]
    <3>2. k \in Op /\ k.dom = op[c].dom /\ k.kind = op[c].kind
      BY <1>1, <3>1 DEF Op
    <3> QED BY <3>1, <3>2 DEF Moves, Left
  <2>4. CASE SelectSave(c) \/ MailOff(c) \/ KeepRestore(c) \/ DeleteRow(c)
    BY <1>2, <2>4 DEF SelectSave, MailOff, KeepRestore, DeleteRow
  <2>5. CASE UpgradePush(c) \/ UpgradeSave(c) \/ DowngradeSave(c) \/ KeepSave(c) \/ SyncWrite(c)
    BY <1>2, <1>3, <2>5 DEF UpgradePush, UpgradeSave, DowngradeSave, KeepSave, SyncWrite
  <2>6. CASE CancelStripe(c) \/ CancelSave(c) \/ DeleteStripe(c)
    BY <1>2, <1>3, <2>6 DEF CancelStripe, CancelSave, AfterCancel, DeleteStripe
  <2> QED BY <2>1, <2>2, <2>3, <2>4, <2>5, <2>6 DEF CallStep
<1>5. \A e \in Domains \ {op[c].dom} : row'[e] = row[e] /\ mail'[e] = mail[e]
  <2>0. row \in [Domains -> Row] /\ mail \in [Domains -> BOOLEAN]
    BY DEF TypeInv, TypeOK
  <2>1. CASE SelectCount(c) \/ SelectAdd(c) \/ SelectSave(c) \/ MailOff(c)
    BY <1>1, <2>0, <2>1 DEF SelectCount, SelectAdd, SelectSave, MailOff, rowVars
  <2>2. CASE UpgradePush(c) \/ UpgradeSave(c) \/ DowngradeSave(c) \/ KeepSave(c) \/ KeepRestore(c)
    BY <1>1, <2>0, <2>2
    DEF UpgradePush, UpgradeSave, DowngradeSave, KeepSave, KeepRestore, SaveRow, rowVars
  <2>3. CASE SyncRead(c) \/ SyncWrite(c) \/ CancelStripe(c) \/ DeleteStripe(c)
    BY <2>3 DEF SyncRead, SyncWrite, CancelStripe, DeleteStripe, rowVars
  <2>4. CASE CancelSave(c) \/ DeleteRow(c)
    BY <1>1, <2>0, <2>4 DEF CancelSave, DeleteRow, SaveRow
  <2> QED BY <2>1, <2>2, <2>3, <2>4 DEF CallStep
<1>6. hook' = hook /\ (sub = "ended" => sub' = "ended")
  BY DEF CallStep, SelectCount, SelectAdd, SelectSave, MailOff, UpgradePush, UpgradeSave,
     DowngradeSave, KeepSave, KeepRestore, SyncRead, SyncWrite, CancelStripe, CancelSave,
     DeleteStripe, DeleteRow, SetItems, Ended, Rebuild, jobVars, stripeVars
<1>7. excused \subseteq excused' /\ (faults' = faults \/ faults' = faults + 1)
  BY DEF CallStep, SelectCount, SelectAdd, SelectSave, MailOff, UpgradePush, UpgradeSave,
     DowngradeSave, KeepSave, KeepRestore, SyncRead, SyncWrite, CancelStripe, CancelSave,
     DeleteStripe, DeleteRow, Fault, NoFault, boundVars, historyVars
<1> QED BY <1>0, <1>1, <1>4, <1>5, <1>6, <1>7

-----------------------------------------------------------------------------
(* MailInv, domain by domain. *)

\* What does not touch d leaves it as it was.
LEMMA MailFrame ==
  ASSUME NEW d \in Domains, MailOf(d), row'[d].state = row[d].state, mail'[d] = mail[d],
         \A b \in Calls : op[b].dom = d \/ op'[b].dom = d => op'[b] = op[b],
         HookStops(d)' <=> HookStops(d), sub = "ended" => sub' = "ended"
  PROVE  MailOf(d)'
<1>1. Solo(d)'
  BY DEF MailOf, Solo
<1>2. KnownState(d)'
  <2> SUFFICES ASSUME NEW b \in Calls, op'[b].dom = d PROVE Known(op'[b], row'[d].state)
    BY DEF KnownState, Known
  <2> QED BY DEF MailOf, KnownState
<1>3. MailKept(d)'
  <2>1. \A b \in Calls : op'[b].dom = d =>
            /\ Selects(op'[b], "save") => mail'[d] /\ ~HookStops(d)'
            /\ Selects(op'[b], "stripe") /\ sub' # "ended" =>
                  mail'[d] /\ (row'[d].state = "canceled" => op'[b].alone)
    BY DEF MailOf, MailKept
  <2>2. row'[d].state = "canceled" =>
          ~mail'[d] \/ HookStops(d)' \/ \E b \in Calls : op'[b].dom = d /\ Settles(op'[b])
    BY DEF MailOf, MailKept
  <2>3. /\ row'[d].state \in {"none", "live"} => mail'[d]
        /\ HookStops(d)' => row'[d].state \in {"canceled", "gone"}
    BY DEF MailOf, MailKept
  <2> QED BY <2>1, <2>2, <2>3 DEF MailKept, Selects, Settles
<1> QED BY <1>1, <1>2, <1>3 DEF MailOf

\* A step of the only call on d, which goes to k: what has to be shown of k.
LEMMA MailOwn ==
  ASSUME TypeInv, NEW c \in Calls, NEW d \in Domains, op[c].dom = d, MailOf(d), NEW k \in Op,
         Moves(c, k), k.dom = d \/ k = Idle, hook' = hook,
         k.dom = d => Known(k, row'[d].state),
         row'[d].state \in {"none", "live"} => mail'[d],
         HookStops(d) => row'[d].state \in {"canceled", "gone"},
         k.dom = d /\ Selects(k, "save") => mail'[d] /\ ~HookStops(d),
         k.dom = d /\ Selects(k, "stripe") /\ sub' # "ended" =>
             mail'[d] /\ (row'[d].state = "canceled" => k.alone),
         row'[d].state = "canceled" =>
             ~mail'[d] \/ HookStops(d) \/ (k.dom = d /\ Settles(k))
  PROVE  MailOf(d)'
<1>1. \A b \in Calls : op'[b].dom = d => b = c /\ op'[b] = k
  BY DEF Moves, MailOf, Solo, TypeInv, TypeOK
<1>2. op'[c] = k
  BY DEF Moves, TypeInv, TypeOK
<1>3. HookStops(d)' <=> HookStops(d)
  BY DEF HookStops
<1>4. Solo(d)'
  BY <1>1 DEF Solo
<1>5. KnownState(d)'
  <2> SUFFICES ASSUME NEW b \in Calls, op'[b].dom = d PROVE Known(op'[b], row'[d].state)
    BY DEF KnownState, Known
  <2> QED BY <1>1
<1>6. MailKept(d)'
  <2>1. \A b \in Calls : op'[b].dom = d =>
            /\ Selects(op'[b], "save") => mail'[d] /\ ~HookStops(d)'
            /\ Selects(op'[b], "stripe") /\ sub' # "ended" =>
                  mail'[d] /\ (row'[d].state = "canceled" => op'[b].alone)
    BY <1>1, <1>3
  <2>2. row'[d].state = "canceled" =>
          ~mail'[d] \/ HookStops(d)' \/ \E b \in Calls : op'[b].dom = d /\ Settles(op'[b])
    BY <1>2, <1>3
  <2>3. /\ row'[d].state \in {"none", "live"} => mail'[d]
        /\ HookStops(d)' => row'[d].state \in {"canceled", "gone"}
    BY <1>3
  <2> QED BY <2>1, <2>2, <2>3 DEF MailKept, Selects, Settles
<1> QED BY <1>4, <1>5, <1>6 DEF MailOf

\* The call on d that takes a step, with what MailOf says of it.
LEMMA OwnFacts ==
  ASSUME TypeInv, NEW c \in Calls, NEW d \in Domains, op[c].dom = d, MailOf(d)
  PROVE  /\ op[c] \in Op /\ op[c].row \in Row /\ row[d] \in Row /\ mail[d] \in BOOLEAN
         /\ Known(op[c], row[d].state)
         /\ row[d].state \in {"none", "live"} => mail[d]
         /\ HookStops(d) => row[d].state \in {"canceled", "gone"}
         /\ Selects(op[c], "save") => mail[d] /\ ~HookStops(d)
         /\ Selects(op[c], "stripe") /\ sub # "ended" =>
               mail[d] /\ (row[d].state = "canceled" => op[c].alone)
         /\ row[d].state = "canceled" => ~mail[d] \/ HookStops(d) \/ Settles(op[c])
<1>1. op[c] \in Op /\ op[c].row \in Row /\ row[d] \in Row /\ mail[d] \in BOOLEAN
  BY OpTyped DEF TypeInv, TypeOK
<1>2. Known(op[c], row[d].state)
  BY DEF MailOf, KnownState
<1>3. \A b \in Calls : op[b].dom = d => b = c
  BY DEF MailOf, Solo
<1>4. row[d].state = "canceled" => ~mail[d] \/ HookStops(d) \/ Settles(op[c])
  BY <1>3 DEF MailOf, MailKept
<1>5. /\ row[d].state \in {"none", "live"} => mail[d]
      /\ HookStops(d) => row[d].state \in {"canceled", "gone"}
      /\ Selects(op[c], "save") => mail[d] /\ ~HookStops(d)
      /\ Selects(op[c], "stripe") /\ sub # "ended" =>
            mail[d] /\ (row[d].state = "canceled" => op[c].alone)
  BY DEF MailOf, MailKept
<1> QED BY <1>1, <1>2, <1>4, <1>5

\* A call that goes to another stage is otherwise the same.
LEMMA GotoMoves ==
  ASSUME TypeInv, NEW c \in Calls, op[c] # Idle,
         NEW s \in {"off", "save", "read", "write", "restore"}, Goto(c, s)
  PROVE  \E k \in Op : /\ Moves(c, k) /\ k.at = s
                       /\ k.kind = op[c].kind /\ k.dom = op[c].dom /\ k.plan = op[c].plan
                       /\ k.row = op[c].row /\ k.alone = op[c].alone /\ k.pend = op[c].pend
<1>1. op[c] \in Op
  BY UnderWay
<1> DEFINE k == [op[c] EXCEPT !.at = s]
<1>2. k \in Op
  BY <1>1, OpTyped
<1>3. Moves(c, k)
  BY DEF Goto, Moves
<1>4. /\ k.at = s /\ k.kind = op[c].kind /\ k.dom = op[c].dom /\ k.plan = op[c].plan
      /\ k.row = op[c].row /\ k.alone = op[c].alone /\ k.pend = op[c].pend
  BY <1>1 DEF Op
<1> HIDE DEF k
<1> QED BY <1>2, <1>3, <1>4

\* A call that is over moves to rest.
LEMMA FinishMoves ==
  ASSUME NEW c \in Calls, Finish(c)
  PROVE  Moves(c, Idle) /\ Idle \in Op
BY RestTyped DEF Finish, Moves

\* A call that finishes: nothing is left on d.
LEMMA MailEnds ==
  ASSUME TypeInv, NEW c \in Calls, NEW d \in Domains, op[c].dom = d, MailOf(d), Finish(c),
         hook' = hook, row'[d].state \in {"none", "live"} => mail'[d],
         HookStops(d) => row'[d].state \in {"canceled", "gone"},
         row'[d].state = "canceled" => ~mail'[d] \/ HookStops(d)
  PROVE  MailOf(d)'
<1>1. Idle.dom # d
  BY RestTyped
<1> QED BY <1>1, FinishMoves, MailOwn

\* A call that goes on with row and mail as they are, and settles nothing.
LEMMA MailGoesOn ==
  ASSUME TypeInv, NEW c \in Calls, NEW d \in Domains, op[c].dom = d, MailOf(d), NEW k \in Op,
         Moves(c, k), k.dom = d, k.kind = op[c].kind, k.row = op[c].row,
         hook' = hook, row'[d].state = row[d].state, mail'[d] = mail[d],
         ~Settles(op[c]), k.at # "off", ~Selects(k, "save"), ~Selects(k, "stripe")
  PROVE  MailOf(d)'
<1>1. Known(k, row'[d].state)
  BY OwnFacts DEF Known, Selects
<1> QED BY <1>1, OwnFacts, MailOwn

\* A domain that selects a plan.
LEMMA MailSelect ==
  ASSUME TypeInv, Told, NEW c \in Calls, NEW d \in Domains, op[c].dom = d, MailOf(d),
         SelectCount(c) \/ SelectAdd(c) \/ SelectSave(c) \/ MailOff(c)
  PROVE  MailOf(d)'
<1>0. /\ op[c] # Idle /\ op[c] \in Op /\ row[d] \in Row /\ mail[d] \in BOOLEAN
      /\ row \in [Domains -> Row] /\ mail \in [Domains -> BOOLEAN]
  BY AtWork, UnderWay DEF TypeInv, TypeOK
<1>1. CASE SelectCount(c)
  <2>1. Selects(op[c], "start") /\ hook' = hook /\ row' = row /\ sub' = sub
    BY <1>1 DEF SelectCount, At, Selects, jobVars, stripeVars
  <2>2. ~Settles(op[c])
    BY <2>1 DEF Settles, Selects
  <2>3. CASE HasEnded
    <3>1. Finish(c) /\ mail' = mail
      BY <1>1, <2>3 DEF SelectCount
    <3> QED BY <2>1, <2>2, <3>1, OwnFacts, MailEnds
  <2>4. CASE ~HasEnded
    <3> DEFINE revived == op[c].row.state = "canceled"
    <3>1. mail'[d] = (mail[d] \/ revived)
      BY <1>0, <1>1, <2>4 DEF SelectCount
    <3>2. PICK n \in Users :
            op' = [op EXCEPT ![c] = [op[c] EXCEPT !.at = "stripe", !.alone = revived /\ ~mail[d], !.qty = n]]
      <4>1. users[d] \in Users /\ 0 \in Users
        BY BoundsAssumption DEF TypeInv, TypeOK, Users
      <4> DEFINE n == IF mail[d] \/ revived THEN users[d] ELSE 0
                 a == revived /\ ~mail[d]
      <4>2. op' = [op EXCEPT ![c].at = "stripe", ![c].alone = a, ![c].qty = n]
        BY <1>1, <2>4 DEF SelectCount
      <4>3. op \in [Calls -> Op] /\ n \in Users
        BY <4>1 DEF TypeInv, TypeOK
      <4> HIDE DEF a, n
      <4>4. op' = [op EXCEPT ![c] = [op[c] EXCEPT !.at = "stripe", !.alone = a, !.qty = n]]
        BY <4>2, <4>3
      <4> QED BY <4>3, <4>4 DEF a
    <3> DEFINE k == [op[c] EXCEPT !.at = "stripe", !.alone = revived /\ ~mail[d], !.qty = n]
    <3>3. /\ k \in Op /\ k.dom = d /\ k.kind = "select" /\ k.row = op[c].row /\ k.at = "stripe"
          /\ k.alone <=> revived /\ ~mail[d]
      BY <1>0, <2>1 DEF Op, Selects
    <3>4. Moves(c, k)
      BY <3>2 DEF Moves
    <3> HIDE DEF k
    <3>5. /\ op[c].row.state \in {"none", "canceled"} /\ row[d].state = op[c].row.state
          /\ row[d].state = "none" => mail[d]
          /\ HookStops(d) => row[d].state \in {"canceled", "gone"} /\ sub = "ended"
          /\ row[d].state = "canceled" => ~mail[d] \/ HookStops(d)
      BY <2>1, <2>2, OwnFacts DEF Known, Selects, HookStops, Told
    <3>6. Known(k, row'[d].state)
      BY <2>1, <3>3, <3>5 DEF Known
    <3>7. mail'[d]
      BY <3>1, <3>5
    <3>8. row'[d].state = "canceled" => HookStops(d) \/ Settles(k)
      BY <2>1, <3>3, <3>5 DEF Settles, Selects
    <3>9. ~Selects(k, "save")
      BY <3>3 DEF Selects
    <3>10. sub' # "ended" /\ row'[d].state = "canceled" => k.alone
      BY <2>1, <3>3, <3>5
    <3> QED BY <2>1, <3>3, <3>4, <3>5, <3>6, <3>7, <3>8, <3>9, <3>10, MailOwn
  <2> QED BY <2>3, <2>4
<1>2. CASE SelectAdd(c)
  <2>1. Selects(op[c], "stripe") /\ hook' = hook /\ row' = row /\ mail' = mail /\ sub' = sub
    BY <1>2 DEF SelectAdd, At, Selects, jobVars, rowVars
  <2>2. ~HookStops(d) \/ sub = "ended"
    BY DEF HookStops, Told
  <2>3. Known(op[c], row[d].state) /\ row[d].state = op[c].row.state
    BY <2>1, OwnFacts DEF Known, Selects
  <2>4. CASE sub # "ended" /\ op' = [op EXCEPT ![c].at = "save", ![c].row.gen = made[d] + 1]
    <3>1. made[d] + 1 \in Gens
      BY DEF TypeInv, TypeOK, Gens
    <3> DEFINE r == [op[c].row EXCEPT !.gen = made[d] + 1]
               k == [op[c] EXCEPT !.at = "save", !.row = r]
    <3>0. op[c].row \in Row
      BY <1>0, OpTyped
    <3>2. r \in Row /\ r.state = op[c].row.state
      BY <3>0, <3>1 DEF Row
    <3>3. op' = [op EXCEPT ![c] = k]
      BY <1>0, <3>1, <2>4, AddMoves
    <3> HIDE DEF r
    <3>4. k \in Op /\ k.dom = d /\ k.kind = "select" /\ k.row = r /\ k.at = "save"
      BY <1>0, <2>1, <3>2 DEF Op, Selects
    <3> HIDE DEF k
    <3>5. Known(k, row'[d].state)
      BY <2>1, <2>3, <3>2, <3>4 DEF Known, Selects
    <3>6. Settles(k) /\ ~Selects(k, "stripe")
      BY <3>4 DEF Settles, Selects
    <3>7. mail'[d]
      BY <2>1, <2>4, OwnFacts
    <3> QED BY <2>1, <2>2, <2>4, <3>3, <3>4, <3>5, <3>6, <3>7, OwnFacts, MailOwn DEF Moves
  <2>5. CASE op[c].alone /\ Goto(c, "off")
    <3>1. PICK k \in Op : Moves(c, k) /\ k.at = "off" /\ k.kind = op[c].kind /\ k.dom = op[c].dom
                          /\ k.row = op[c].row
      BY <1>0, <2>5, GotoMoves
    <3>2. row[d].state = "canceled"
      BY <2>1, <2>5, OwnFacts DEF Known, Selects
    <3>3. Known(k, row'[d].state)
      BY <2>1, <2>3, <3>1, <3>2 DEF Known, Selects
    <3>4. Settles(k) /\ ~Selects(k, "save") /\ ~Selects(k, "stripe")
      BY <3>1 DEF Settles, Selects
    <3> QED BY <2>1, <3>1, <3>2, <3>3, <3>4, OwnFacts, MailOwn
  <2>6. CASE ~op[c].alone /\ Finish(c)
    <3>1. row[d].state = "canceled" => ~mail[d] \/ HookStops(d)
      BY <2>1, <2>6, OwnFacts DEF Settles, Selects
    <3> QED BY <2>1, <2>6, <3>1, OwnFacts, MailEnds
  <2> QED BY <1>2, <2>4, <2>5, <2>6 DEF SelectAdd
<1>3. CASE SelectSave(c)
  <2>1. Selects(op[c], "save") /\ hook' = hook /\ mail' = mail /\ row'[d].state = "live" /\ Finish(c)
    BY <1>0, <1>3 DEF SelectSave, At, Selects, jobVars, Row
  <2>2. mail[d] /\ ~HookStops(d)
    BY <2>1, OwnFacts
  <2> QED BY <2>1, <2>2, MailEnds
<1>4. CASE MailOff(c)
  <2>1. op[c].at = "off" /\ hook' = hook /\ row' = row /\ mail'[d] = FALSE /\ Finish(c)
    BY <1>0, <1>4 DEF MailOff, jobVars
  <2>2. row[d].state = "canceled"
    BY <2>1, OwnFacts DEF Known
  <2> QED BY <2>1, <2>2, MailEnds
<1> QED BY <1>1, <1>2, <1>3, <1>4

\* A domain that changes its plan, or whose schedule is rebuilt.
LEMMA MailPlans ==
  ASSUME TypeInv, NEW c \in Calls, NEW d \in Domains, op[c].dom = d, MailOf(d),
         UpgradePush(c) \/ UpgradeSave(c) \/ DowngradeSave(c) \/ KeepSave(c) \/ KeepRestore(c)
           \/ SyncRead(c) \/ SyncWrite(c)
  PROVE  MailOf(d)'
<1>0. /\ op[c] # Idle /\ op[c] \in Op /\ row[d] \in Row
      /\ row \in [Domains -> Row] /\ op \in [Calls -> Op]
  BY AtWork, UnderWay DEF TypeInv, TypeOK
<1>1. ~Settles(op[c])
  BY DEF UpgradePush, UpgradeSave, DowngradeSave, KeepSave, KeepRestore, SyncRead, SyncWrite, At,
     Settles, Selects
<1>2. hook' = hook /\ mail' = mail
  BY DEF UpgradePush, UpgradeSave, DowngradeSave, KeepSave, KeepRestore, SyncRead, SyncWrite,
     jobVars, rowVars
<1>3. row'[d].state = row[d].state
  <2>1. CASE UpgradePush(c) \/ SyncRead(c) \/ SyncWrite(c)
    BY <2>1 DEF UpgradePush, SyncRead, SyncWrite, rowVars
  <2>2. ASSUME NEW r \in Row, r.state = row[d].state, SaveRow(d, r)
        PROVE  row'[d].state = row[d].state
    BY <1>0, <2>2 DEF SaveRow
  <2>3. CASE UpgradeSave(c)
    <3> DEFINE r == [row[d] EXCEPT
                 !.plan = IF op[c].plan = op[c].row.plan THEN @ ELSE op[c].plan,
                 !.pending = IF op[c].row.pending # None THEN None ELSE @]
    <3>1. r \in Row /\ r.state = row[d].state
      BY <1>0, OpTyped DEF Row
    <3>2. SaveRow(d, r)
      BY <2>3 DEF UpgradeSave
    <3> HIDE DEF r
    <3> QED BY <2>2, <3>1, <3>2
  <2>4. ASSUME NEW p \in Plans \cup {None}, SaveRow(d, [row[d] EXCEPT !.pending = p])
        PROVE  row'[d].state = row[d].state
    <3> DEFINE r == [row[d] EXCEPT !.pending = p]
    <3>1. r \in Row /\ r.state = row[d].state
      BY <1>0 DEF Row
    <3>2. SaveRow(d, r)
      BY <2>4
    <3> HIDE DEF r
    <3> QED BY <2>2, <3>1, <3>2
  <2>5. op[c].plan \in Plans \cup {None} /\ op[c].row.pending \in Plans \cup {None}
    BY <1>0, OpTyped, RowTyped
  <2>6. CASE DowngradeSave(c) \/ KeepSave(c) \/ KeepRestore(c)
    BY <2>4, <2>5, <2>6 DEF DowngradeSave, KeepSave, KeepRestore
  <2> QED BY <2>1, <2>3, <2>6
<1>4. ASSUME Finish(c) PROVE MailOf(d)'
  BY <1>1, <1>2, <1>3, <1>4, OwnFacts, MailEnds
<1>5. ASSUME NEW t \in {"save", "read", "write", "restore"}, Goto(c, t),
             op[c].kind # "select" \/ t # "save"
      PROVE  MailOf(d)'
  <2>1. PICK k \in Op : Moves(c, k) /\ k.at = t /\ k.kind = op[c].kind /\ k.dom = op[c].dom
                        /\ k.row = op[c].row
    BY <1>0, <1>5, GotoMoves
  <2>2. k.at # "off" /\ ~Selects(k, "save") /\ ~Selects(k, "stripe")
    BY <1>5, <2>1 DEF Selects
  <2> QED BY <1>1, <1>2, <1>3, <2>1, <2>2, MailGoesOn
<1>6. CASE SyncRead(c)
  <2>1. /\ PendingRows \subseteq Pending
        /\ op' = [op EXCEPT ![c] = [op[c] EXCEPT !.at = "write", !.pend = PendingRows]]
    BY <1>6, ReadMoves
  <2> DEFINE k == [op[c] EXCEPT !.at = "write", !.pend = PendingRows]
  <2>2. k \in Op /\ k.at = "write" /\ k.kind = op[c].kind /\ k.dom = op[c].dom /\ k.row = op[c].row
    BY <1>0, <2>1 DEF Op
  <2>3. Moves(c, k)
    BY <2>1 DEF Moves
  <2> HIDE DEF k
  <2>4. k.at # "off" /\ ~Selects(k, "save") /\ ~Selects(k, "stripe")
    BY <2>2 DEF Selects
  <2> QED BY <1>1, <1>2, <1>3, <2>2, <2>3, <2>4, MailGoesOn
<1>7. CASE SyncWrite(c)
  BY <1>4, <1>5, <1>7 DEF SyncWrite
<1>8. CASE UpgradePush(c) \/ UpgradeSave(c) \/ DowngradeSave(c) \/ KeepSave(c) \/ KeepRestore(c)
  BY <1>4, <1>5, <1>8 DEF UpgradePush, UpgradeSave, DowngradeSave, KeepSave, KeepRestore, At
<1> QED BY <1>6, <1>7, <1>8

\* A domain that is cancelled or deleted.
LEMMA MailLeaves ==
  ASSUME TypeInv, NEW c \in Calls, NEW d \in Domains, op[c].dom = d, MailOf(d),
         CancelStripe(c) \/ CancelSave(c) \/ DeleteStripe(c) \/ DeleteRow(c)
  PROVE  MailOf(d)'
<1>0. /\ op[c] # Idle /\ op[c] \in Op /\ row[d] \in Row
      /\ row \in [Domains -> Row] /\ op \in [Calls -> Op]
  BY AtWork, UnderWay DEF CancelStripe, CancelSave, DeleteStripe, DeleteRow, At, TypeInv, TypeOK
<1>1. ~Settles(op[c]) /\ op[c].kind \in {"cancel", "delete"}
  BY DEF CancelStripe, CancelSave, DeleteStripe, DeleteRow, At, Settles, Selects
<1>2. hook' = hook /\ mail' = mail
  BY DEF CancelStripe, CancelSave, DeleteStripe, DeleteRow, jobVars, rowVars
<1>3. CASE CancelStripe(c) \/ DeleteStripe(c)
  <2>1. Goto(c, "save") /\ row' = row
    BY <1>3 DEF CancelStripe, DeleteStripe, rowVars
  <2>2. PICK k \in Op : Moves(c, k) /\ k.at = "save" /\ k.kind = op[c].kind /\ k.dom = op[c].dom
                        /\ k.row = op[c].row
    BY <1>0, <2>1, GotoMoves
  <2>3. k.at # "off" /\ ~Selects(k, "save") /\ ~Selects(k, "stripe")
    BY <1>1, <2>2 DEF Selects
  <2> QED BY <1>1, <1>2, <2>1, <2>2, <2>3, MailGoesOn
<1>4. CASE CancelSave(c) /\ Finish(c) /\ row' = row
  BY <1>1, <1>2, <1>4, OwnFacts, MailEnds
<1>5. CASE CancelSave(c) /\ row[d].state # "gone" /\ Goto(c, "off")
           /\ row' = [row EXCEPT ![d] = [row[d] EXCEPT !.state =
                          IF op[c].row.state = "canceled" THEN @ ELSE "canceled"]]
  <2>1. PICK k \in Op : Moves(c, k) /\ k.at = "off" /\ k.kind = op[c].kind /\ k.dom = op[c].dom
                        /\ k.row = op[c].row
    BY <1>0, <1>5, GotoMoves
  <2>2. /\ op[c].row.state = "canceled" => row[d].state = "canceled"
        /\ op[c].row.state \in {"live", "canceled"}
    BY <1>1, OwnFacts DEF Known
  <2>3. row'[d].state = "canceled"
    BY <1>0, <1>5, <2>2 DEF Row
  <2>4. Known(k, row'[d].state)
    BY <1>1, <2>1, <2>2, <2>3 DEF Known
  <2>5. Settles(k) /\ ~Selects(k, "save") /\ ~Selects(k, "stripe")
    BY <2>1 DEF Settles, Selects
  <2> QED BY <1>2, <2>1, <2>3, <2>4, <2>5, MailOwn
<1>6. CASE DeleteRow(c)
  <2>1. row'[d].state = "gone" /\ Finish(c)
    BY <1>0, <1>6 DEF DeleteRow, NoRow
  <2> QED BY <1>2, <2>1, MailEnds
<1> QED BY <1>3, <1>4, <1>5, <1>6 DEF CancelSave, AfterCancel, SaveRow

\* Any step of the only call on d.
LEMMA MailStepOwn ==
  ASSUME TypeInv, Told, NEW c \in Calls, NEW d \in Domains, op[c].dom = d, MailOf(d), CallStep(c)
  PROVE  MailOf(d)'
BY MailSelect, MailPlans, MailLeaves DEF CallStep

\* What other domains' calls do leaves d as it was.
LEMMA MailOther ==
  ASSUME TypeInv, NEW c \in Calls, NEW k \in Op, Moves(c, k), NEW d \in Domains, op[c].dom # d,
         k.dom # d, MailOf(d), row'[d].state = row[d].state, mail'[d] = mail[d], hook' = hook,
         sub = "ended" => sub' = "ended"
  PROVE  MailOf(d)'
<1>1. \A b \in Calls : op[b].dom = d \/ op'[b].dom = d => op'[b] = op[b]
  BY DEF Moves, TypeInv, TypeOK
<1>2. HookStops(d)' <=> HookStops(d)
  BY DEF HookStops
<1> QED BY <1>1, <1>2, MailFrame

\* What no call takes part in leaves d as it was.
LEMMA MailSame ==
  ASSUME NEW d \in Domains, MailOf(d), row'[d].state = row[d].state, mail'[d] = mail[d],
         op' = op, HookStops(d)' <=> HookStops(d), sub = "ended" => sub' = "ended"
  PROVE  MailOf(d)'
BY MailFrame

\* The first call on d begins, and knows the row it read.
LEMMA MailNew ==
  ASSUME TypeInv, NEW c \in Calls, NEW k \in Op, Moves(c, k), NEW d \in Domains, k.dom = d,
         \A b \in Calls : op[b].dom # d, MailOf(d), row' = row, mail' = mail, hook' = hook,
         Known(k, row[d].state), ~Selects(k, "save"), ~Selects(k, "stripe")
  PROVE  MailOf(d)'
<1>1. \A b \in Calls : op'[b].dom = d => b = c /\ op'[b] = k
  BY DEF Moves, TypeInv, TypeOK
<1>2. HookStops(d)' <=> HookStops(d)
  BY DEF HookStops
<1>3. Solo(d)'
  BY <1>1 DEF Solo
<1>4. KnownState(d)'
  <2> SUFFICES ASSUME NEW b \in Calls, op'[b].dom = d PROVE Known(op'[b], row'[d].state)
    BY DEF KnownState, Known
  <2> QED BY <1>1
<1>5. MailKept(d)'
  <2>1. \A b \in Calls : op'[b].dom = d =>
            /\ Selects(op'[b], "save") => mail'[d] /\ ~HookStops(d)'
            /\ Selects(op'[b], "stripe") /\ sub' # "ended" =>
                  mail'[d] /\ (row'[d].state = "canceled" => op'[b].alone)
    BY <1>1
  <2>2. row'[d].state = "canceled" =>
          ~mail'[d] \/ HookStops(d)' \/ \E b \in Calls : op'[b].dom = d /\ Settles(op'[b])
    BY <1>2 DEF MailOf, MailKept
  <2>3. /\ row'[d].state \in {"none", "live"} => mail'[d]
        /\ HookStops(d)' => row'[d].state \in {"canceled", "gone"}
    BY <1>2 DEF MailOf, MailKept
  <2> QED BY <2>1, <2>2, <2>3 DEF MailKept, Selects, Settles
<1> QED BY <1>3, <1>4, <1>5 DEF MailOf

\* What a call has read when it begins, and which domain is excused for it.
LEMMA BeginMoves ==
  ASSUME TypeInv, NEW c \in Calls, NEW d \in Domains,
         NEW kind \in {"select", "upgrade", "downgrade", "keep", "cancel", "delete"},
         NEW p \in Plans \cup {None}, NEW s \in {"start", "stripe", "save"},
         Begin(c, kind, d, p, s)
  PROVE  /\ op[c] = Idle
         /\ \E k \in Op : /\ Moves(c, k) /\ k.kind = kind /\ k.dom = d /\ k.at = s /\ k.plan = p
                          /\ k.row = row[d] /\ k.alone = Alone(d) /\ k.pend = {}
         /\ excused \subseteq excused' /\ faults' = faults /\ UNCHANGED <<rowVars, stripeVars, hook>>
         /\ d \notin excused' => ~Turning /\ \A b \in Calls : op[b].dom # d
<1> DEFINE k == [Idle EXCEPT !.kind = kind, !.dom = d, !.at = s, !.plan = p, !.row = row[d],
                    !.alone = Alone(d), !.qty = Active(d)]
<1>1. row[d] \in Row /\ Active(d) \in Users /\ Alone(d) \in BOOLEAN
  BY BoundsAssumption DEF TypeInv, TypeOK, Active, Alone, Users
<1>2. /\ k \in Op /\ k.kind = kind /\ k.dom = d /\ k.at = s /\ k.plan = p /\ k.row = row[d]
      /\ k.alone = Alone(d) /\ k.pend = {}
  BY <1>1, RestTyped DEF Op, Idle
<1>3. Moves(c, k) /\ op[c] = Idle
  BY DEF Begin, Moves
<1> HIDE DEF k
<1>4. excused \subseteq excused' /\ faults' = faults /\ UNCHANGED <<rowVars, stripeVars, hook>>
  BY DEF Begin, jobVars
<1>5. d \notin excused' => ~Turning /\ \A b \in Calls : op[b].dom # d
  BY DEF Begin
<1> QED BY <1>2, <1>3, <1>4, <1>5

\* Any call that begins.
LEMMA MailBegins ==
  ASSUME TypeInv, MailInv, NEW c \in Calls, NEW d \in Domains, BeginCall(c, d)
  PROVE  MailInv'
<1>1. ASSUME NEW kind \in {"select", "upgrade", "downgrade", "keep", "cancel", "delete"},
             NEW p \in Plans \cup {None}, NEW s \in {"start", "stripe", "save"},
             Begin(c, kind, d, p, s),
             kind = "select" => s = "start" /\ row[d].state \in {"none", "canceled"},
             kind \in {"cancel", "delete"} => row[d].state \in {"live", "canceled"}
      PROVE  MailInv'
  <2>1. PICK k \in Op : /\ Moves(c, k) /\ k.kind = kind /\ k.dom = d /\ k.at = s /\ k.row = row[d]
    BY <1>1, BeginMoves
  <2>2. /\ op[c] = Idle /\ excused \subseteq excused' /\ faults' = faults
        /\ row' = row /\ mail' = mail /\ hook' = hook /\ sub' = sub
        /\ d \notin excused' => \A b \in Calls : op[b].dom # d
    BY <1>1, BeginMoves DEF rowVars, stripeVars
  <2>3. ASSUME faults' = 0, NEW e \in Domains \ excused'
        PROVE  MailOf(e)'
    <3>1. MailOf(e)
      BY <2>2, <2>3 DEF MailInv
    <3>2. CASE e # d
      <4>1. op[c].dom # e
        BY <2>2, RestTyped
      <4> QED BY <2>1, <2>2, <3>1, <3>2, <4>1, MailOther
    <3>3. CASE e = d
      <4>1. Known(k, row[d].state) /\ ~Selects(k, "save") /\ ~Selects(k, "stripe")
        BY <1>1, <2>1 DEF Known, Selects
      <4> QED BY <2>1, <2>2, <3>1, <3>3, <4>1, MailNew
    <3> QED BY <3>2, <3>3
  <2> QED BY <2>3 DEF MailInv
<1>2. CASE Cancel(c, d) \/ Delete(c, d) \/ Keep(c, d)
  BY <1>1, <1>2 DEF Cancel, Delete, Keep
<1>3. CASE \E p \in Plans : Select(c, d, p) \/ Upgrade(c, d, p) \/ Downgrade(c, d, p)
  BY <1>1, <1>3 DEF Select, Upgrade, Downgrade
<1> QED BY <1>2, <1>3 DEF BeginCall

\* Any call's step.
LEMMA MailCalls ==
  ASSUME TypeInv, Told, MailInv, NEW c \in Calls, CallStep(c)
  PROVE  MailInv'
<1>1. PICK k \in Op : Moves(c, k) /\ Left(c, k)
  BY CallMoves
<1>2. /\ op[c].dom \in Domains
      /\ \A e \in Domains \ {op[c].dom} : row'[e] = row[e] /\ mail'[e] = mail[e]
      /\ hook' = hook /\ (sub = "ended" => sub' = "ended")
      /\ excused \subseteq excused' /\ (faults' = faults \/ faults' = faults + 1)
  BY CallMoves
<1>3. ASSUME faults' = 0, NEW d \in Domains \ excused'
      PROVE  MailOf(d)'
  <2>1. MailOf(d)
    BY <1>2, <1>3 DEF MailInv, TypeInv, TypeOK
  <2>2. CASE op[c].dom = d
    BY <2>1, <2>2, MailStepOwn
  <2>3. CASE op[c].dom # d
    <3>1. k.dom # d
      BY <1>1, <2>3, RestTyped DEF Left
    <3> QED BY <1>1, <1>2, <2>1, <2>3, <3>1, MailOther
  <2> QED BY <2>2, <2>3
<1> QED BY <1>3 DEF MailInv

\* The stages of the webhook.
LEMMA HookMoves ==
  ASSUME TypeInv
  PROVE  /\ Resting.at = "idle"
         /\ HookRead => hook.at = "read" /\ hook'.at = "write" /\ hook'.due = PendingRows
         /\ HookWrite => hook.at = "write" /\ hook' = Resting
         /\ HookApply => hook.at = "apply" /\ hook' = Resting
         /\ HookOff => hook.at = "off" /\ hook' = Resting
         /\ \A e : HookUpdated(e) => hook = Resting /\ (hook'.at = "read" \/ hook' = Resting)
         /\ \A e : HookRenewed(e) => hook = Resting /\ hook'.at = "apply" /\ hook'.due = PendingRows
         /\ \A e : HookDeleted(e) => /\ hook = Resting /\ hook'.at = "off"
                                     /\ hook'.doms = {d \in Domains : Live(d)}
<1>0. hook \in Hook /\ Resting \in Hook /\ Resting.at = "idle"
  BY RestTyped DEF TypeInv, TypeOK, Resting
<1>1. \A h \in Hook : /\ \A due : [h EXCEPT !.at = "write", !.due = due].at = "write"
                                 /\ [h EXCEPT !.at = "write", !.due = due].due = due
                      /\ \A due : [h EXCEPT !.at = "apply", !.due = due].at = "apply"
                                 /\ [h EXCEPT !.at = "apply", !.due = due].due = due
                      /\ \A doms : [h EXCEPT !.at = "off", !.doms = doms].at = "off"
                                 /\ [h EXCEPT !.at = "off", !.doms = doms].doms = doms
                      /\ [h EXCEPT !.at = "read"].at = "read"
  BY DEF Hook
<1>2. HookRead => hook.at = "read" /\ hook'.at = "write" /\ hook'.due = PendingRows
  BY <1>0, <1>1 DEF HookRead
<1>3. /\ HookWrite => hook.at = "write" /\ hook' = Resting
      /\ HookApply => hook.at = "apply" /\ hook' = Resting
      /\ HookOff => hook.at = "off" /\ hook' = Resting
  BY DEF HookWrite, HookApply, HookOff
<1>4. ASSUME NEW e, HookUpdated(e)
      PROVE  hook = Resting /\ (hook'.at = "read" \/ hook' = Resting)
  <2> DEFINE reads == [hook EXCEPT !.at = "read"]
  <2>1. hook = Resting /\ hook' \in {reads, Resting}
    <3> HIDE DEF reads
    <3>1. hook' = IF (\E d \in Domains : Live(d))
                       /\ (e.sched \/ \E d \in Domains : Live(d) /\ row[d].pending # None)
                  THEN reads ELSE Resting
      BY <1>4 DEF HookUpdated, reads
    <3>2. hook' \in {reads, Resting}
      BY <3>1
    <3> QED BY <1>4, <3>2 DEF HookUpdated
  <2>2. reads.at = "read"
    BY <1>0 DEF Hook
  <2> HIDE DEF reads
  <2> QED BY <2>1, <2>2
<1>5. ASSUME NEW e, HookRenewed(e)
      PROVE  hook = Resting /\ hook'.at = "apply" /\ hook'.due = PendingRows
  <2>1. hook = Resting /\ hook' = [hook EXCEPT !.at = "apply", !.due = PendingRows]
    BY <1>5 DEF HookRenewed
  <2> QED BY <1>0, <1>1, <2>1
<1>6. ASSUME NEW e, HookDeleted(e)
      PROVE  hook = Resting /\ hook'.at = "off" /\ hook'.doms = {d \in Domains : Live(d)}
  <2>1. hook = Resting /\ hook' = [hook EXCEPT !.at = "off", !.doms = {d \in Domains : Live(d)}]
    BY <1>6 DEF HookDeleted
  <2> QED BY <1>0, <1>1, <2>1
<1> QED BY <1>0, <1>2, <1>3, <1>4, <1>5, <1>6

\* The webhook's steps.
LEMMA MailHooks ==
  ASSUME TypeInv, Told, MailInv, HookStep
  PROVE  MailInv'
<1>0. op' = op /\ sub' = sub /\ excused \subseteq excused' /\ (faults' = faults \/ faults' = faults + 1)
  BY DEF HookStep, HookRead, HookWrite, HookApply, HookOff, HookUpdated, HookRenewed, HookDeleted,
     Take, Rebuild, Fault, NoFault, stripeVars, boundVars, historyVars, TypeInv, TypeOK
<1>1. /\ row \in [Domains -> Row] /\ mail \in [Domains -> BOOLEAN] /\ hook \in Hook
      /\ row'= row \/ row' \in [Domains -> Row]
  BY TypeStep, TypeParts, HookTyped DEF TypeInv, TypeOK
<1> SUFFICES ASSUME faults' = 0, NEW d \in Domains \ excused'
             PROVE  MailOf(d)'
  BY DEF MailInv
<1>2. MailOf(d)
  BY <1>0 DEF MailInv, TypeInv, TypeOK
<1>3. CASE HookRead \/ HookWrite \/ HookApply
  <2>1. mail' = mail /\ ~HookStops(d) /\ ~HookStops(d)'
    BY <1>3, HookMoves DEF HookRead, HookWrite, HookApply, HookStops, rowVars
  <2>2. row'[d].state = row[d].state
    <3>1. CASE HookApply
      <4>1. row[d] \in Row
        BY <1>1
      <4>2. row'[d] = row[d] \/ \E p : row'[d] = [row[d] EXCEPT !.plan = p, !.pending = None]
        BY <3>1 DEF HookApply
      <4> QED BY <4>1, <4>2 DEF Row
    <3> QED BY <1>3, <3>1 DEF HookRead, HookWrite, rowVars
  <2> QED BY <1>0, <1>2, <2>1, <2>2, MailSame
<1>4. ASSUME NEW e \in events, HookUpdated(e) \/ HookRenewed(e)
      PROVE  MailOf(d)'
  <2>1. mail' = mail /\ ~HookStops(d) /\ ~HookStops(d)'
    BY <1>4, HookMoves DEF HookUpdated, HookRenewed, HookStops, rowVars
  <2>2. row'[d].state = row[d].state
    <3>1. CASE HookUpdated(e)
      <4>1. row[d] \in Row
        BY <1>1
      <4>2. row'[d] = row[d] \/ \E g : row'[d] = [row[d] EXCEPT !.gen = g]
        BY <3>1 DEF HookUpdated, Followed
      <4> QED BY <4>1, <4>2 DEF Row
    <3> QED BY <1>4, <3>1 DEF HookRenewed, rowVars
  <2> QED BY <1>0, <1>2, <2>1, <2>2, MailSame
<1>5. CASE HookOff
  <2>1. hook.at = "off" /\ sub = "ended" /\ row' = row /\ ~HookStops(d)'
    BY <1>5 DEF HookOff, HookStops, Resting, Told
  <2>2. CASE ~HookStops(d)
    <3>1. mail'[d] = mail[d]
      BY <1>1, <1>5, <2>1, <2>2 DEF HookOff, HookStops
    <3> QED BY <1>0, <1>2, <2>1, <2>2, <3>1, MailSame
  <2>3. CASE HookStops(d)
    <3>1. mail'[d] = FALSE /\ row[d].state \in {"canceled", "gone"}
      BY <1>2, <1>5, <2>3 DEF HookOff, HookStops, MailOf, MailKept
    <3>2. Solo(d)' /\ KnownState(d)'
      BY <1>0, <1>2, <2>1 DEF MailOf, Solo, KnownState, Known
    <3>3. MailKept(d)'
      <4>1. \A b \in Calls : op'[b].dom = d => ~Selects(op'[b], "save")
        BY <1>0, <1>2, <2>3 DEF MailOf, MailKept
      <4> QED BY <1>0, <2>1, <3>1, <4>1 DEF MailKept, Selects
    <3> QED BY <3>2, <3>3 DEF MailOf
  <2> QED BY <2>2, <2>3
<1>6. ASSUME NEW e \in events, HookDeleted(e)
      PROVE  MailOf(d)'
  <2>1. /\ sub = "ended" /\ mail' = mail /\ ~HookStops(d)
        /\ HookStops(d)' <=> Live(d)
    BY <1>6, HookMoves DEF HookDeleted, HookStops, Told
  <2>2. row'[d] = IF Live(d) THEN [row[d] EXCEPT !.state = "canceled"] ELSE row[d]
    BY <1>6 DEF HookDeleted
  <2>3. CASE ~Live(d)
    BY <1>0, <1>2, <2>1, <2>2, <2>3, MailSame
  <2>4. CASE Live(d)
    <3>1. row'[d].state = "canceled" /\ row[d].state = "live"
      BY <1>1, <2>2, <2>4 DEF Row, Live
    <3>2. \A b \in Calls : op[b].dom = d => Known(op[b], "canceled") /\ op[b].kind # "select"
      BY <1>2, <3>1 DEF MailOf, KnownState, Known
    <3>3. Solo(d)'
      BY <1>0, <1>2 DEF MailOf, Solo
    <3>4. KnownState(d)'
      BY <1>0, <3>1, <3>2 DEF KnownState, Known
    <3>5. MailKept(d)'
      BY <1>0, <2>1, <2>4, <3>1, <3>2 DEF MailKept, Selects
    <3> QED BY <3>3, <3>4, <3>5 DEF MailOf
  <2> QED BY <2>3, <2>4
<1> QED BY <1>3, <1>4, <1>5, <1>6 DEF HookStep

\* Stripe's clock, restarts, the tenant's own cancellation, the counts.
LEMMA MailRest ==
  ASSUME TypeInv, MailInv,
         \/ \E ending \in BOOLEAN : EndAll(ending)
         \/ RecStep \/ Turn
         \/ \E d \in Domains : ChangeUsers(d) \/ SyncCount(d) \/ SyncPush(d)
         \/ UNCHANGED vars
  PROVE  MailInv'
<1>1. /\ op' = op /\ hook' = hook /\ row' = row /\ mail' = mail
      /\ sub = "ended" => sub' = "ended"
      /\ faults' = faults \/ faults' = faults + 1
  BY DEF EndAll, RecStep, RecBegin, RecPush, RecCount, Turn, ChangeUsers, SyncCount, SyncPush, vars,
     rowVars, stripeVars, jobVars, boundVars, Fault, NoFault, SetItems
<1>2. excused \subseteq excused'
  BY DEF EndAll, RecStep, RecBegin, RecPush, RecCount, Turn, ChangeUsers, SyncCount, SyncPush, vars,
     historyVars, TypeInv, TypeOK
<1> SUFFICES ASSUME faults' = 0, NEW d \in Domains \ excused'
             PROVE  MailOf(d)'
  BY DEF MailInv
<1>3. MailOf(d)
  BY <1>1, <1>2 DEF MailInv, TypeInv, TypeOK
<1>4. HookStops(d)' <=> HookStops(d)
  BY <1>1 DEF HookStops
<1> QED BY <1>1, <1>3, <1>4, MailSame

\* Stripe tells that the subscription has ended once it has.
LEMMA ToldStep ==
  ASSUME TypeInv, Told, [Next]_vars
  PROVE  Told'
<1> SUFFICES ASSUME hook'.at = "off" \/ \E e \in events' : e.kind = "deleted"
             PROVE  sub' = "ended"
  BY DEF Told
<1>0. hook \in Hook
  BY DEF TypeInv, TypeOK
<1>1. ASSUME NEW c \in Calls, CallStep(c) PROVE sub' = "ended"
  <2>1. hook' = hook /\ (sub = "ended" => sub' = "ended")
    BY <1>1, CallMoves
  <2>2. events' = events \/ (\E s : events' = events \cup {Updated(s)}) \/ sub' = "ended"
    BY <1>1 DEF CallStep, SelectCount, SelectAdd, SelectSave, MailOff, UpgradePush, UpgradeSave,
       DowngradeSave, KeepSave, KeepRestore, SyncRead, SyncWrite, CancelStripe, CancelSave,
       DeleteStripe, DeleteRow, SetItems, Ended, Rebuild, stripeVars
  <2> QED BY <2>1, <2>2 DEF Told, Updated
<1>2. ASSUME NEW c \in Calls, NEW d \in Domains, BeginCall(c, d) PROVE sub' = "ended"
  BY <1>2 DEF BeginCall, Cancel, Delete, Keep, Select, Upgrade, Downgrade, Begin, stripeVars, jobVars, Told
<1>3. CASE HookStep
  <2>1. sub' = sub
    BY <1>3 DEF HookStep, HookRead, HookWrite, HookApply, HookOff, HookUpdated, HookRenewed,
       HookDeleted, Take, Rebuild, stripeVars
  <2>2. CASE HookRead \/ HookWrite \/ HookApply \/ HookOff
    <3>1. hook'.at # "off"
      BY <2>2, HookMoves
    <3>2. events' = events \/ \E s : events' = events \cup {Updated(s)}
      BY <2>2 DEF HookRead, HookWrite, HookApply, HookOff, Rebuild, stripeVars
    <3> QED BY <2>1, <3>1, <3>2 DEF Told, Updated
  <2>3. ASSUME NEW e \in events, HookUpdated(e) \/ HookRenewed(e) \/ HookDeleted(e)
        PROVE  sub' = "ended"
    <3>1. events' \subseteq events
      BY <2>3 DEF HookUpdated, HookRenewed, HookDeleted, Take
    <3>2. hook'.at = "off" => e.kind = "deleted"
      BY <2>3, HookMoves DEF HookDeleted
    <3> QED BY <2>1, <3>1, <3>2 DEF Told
  <2> QED BY <1>3, <2>2, <2>3 DEF HookStep
<1>4. CASE Turn
  <2>1. hook' = hook /\ (sub' = "ended" \/ (sub' = sub /\
           events' = events \cup {Updated(next), [kind |-> "renewed"]}))
    BY <1>4 DEF Turn, Ended, jobVars
  <2>2. sub = "ended" => sub' = "ended"
    BY <2>1
  <2> QED BY <2>1, <2>2 DEF Told, Updated
<1>5. CASE Crash
  BY <1>5 DEF Crash, Resting, stripeVars, Told
<1>6. CASE \/ \E ending \in BOOLEAN : EndAll(ending)
           \/ RecStep \/ UNCHANGED vars
           \/ \E d \in Domains : ChangeUsers(d) \/ SyncCount(d) \/ SyncPush(d)
  <2>1. /\ hook' = hook /\ (sub = "ended" => sub' = "ended")
        /\ events' = events \/ \E s : events' = events \cup {Updated(s)}
    BY <1>6 DEF EndAll, RecStep, RecBegin, RecPush, RecCount, ChangeUsers, SyncCount, SyncPush, vars,
       stripeVars, jobVars, SetItems
  <2> QED BY <2>1 DEF Told, Updated
<1> QED BY <1>1, <1>2, <1>3, <1>4, <1>5, <1>6 DEF Next

\* Every step keeps the mail's invariant.
LEMMA MailStep ==
  ASSUME TypeInv, Told, MailInv, [Next]_vars
  PROVE  MailInv'
<1>1. CASE Crash
  BY <1>1 DEF Crash, Fault, MailInv, TypeInv, TypeOK
<1>2. ASSUME NEW c \in Calls, CallStep(c) \/ \E d \in Domains : BeginCall(c, d) PROVE MailInv'
  BY <1>2, MailCalls, MailBegins
<1> QED BY <1>1, <1>2, MailHooks, MailRest DEF Next

\* It holds initially.
LEMMA MailInit == Init => Told /\ MailInv
<1> SUFFICES ASSUME Init PROVE Told /\ MailInv
  OBVIOUS
<1>1. Told
  BY DEF Init, Told, Resting
<1>2. ASSUME NEW d \in Domains PROVE MailOf(d)
  <2>1. /\ \A c \in Calls : op[c].dom # d
        /\ mail[d] = TRUE /\ ~HookStops(d)
    BY RestTyped DEF Init, HookStops, Resting
  <2>2. row[d].state \in {"none", "live"}
    <3> DEFINE plan == CHOOSE p \in Plans : TRUE
               joined == [NoRow EXCEPT !.state = "live", !.gen = 1, !.plan = plan]
    <3>2. PICK on \in SUBSET Domains : row = [e \in Domains |-> IF e \in on THEN joined ELSE NoRow]
      BY DEF Init
    <3>3. joined.state = "live" /\ NoRow.state = "none"
      BY DEF NoRow
    <3> HIDE DEF joined
    <3> QED BY <3>2, <3>3
  <2> QED BY <2>1, <2>2 DEF MailOf, Solo, KnownState, MailKept
<1> QED BY <1>1, <1>2 DEF MailInv

(* Once every event is handled and no call is under way, and nothing failed, *)
(* a domain that is billed receives mail and one that was cancelled does not, *)
(* however its siblings' calls, the webhook and the renewals interleaved.    *)
THEOREM MailIsBilled == Spec => []MailFollowsBill
<1> DEFINE I == TypeInv /\ Told /\ MailInv
<1>1. Init => I
  BY TypeInit, MailInit
<1>2. I /\ [Next]_vars => I'
  BY TypeStep, ToldStep, MailStep
<1>3. I => MailFollowsBill
  <2> SUFFICES ASSUME I, Quiet, faults = 0, NEW d \in Domains \ excused
               PROVE  (Live(d) => mail[d]) /\ (row[d].state = "canceled" => ~mail[d])
    BY DEF MailFollowsBill
  <2>1. MailOf(d)
    BY DEF MailInv
  <2>2. (\A c \in Calls : op[c].dom # d) /\ ~HookStops(d)
    BY RestTyped DEF Quiet, HookStops, Resting
  <2> QED BY <2>1, <2>2 DEF MailOf, MailKept, Live
<1> HIDE DEF I
<1> QED BY <1>1, <1>2, <1>3, PTL DEF Spec
-----------------------------------------------------------------------------
(* What Stripe bills each domain, and will bill it next. *)

\* d's items, and what the calls on d are doing.
Mine(d) == {i \in items : i.dom = d}
On(d) == {op[c] : c \in {b \in Calls : op[b].dom = d}}

\* A live row r wants another plan from the next period on; what it then owes
\* for an item of plan p.
Wants(r) == r.state = "live" /\ r.pending # None
Owed(r, p) == IF Wants(r) THEN r.pending ELSE p

\* Call o has asked Stripe to remove the domain's item, or to change its price.
Removes(o) == o.kind \in {"cancel", "delete"} /\ o.at = "save" /\ ~o.alone
Upgraded(o) == o.kind = "upgrade" /\ o.at = "save"

\* Calls W, items M and row r of one domain: it has one item while it is live, and
\* while it is neither made nor removed.
ItemsKept(W, M, r) ==
    /\ \A i, j \in M : i = j
    /\ r.state # "live" /\ M # {} => \E o \in W : Selects(o, "save")
    /\ r.state = "live" => (M = {} <=> \E o \in W : Removes(o))
    /\ \A o \in W :
        /\ Selects(o, "save") => \E i \in M : i.gen = o.row.gen /\ i.plan = o.plan
        /\ ~(o.kind = "delete" /\ o.at = "save" /\ o.alone)
        /\ o.at # "restore"
        /\ o.kind = "upgrade" /\ o.at \in {"stripe", "save"} =>
              r.plan = o.row.plan /\ r.pending = o.row.pending

\* That item's plan is the row's, up to a renewal or an upgrade that has not
\* reached the row (turning), and the row knows the item, or an event tells it (told).
PriceKept(W, M, r, turning, told) ==
    /\ turning => W = {}
    /\ r.state = "live" => \A i \in M :
        /\ i.gen = r.gen \/ told
        /\ \/ turning /\ i.plan = Owed(r, r.plan)
           \/ ~turning /\ (\A o \in W : ~Upgraded(o)) /\ i.plan = r.plan
           \/ ~turning /\ \E o \in W : Upgraded(o) /\ i.plan = o.plan

\* The webhook has read the downgrade of d that the renewal applied.
Applies(d, due, r) == r.state = "live" =>
    /\ r.pending # None => \E p \in due : p.dom = d
    /\ \A p \in due : p.dom = d => p.plan = r.pending

\* The next phase N has what d owes for its items M.
Agree(d, N, M, r) ==
    IF N = {} THEN \A i \in M : Owed(r, i.plan) = i.plan
    ELSE /\ \A i \in M : \E n \in N : n.dom = d /\ n.gen = i.gen
         /\ \A n \in N : n.dom = d =>
               /\ \E i \in M : n.gen = i.gen /\ n.plan = Owed(r, i.plan)
               /\ \A m \in N : m.dom = d => m = n

\* These downgrades are those of the row with items M.
Good(due, M, r) == \A i \in M :
    /\ \A p \in due : p.dom = i.dom /\ p.gen = i.gen => p.plan = Owed(r, i.plan)
    /\ Wants(r) => \E p \in due : p.dom = i.dom /\ p.gen = i.gen

\* An event will have the schedule rebuilt, or a call on the domain will.
Reported == \E e \in events : e.kind = "updated" /\ (next = {} \/ e.sched)
Rescheduled == \E e \in events : e.kind = "updated" /\ e.sched
Rebuilds(W, M, r) == \E o \in W : o.at = "read" \/ (o.at = "write" /\ Good(o.pend, M, r))

\* The next phase agrees with d's row, or is to be rebuilt.
NextKept(d) ==
    \/ Agree(d, next, Mine(d), row[d]) \/ Reported \/ Rebuilds(On(d), Mine(d), row[d])
    \/ hook.at = "read" \/ (hook.at = "write" /\ Good(hook.due, Mine(d), row[d]))

\* All of it for one domain; a fault, or the end of the subscription, ends it.
PlanOf(d) ==
    /\ ItemsKept(On(d), Mine(d), row[d])
    /\ PriceKept(On(d), Mine(d), row[d], Turning, Rescheduled)
    /\ hook.at = "apply" => Applies(d, hook.due, row[d])
    /\ NextKept(d)
PlanInv == faults = 0 /\ sub # "ended" => \A d \in Domains \ excused : PlanOf(d)

-----------------------------------------------------------------------------
(* The schedule. *)

\* What an item of the next phase is made from.
LEMMA PhaseItem ==
  ASSUME TypeInv, NEW due \in SUBSET Pending, NEW d \in Domains, Good(due, Mine(d), row[d])
  PROVE  /\ \A i \in Mine(d) : \E n \in NextPhase(due) :
                n.dom = d /\ n.gen = i.gen /\ n.plan = Owed(row[d], i.plan)
                /\ (n.plan = i.plan => n = i)
         /\ \A n \in NextPhase(due) : n.dom = d =>
                \E i \in Mine(d) : /\ n.gen = i.gen /\ n.plan = Owed(row[d], i.plan)
                                   /\ n = [i EXCEPT !.plan = n.plan]
<1> DEFINE Due(i) == {p \in due : p.dom = i.dom /\ p.gen = i.gen}
           To(i) == IF \E p \in due : p.dom = i.dom /\ p.gen = i.gen
                    THEN [i EXCEPT !.plan = (CHOOSE p \in due : p.dom = i.dom /\ p.gen = i.gen).plan]
                    ELSE i
<1>1. NextPhase(due) = {To(i) : i \in items}
  BY DEF NextPhase
<1>2. items \subseteq Item
  BY DEF TypeInv, TypeOK
<1>3. ASSUME NEW i \in items
      PROVE  To(i).dom = i.dom /\ To(i).gen = i.gen /\ To(i) = [i EXCEPT !.plan = To(i).plan]
  BY <1>2, <1>3 DEF Item
<1>4. ASSUME NEW i \in Mine(d) PROVE To(i).plan = Owed(row[d], i.plan)
  <2>1. i \in items /\ i.dom = d /\ i \in Item
    BY <1>2 DEF Mine
  <2>2. CASE \E p \in due : p.dom = i.dom /\ p.gen = i.gen
    <3>1. PICK p \in due : /\ p.dom = i.dom /\ p.gen = i.gen
                           /\ p = CHOOSE q \in due : q.dom = i.dom /\ q.gen = i.gen
      BY <2>2
    <3>2. p.plan = Owed(row[d], i.plan)
      BY <3>1 DEF Good
    <3>3. To(i) = [i EXCEPT !.plan = p.plan]
      BY <2>2, <3>1
    <3> QED BY <2>1, <3>2, <3>3 DEF Item
  <2>3. CASE ~\E p \in due : p.dom = i.dom /\ p.gen = i.gen
    <3>1. ~Wants(row[d])
      BY <2>3 DEF Good
    <3> QED BY <2>3, <3>1 DEF Owed
  <2> QED BY <2>2, <2>3
<1> HIDE DEF To
<1>5. ASSUME NEW i \in Mine(d)
      PROVE  \E n \in NextPhase(due) :
                n.dom = d /\ n.gen = i.gen /\ n.plan = Owed(row[d], i.plan)
                /\ (n.plan = i.plan => n = i)
  <2>1. i \in items /\ i.dom = d /\ i \in Item
    BY <1>2 DEF Mine
  <2>2. To(i) \in NextPhase(due) /\ To(i).dom = d /\ To(i).gen = i.gen /\ To(i).plan = Owed(row[d], i.plan)
    BY <1>1, <1>3, <1>4, <2>1
  <2>3. To(i).plan = i.plan => To(i) = i
    <3>1. To(i) = [i EXCEPT !.plan = To(i).plan]
      BY <1>3, <2>1
    <3>2. \A p : p = i.plan => [i EXCEPT !.plan = p] = i
      BY <2>1 DEF Item
    <3> QED BY <3>1, <3>2
  <2> QED BY <2>2, <2>3
<1>6. ASSUME NEW n \in NextPhase(due), n.dom = d
      PROVE  \E i \in Mine(d) : /\ n.gen = i.gen /\ n.plan = Owed(row[d], i.plan)
                                /\ n = [i EXCEPT !.plan = n.plan]
  <2>1. PICK i \in items : n = To(i)
    BY <1>1
  <2>2. i \in Mine(d)
    BY <1>3, <1>6, <2>1 DEF Mine
  <2> QED BY <1>3, <1>4, <2>1, <2>2
<1> QED BY <1>5, <1>6

\* A schedule rebuilt with the row's own downgrade agrees with the row.
LEMMA RebuildAgrees ==
  ASSUME TypeInv, NEW due \in SUBSET Pending, NEW d \in Domains, Good(due, Mine(d), row[d]),
         \A i, j \in Mine(d) : i = j, Rebuild(due)
  PROVE  Agree(d, next', Mine(d), row[d])
<1>1. next' = IF NextPhase(due) = items THEN {} ELSE NextPhase(due)
  BY DEF Rebuild
<1>2. CASE NextPhase(due) = items
  <2>1. ASSUME NEW i \in Mine(d) PROVE Owed(row[d], i.plan) = i.plan
    <3>1. PICK n \in NextPhase(due) : n.dom = d /\ n.plan = Owed(row[d], i.plan)
      BY PhaseItem
    <3>2. n \in Mine(d)
      BY <1>2, <3>1 DEF Mine
    <3> QED BY <3>1, <3>2
  <2> QED BY <1>1, <1>2, <2>1 DEF Agree
<1>3. CASE NextPhase(due) # items
  <2>1. NextPhase(due) # {}
    <3>1. items = {} => NextPhase(due) = {}
      BY DEF NextPhase
    <3>2. PICK i \in items : TRUE
      BY <1>3, <3>1
    <3> DEFINE To == IF \E p \in due : p.dom = i.dom /\ p.gen = i.gen
                     THEN [i EXCEPT !.plan = (CHOOSE p \in due : p.dom = i.dom /\ p.gen = i.gen).plan]
                     ELSE i
    <3>3. To \in NextPhase(due)
      BY DEF NextPhase
    <3> QED BY <3>3
  <2>2. next' = NextPhase(due)
    BY <1>1, <1>3
  <2>3. \A i \in Mine(d) : \E n \in NextPhase(due) : n.dom = d /\ n.gen = i.gen
    BY PhaseItem
  <2>4. ASSUME NEW n \in NextPhase(due), n.dom = d
        PROVE  /\ \E i \in Mine(d) : n.gen = i.gen /\ n.plan = Owed(row[d], i.plan)
               /\ \A m \in NextPhase(due) : m.dom = d => m = n
    <3>1. PICK i \in Mine(d) : /\ n.gen = i.gen /\ n.plan = Owed(row[d], i.plan)
                               /\ n = [i EXCEPT !.plan = n.plan]
      BY <2>4, PhaseItem
    <3>2. ASSUME NEW m \in NextPhase(due), m.dom = d PROVE m = n
      <4>1. PICK j \in Mine(d) : m.plan = Owed(row[d], j.plan) /\ m = [j EXCEPT !.plan = m.plan]
        BY <3>2, PhaseItem
      <4>2. i = j
        OBVIOUS
      <4> QED BY <3>1, <4>1, <4>2
    <3> QED BY <3>1, <3>2
  <2> QED BY <2>1, <2>2, <2>3, <2>4 DEF Agree
<1> QED BY <1>2, <1>3

\* Rebuilding leaves the schedule or reports the new one.
LEMMA RebuildReports ==
  ASSUME NEW due, Rebuild(due)
  PROVE  /\ UNCHANGED <<items, sub, made>>
         /\ (next' = next /\ events' = events) \/ Reported'
         /\ events' = events \/ \E s : events' = events \cup {Updated(s)}
<1> DEFINE phase == IF NextPhase(due) = items THEN {} ELSE NextPhase(due)
<1>1. next' = phase /\ events' = IF phase = next THEN events ELSE events \cup {Updated(phase)}
  BY DEF Rebuild
<1> HIDE DEF phase
<1>2. CASE phase # next
  <2>1. Updated(phase) \in events' /\ Updated(phase).kind = "updated"
        /\ (next' = {} \/ Updated(phase).sched)
    BY <1>1, <1>2 DEF Updated
  <2> QED BY <1>1, <1>2, <2>1 DEF Reported, Rebuild
<1> QED BY <1>1, <1>2 DEF Rebuild

\* Rows read with their own items are those of a live row's item.
LEMMA ReadGood ==
  ASSUME TypeInv, NEW d \in Domains, \A i \in Mine(d) : row[d].state = "live" => i.gen = row[d].gen
  PROVE  Good(PendingRows, Mine(d), row[d])
<1> SUFFICES ASSUME NEW i \in Mine(d)
             PROVE  /\ \A p \in PendingRows : p.dom = i.dom /\ p.gen = i.gen => p.plan = Owed(row[d], i.plan)
                    /\ Wants(row[d]) => \E p \in PendingRows : p.dom = i.dom /\ p.gen = i.gen
  BY DEF Good
<1>1. i.dom = d
  BY DEF Mine
<1>2. ASSUME NEW p \in PendingRows, p.dom = d PROVE Wants(row[d]) /\ p.plan = row[d].pending
  BY <1>2 DEF PendingRows, Wants, Live
<1>3. ASSUME Wants(row[d]) PROVE \E p \in PendingRows : p.dom = d /\ p.gen = i.gen
  <2>1. [dom |-> d, gen |-> row[d].gen, plan |-> row[d].pending] \in PendingRows
    BY <1>3 DEF PendingRows, Wants, Live
  <2>2. i.gen = row[d].gen
    BY <1>3 DEF Wants
  <2> QED BY <2>1, <2>2
<1> QED BY <1>1, <1>2, <1>3 DEF Owed

-----------------------------------------------------------------------------
(* PlanOf, domain by domain. *)

\* The calls on d when call c goes to k.
LEMMA OnMoves ==
  ASSUME TypeInv, NEW c \in Calls, NEW k \in Op, Moves(c, k), NEW d \in Domains
  PROVE  /\ op[c].dom # d /\ k.dom # d => On(d)' = On(d)
         /\ Solo(d) /\ op[c].dom = d => On(d) = {op[c]} /\ On(d)' = IF k.dom = d THEN {k} ELSE {}
         /\ (\A b \in Calls : op[b].dom # d) /\ k.dom = d => On(d) = {} /\ On(d)' = {k}
<1>1. op' \in [Calls -> Op] /\ op'[c] = k /\ \A b \in Calls \ {c} : op'[b] = op[b]
  BY DEF Moves, TypeInv, TypeOK
<1>2. op[c].dom # d /\ k.dom # d => On(d)' = On(d)
  BY <1>1 DEF On
<1>3. Solo(d) /\ op[c].dom = d => On(d) = {op[c]} /\ On(d)' = IF k.dom = d THEN {k} ELSE {}
  BY <1>1 DEF On, Solo
<1>4. (\A b \in Calls : op[b].dom # d) /\ k.dom = d => On(d) = {} /\ On(d)' = {k}
  BY <1>1 DEF On
<1> QED BY <1>2, <1>3, <1>4

\* The events that matter here are those of changes with a schedule, and renewals.
EventsGrow == events \subseteq events' /\ \A e \in events' \ events : e.kind # "renewed"

\* What grown events leave true.
LEMMA Grown ==
  ASSUME EventsGrow, hook' = hook
  PROVE  /\ Turning' <=> Turning
         /\ Rescheduled => Rescheduled'
         /\ next' = next /\ Reported => Reported'
BY DEF EventsGrow, Turning, Rescheduled, Reported

\* A step of others: d keeps its row, its calls, and its items but for their number
\* of users, and the schedule stays or is to be rebuilt.
LEMMA PlanFrame ==
  ASSUME NEW d \in Domains, PlanOf(d), row'[d] = row[d], On(d)' = On(d), hook' = hook, EventsGrow,
         \/ next' = next /\ Mine(d)' = Mine(d)
         \/ Reported' /\ Mine(d)' = Mine(d)
         \/ /\ Reported' /\ \A i, j \in Mine(d)' : i = j
            /\ \A j \in Mine(d)' : \E i \in Mine(d) : j.gen = i.gen /\ j.plan = i.plan
            /\ \A i \in Mine(d) : \E j \in Mine(d)' : j.gen = i.gen /\ j.plan = i.plan
  PROVE  PlanOf(d)'
<1>0. PICK M2 : M2 = Mine(d)'
  OBVIOUS
<1>1. /\ \A i, j \in M2 : i = j
      /\ \A j \in M2 : \E i \in Mine(d) : j.gen = i.gen /\ j.plan = i.plan
      /\ \A i \in Mine(d) : \E j \in M2 : j.gen = i.gen /\ j.plan = i.plan
  BY <1>0 DEF PlanOf, ItemsKept
<1>2. ItemsKept(On(d), M2, row[d])
  <2>1. M2 = {} <=> Mine(d) = {}
    BY <1>1
  <2>2. \A o \in On(d) : Selects(o, "save") => \E i \in M2 : i.gen = o.row.gen /\ i.plan = o.plan
    BY <1>1 DEF PlanOf, ItemsKept
  <2> QED BY <1>1, <2>1, <2>2 DEF PlanOf, ItemsKept
<1>3. PriceKept(On(d), M2, row[d], Turning', Rescheduled')
  <2>1. PriceKept(On(d), Mine(d), row[d], Turning, Rescheduled)
    BY DEF PlanOf
  <2>2. (Turning' <=> Turning) /\ (Rescheduled => Rescheduled')
    BY Grown
  <2>3. row[d].state = "live" => \A j \in M2 :
          /\ j.gen = row[d].gen \/ Rescheduled
          /\ \/ Turning /\ j.plan = Owed(row[d], row[d].plan)
             \/ ~Turning /\ (\A o \in On(d) : ~Upgraded(o)) /\ j.plan = row[d].plan
             \/ ~Turning /\ \E o \in On(d) : Upgraded(o) /\ j.plan = o.plan
    BY <1>1, <2>1 DEF PriceKept
  <2> QED BY <2>1, <2>2, <2>3 DEF PriceKept
<1>4. hook'.at = "apply" => Applies(d, hook'.due, row[d])
  BY DEF PlanOf
<1>5. NextKept(d)'
  <2>1. CASE next' = next /\ M2 = Mine(d)
    <3>1. Reported => Reported'
      BY <2>1, Grown
    <3> QED BY <1>0, <2>1, <3>1 DEF PlanOf, NextKept
  <2> QED BY <1>0, <2>1 DEF NextKept
<1> QED BY <1>0, <1>2, <1>3, <1>4, <1>5 DEF PlanOf

\* The same, of a step of another call.
LEMMA PlanOther ==
  ASSUME TypeInv, NEW c \in Calls, NEW k \in Op, Moves(c, k), NEW d \in Domains, op[c].dom # d,
         k.dom # d, PlanOf(d), row'[d] = row[d], Mine(d)' = Mine(d), hook' = hook, EventsGrow,
         next' = next \/ Reported'
  PROVE  PlanOf(d)'
BY OnMoves, PlanFrame

\* What has to be shown of a step of d's own call, which goes to k or ends.
LEMMA PlanOwn ==
  ASSUME TypeInv, NEW c \in Calls, NEW k \in Op, Moves(c, k), NEW d \in Domains, op[c].dom = d, Solo(d),
         k.dom = d \/ k = Idle, PlanOf(d), hook' = hook, EventsGrow,
         NEW W, W = (IF k.dom = d THEN {k} ELSE {}),
         ItemsKept(W, Mine(d)', row'[d]), PriceKept(W, Mine(d)', row'[d], FALSE, Rescheduled'),
         \/ Reported' \/ Rebuilds(W, Mine(d)', row'[d])
         \/ Agree(d, next', Mine(d)', row'[d]) \/ hook.at = "read"
         \/ (hook.at = "write" /\ Good(hook.due, Mine(d)', row'[d]))
  PROVE  PlanOf(d)'
<1>1. On(d) = {op[c]} /\ On(d)' = W
  BY OnMoves
<1>2. ~Turning /\ ~Turning'
  BY <1>1, Grown DEF PlanOf, PriceKept
<1>3. hook.at # "apply"
  BY <1>2 DEF Turning
<1>4. NextKept(d)'
  BY <1>1 DEF NextKept
<1>5. PriceKept(On(d)', Mine(d)', row'[d], Turning', Rescheduled')
  BY <1>1, <1>2 DEF PriceKept
<1> QED BY <1>1, <1>3, <1>4, <1>5 DEF PlanOf

\* What PlanOf says of the only call on d.
LEMMA OwnPlan ==
  ASSUME TypeInv, NEW c \in Calls, NEW d \in Domains, op[c].dom = d, Solo(d), PlanOf(d)
  PROVE  /\ On(d) = {op[c]} /\ ~Turning
         /\ ItemsKept({op[c]}, Mine(d), row[d])
         /\ PriceKept({op[c]}, Mine(d), row[d], FALSE, Rescheduled)
         /\ op[c].at \notin {"read", "write"} => ~Rebuilds({op[c]}, Mine(d), row[d])
         /\ \/ Rebuilds({op[c]}, Mine(d), row[d]) \/ Agree(d, next, Mine(d), row[d]) \/ Reported
            \/ hook.at = "read" \/ (hook.at = "write" /\ Good(hook.due, Mine(d), row[d]))
<1>1. On(d) = {op[c]}
  BY DEF On, Solo
<1>2. ~Turning /\ PriceKept({op[c]}, Mine(d), row[d], Turning, Rescheduled)
  BY <1>1 DEF PlanOf, PriceKept
<1>3. PriceKept({op[c]}, Mine(d), row[d], FALSE, Rescheduled)
  BY <1>2 DEF PriceKept
<1>4. ItemsKept({op[c]}, Mine(d), row[d]) /\ NextKept(d)
  BY <1>1 DEF PlanOf
<1>5. op[c].at \notin {"read", "write"} => ~Rebuilds({op[c]}, Mine(d), row[d])
  BY DEF Rebuilds
<1>6. \/ Rebuilds({op[c]}, Mine(d), row[d]) \/ Agree(d, next, Mine(d), row[d]) \/ Reported
      \/ hook.at = "read" \/ (hook.at = "write" /\ Good(hook.due, Mine(d), row[d]))
  <2>1. Rebuilds(On(d), Mine(d), row[d]) => Rebuilds({op[c]}, Mine(d), row[d])
    BY <1>1 DEF Rebuilds
  <2> QED BY <1>4, <2>1 DEF NextKept
<1> QED BY <1>1, <1>2, <1>3, <1>4, <1>5, <1>6

-----------------------------------------------------------------------------
(* What calls do at Stripe. *)

\* An item that is changed, or removed, and the domains it is not of.
LEMMA ChangedOthers ==
  ASSUME TypeInv, NEW d \in Domains, NEW g, NEW p \in Plans \cup {None}, NEW n \in Users,
         NEW e \in Domains \ {d}
  PROVE  /\ {i \in Changed(ItemOf(d, g), p, n) : i.dom = e} = Mine(e)
         /\ {i \in items \ ItemOf(d, g) : i.dom = e} = Mine(e)
<1> DEFINE To(i) == [i EXCEPT !.plan = IF p = None THEN @ ELSE p, !.qty = n]
           old == ItemOf(d, g)
<1>1. items \subseteq Item /\ old \subseteq items /\ \A i \in old : i.dom = d
  BY DEF TypeInv, TypeOK, ItemOf
<1>2. \A i \in old : To(i).dom = d
  BY <1>1 DEF Item
<1>3. Changed(old, p, n) = (items \ old) \cup {To(i) : i \in old}
  BY DEF Changed
<1> HIDE DEF To
<1> QED BY <1>1, <1>2, <1>3 DEF Mine

\* Its own domain's items are all that item's, when there is one.
LEMMA ChangedOwn ==
  ASSUME TypeInv, NEW d \in Domains, NEW g, NEW p \in Plans \cup {None}, NEW n \in Users,
         \A i, j \in Mine(d) : i = j, NEW M2, M2 = {i \in Changed(ItemOf(d, g), p, n) : i.dom = d}
  PROVE  /\ \A i, j \in M2 : i = j
         /\ \A j \in M2 : \E i \in Mine(d) : /\ j.gen = i.gen
                /\ j.plan = IF p = None \/ ItemOf(d, g) = {} THEN i.plan ELSE p
         /\ \A i \in Mine(d) : \E j \in M2 : /\ j.gen = i.gen
                /\ j.plan = IF p = None \/ ItemOf(d, g) = {} THEN i.plan ELSE p
<1> DEFINE To(i) == [i EXCEPT !.plan = IF p = None THEN @ ELSE p, !.qty = n]
           old == ItemOf(d, g)
<1>1. items \subseteq Item /\ old \subseteq Mine(d) /\ \A i \in old : i \in Item /\ i.dom = d
  BY DEF TypeInv, TypeOK, ItemOf, Mine
<1>2. \A i \in old : To(i).dom = d /\ To(i).gen = i.gen /\ To(i).plan = IF p = None THEN i.plan ELSE p
  BY <1>1 DEF Item
<1>3. Changed(old, p, n) = (items \ old) \cup {To(i) : i \in old}
  BY DEF Changed
<1> HIDE DEF To, old
<1>4. M2 = (Mine(d) \ old) \cup {To(i) : i \in old}
  BY <1>1, <1>2, <1>3 DEF Mine, old
<1>5. CASE old = {}
  BY <1>4, <1>5 DEF old
<1>6. CASE old # {}
  <2>1. PICK i \in old : Mine(d) = {i} /\ old = {i}
    BY <1>1, <1>6
  <2>2. M2 = {To(i)}
    BY <1>4, <2>1
  <2> QED BY <1>2, <1>6, <2>1, <2>2 DEF old
<1> QED BY <1>5, <1>6

\* A change of the items is told, and has the schedule rebuilt.
LEMMA UpdatedGrows ==
  ASSUME NEW s, events' = events \cup {Updated(s)}
  PROVE  EventsGrow /\ (s = next' => Reported')
<1>1. Updated(s) \in events' /\ Updated(s).kind = "updated" /\ Updated(s).sched = (s # {})
  BY DEF Updated
<1> QED BY <1>1 DEF EventsGrow, Reported

\* A change of the items is told.
LEMMA SetReports ==
  ASSUME NEW new, SetItems(new)
  PROVE  EventsGrow /\ Reported' /\ items' = new /\ next' = next /\ sub' = sub
BY UpdatedGrows DEF SetItems

\* A rebuilt schedule tells no renewal.
LEMMA RebuildGrows ==
  ASSUME NEW due, Rebuild(due)
  PROVE  EventsGrow
<1>1. events' = events \/ \E s : events' = events \cup {Updated(s)}
  BY RebuildReports
<1> QED BY <1>1, UpdatedGrows DEF EventsGrow

\* So does a step that leaves Stripe alone.
LEMMA StillGrows ==
  ASSUME UNCHANGED stripeVars
  PROVE  EventsGrow /\ items' = items /\ next' = next /\ sub' = sub
BY DEF EventsGrow, stripeVars

\* A call's step, while the subscription goes on: other domains' items stay.
LEMMA CallStripe ==
  ASSUME TypeInv, NEW c \in Calls, CallStep(c), sub' # "ended"
  PROVE  /\ EventsGrow /\ (next' = next \/ Reported')
         /\ \A e \in Domains \ {op[c].dom} : Mine(e)' = Mine(e)
<1>0. op[c] # Idle /\ op[c] \in Op /\ op[c].dom \in Domains
  BY CallMoves
<1> DEFINE d == op[c].dom
<1>1. CASE UNCHANGED stripeVars
  BY <1>1, StillGrows DEF Mine
<1>2. ASSUME NEW due, Rebuild(due)
      PROVE  EventsGrow /\ (next' = next \/ Reported') /\ \A e \in Domains : Mine(e)' = Mine(e)
  BY <1>2, RebuildReports, RebuildGrows DEF Mine
<1>3. CASE SelectAdd(c)
  <2>1. CASE UNCHANGED <<items, made, events>>
    BY <1>3, <2>1 DEF SelectAdd, EventsGrow, Mine
  <2>2. CASE /\ items' = items \cup {[dom |-> d, gen |-> made[d] + 1, plan |-> op[c].plan, qty |-> op[c].qty]}
             /\ events' = events \cup {Updated(next)}
    <3>1. next' = next /\ EventsGrow
      BY <1>3, <2>2, UpdatedGrows DEF SelectAdd
    <3>2. \A e \in Domains \ {d} : Mine(e)' = Mine(e)
      BY <2>2 DEF Mine
    <3> QED BY <3>1, <3>2
  <2> QED BY <1>3, <2>1, <2>2 DEF SelectAdd
<1>4. CASE UpgradePush(c)
  <2>1. op[c].qty \in Users /\ \A i \in items : i.qty \in Users
    BY <1>0, OpTyped DEF TypeInv, TypeOK, Item
  <2>2. op[c].plan \in Plans \cup {None}
    BY <1>0, OpTyped
  <2>3. CASE \E i \in ItemOf(d, op[c].row.gen) :
               SetItems(Changed(ItemOf(d, op[c].row.gen), op[c].plan, IF op[c].qty = 0 THEN i.qty ELSE op[c].qty))
    <3>1. PICK n \in Users : SetItems(Changed(ItemOf(d, op[c].row.gen), op[c].plan, n))
      BY <2>1, <2>3 DEF ItemOf
    <3>2. EventsGrow /\ next' = next /\ items' = Changed(ItemOf(d, op[c].row.gen), op[c].plan, n)
      BY <3>1, SetReports
    <3>3. ASSUME NEW e \in Domains \ {d} PROVE Mine(e)' = Mine(e)
      <4>1. Mine(e)' = {i \in Changed(ItemOf(d, op[c].row.gen), op[c].plan, n) : i.dom = e}
        BY <3>2 DEF Mine
      <4>2. PICK x \in Domains : x = d
        BY <1>0
      <4>3. e \in Domains \ {x}
        BY <4>2
      <4>4. \A g : {i \in Changed(ItemOf(x, g), op[c].plan, n) : i.dom = e} = Mine(e)
        BY <2>2, <4>3, ChangedOthers
      <4> QED BY <4>1, <4>2, <4>4
    <3> QED BY <3>2, <3>3
  <2> QED BY <1>1, <1>4, <2>3 DEF UpgradePush
<1>5. CASE SetItems(items \ ItemOf(d, op[c].row.gen))
  <2>1. EventsGrow /\ next' = next /\ items' = items \ ItemOf(d, op[c].row.gen)
    BY <1>5, SetReports
  <2>2. ASSUME NEW e \in Domains \ {d} PROVE Mine(e)' = Mine(e)
    BY <2>1 DEF Mine, ItemOf
  <2> QED BY <2>1, <2>2
<1>6. CASE CancelStripe(c)
  <2>1. CASE events' = events \cup {Updated(next)} /\ UNCHANGED <<items, next, made>>
    BY <2>1, UpdatedGrows DEF Mine
  <2> QED BY <1>1, <1>5, <1>6, <2>1 DEF CancelStripe
<1>7. CASE DeleteStripe(c)
  BY <1>1, <1>5, <1>7 DEF DeleteStripe, Ended
<1>8. CASE SyncWrite(c)
  BY <1>1, <1>2, <1>8 DEF SyncWrite
<1>9. CASE SelectCount(c) \/ SelectSave(c) \/ MailOff(c) \/ UpgradeSave(c) \/ DowngradeSave(c)
           \/ KeepSave(c) \/ KeepRestore(c) \/ SyncRead(c) \/ CancelSave(c) \/ DeleteRow(c)
  BY <1>1, <1>9 DEF SelectCount, SelectSave, MailOff, UpgradeSave, DowngradeSave, KeepSave,
     KeepRestore, SyncRead, CancelSave, DeleteRow
<1> QED BY <1>3, <1>4, <1>6, <1>7, <1>8, <1>9 DEF CallStep

\* A call at none of the stages where the row, the item or the mail lags.
Light(o) == ~Selects(o, "save") /\ ~Removes(o) /\ ~Upgraded(o)

\* A step of d's call between such stages, that leaves d's item and all of its row
\* but the pending downgrade.
LEMMA PlanMove ==
  ASSUME TypeInv, NEW c \in Calls, NEW k \in Op, Moves(c, k), NEW d \in Domains, op[c].dom = d, Solo(d),
         k.dom = d \/ k = Idle, PlanOf(d), hook' = hook, EventsGrow, Mine(d)' = Mine(d),
         row'[d].state = row[d].state, row'[d].gen = row[d].gen, row'[d].plan = row[d].plan,
         Light(op[c]),
         k.dom = d => /\ Light(k) /\ k.at # "restore" /\ ~(k.kind = "delete" /\ k.at = "save" /\ k.alone)
                      /\ ~(k.kind = "upgrade" /\ k.at = "stripe"),
         \/ Reported' \/ (k.dom = d /\ Rebuilds({k}, Mine(d), row'[d]))
         \/ Agree(d, next', Mine(d), row'[d])
         \/ ~Rebuilds({op[c]}, Mine(d), row[d]) /\ next' = next /\ row'[d] = row[d]
  PROVE  PlanOf(d)'
<1> DEFINE W == IF k.dom = d THEN {k} ELSE {}
<1>0. \A o \in W : o = k /\ k.dom = d
  OBVIOUS
<1>1. /\ ItemsKept({op[c]}, Mine(d), row[d]) /\ PriceKept({op[c]}, Mine(d), row[d], FALSE, Rescheduled)
  BY OwnPlan
<1>2. ItemsKept(W, Mine(d), row'[d])
  BY <1>0, <1>1 DEF ItemsKept, Light, Upgraded
<1>3. Rescheduled => Rescheduled'
  BY Grown
<1>4. PriceKept(W, Mine(d), row'[d], FALSE, Rescheduled')
  BY <1>0, <1>1, <1>3 DEF PriceKept, Light
<1>5. next' = next /\ Reported => Reported'
  BY Grown
<1>6. \/ Reported' \/ Rebuilds(W, Mine(d), row'[d])
      \/ Agree(d, next', Mine(d), row'[d]) \/ hook.at = "read"
      \/ (hook.at = "write" /\ Good(hook.due, Mine(d), row'[d]))
  BY <1>5, OwnPlan
<1> HIDE DEF W
<1>7. W = IF k.dom = d THEN {k} ELSE {}
  BY DEF W
<1> QED BY <1>2, <1>4, <1>6, <1>7, PlanOwn

\* What a row owes depends on what it wants only, and without an item on nothing.
LEMMA OwedSame ==
  ASSUME NEW d, NEW N, NEW M, NEW r, NEW r2,
         M = {} \/ ((Wants(r2) <=> Wants(r)) /\ (Wants(r) => r2.pending = r.pending))
  PROVE  /\ Agree(d, N, M, r) => Agree(d, N, M, r2)
         /\ \A due : Good(due, M, r) => Good(due, M, r2)
<1>1. \A i \in M : Owed(r2, i.plan) = Owed(r, i.plan)
  BY DEF Owed
<1>2. Agree(d, N, M, r) => Agree(d, N, M, r2)
  BY <1>1 DEF Agree
<1>3. \A due : Good(due, M, r) => Good(due, M, r2)
  BY <1>1 DEF Good
<1> QED BY <1>2, <1>3

\* A step of d's call that Stripe has no part in, and that changes the row.
LEMMA PlanRow ==
  ASSUME TypeInv, NEW c \in Calls, NEW k \in Op, Moves(c, k), NEW d \in Domains, op[c].dom = d, Solo(d),
         k.dom = d \/ k = Idle, PlanOf(d), hook' = hook, UNCHANGED stripeVars,
         NEW W, W = (IF k.dom = d THEN {k} ELSE {}),
         ItemsKept(W, Mine(d), row'[d]), PriceKept(W, Mine(d), row'[d], FALSE, Rescheduled),
         \/ Rebuilds(W, Mine(d), row'[d])
         \/ /\ op[c].at \notin {"read", "write"}
            /\ \/ Mine(d) = {}
               \/ (Wants(row'[d]) <=> Wants(row[d])) /\ (Wants(row[d]) => row'[d].pending = row[d].pending)
  PROVE  PlanOf(d)'
<1>1. EventsGrow /\ items' = items /\ next' = next
  BY StillGrows
<1>2. Mine(d)' = Mine(d)
  BY <1>1 DEF Mine
<1>3. (Rescheduled => Rescheduled') /\ (Reported => Reported')
  BY <1>1, Grown
<1>4. PriceKept(W, Mine(d), row'[d], FALSE, Rescheduled')
  BY <1>3 DEF PriceKept
<1>5. \/ Reported' \/ Rebuilds(W, Mine(d), row'[d])
      \/ Agree(d, next', Mine(d), row'[d]) \/ hook.at = "read"
      \/ (hook.at = "write" /\ Good(hook.due, Mine(d), row'[d]))
  <2>1. CASE ~Rebuilds(W, Mine(d), row'[d])
    <3>1. \/ Agree(d, next, Mine(d), row[d]) \/ Reported \/ hook.at = "read"
          \/ (hook.at = "write" /\ Good(hook.due, Mine(d), row[d]))
      BY <2>1, OwnPlan
    <3>2. /\ Agree(d, next, Mine(d), row[d]) => Agree(d, next, Mine(d), row'[d])
          /\ \A due : Good(due, Mine(d), row[d]) => Good(due, Mine(d), row'[d])
      BY <2>1, OwedSame
    <3> QED BY <1>1, <1>3, <3>1, <3>2
  <2> QED BY <2>1
<1> QED BY <1>1, <1>2, <1>4, <1>5, PlanOwn

-----------------------------------------------------------------------------
\* The types of a step of d's call.
LEMMA OwnCall ==
  ASSUME TypeInv, NEW c \in Calls, NEW d \in Domains, op[c].dom = d
  PROVE  /\ op[c] # Idle /\ op[c] \in Op /\ row[d] \in Row /\ row \in [Domains -> Row]
         /\ faults \in Nat /\ op[c].row \in Row
<1>1. op[c] # Idle /\ op[c] \in Op /\ row[d] \in Row
  BY AtWork, UnderWay
<1>2. row \in [Domains -> Row] /\ faults \in Nat
  BY BoundsAssumption DEF TypeInv, TypeOK
<1> QED BY <1>1, <1>2, OpTyped

\* A domain that selects a plan.
LEMMA PlanSelect ==
  ASSUME TypeInv, NEW c \in Calls, NEW d \in Domains, op[c].dom = d, MailOf(d), PlanOf(d),
         sub' # "ended", faults' = 0, d \notin excused',
         SelectCount(c) \/ SelectAdd(c) \/ SelectSave(c) \/ MailOff(c)
  PROVE  PlanOf(d)'
<1>0. /\ op[c] # Idle /\ op[c] \in Op /\ row[d] \in Row /\ row \in [Domains -> Row]
      /\ faults \in Nat /\ op[c].row \in Row
  BY OwnCall
<1>1. Solo(d) /\ Known(op[c], row[d].state)
  BY OwnFacts DEF MailOf
<1>2. CallStep(c) /\ hook' = hook
  BY CallMoves DEF CallStep
<1>3. EventsGrow
  BY <1>2, CallStripe
<1>4. /\ ItemsKept({op[c]}, Mine(d), row[d])
      /\ op[c].at \notin {"read", "write"} => ~Rebuilds({op[c]}, Mine(d), row[d])
  BY <1>1, OwnPlan
<1>5. CASE SelectCount(c)
  <2>1. Light(op[c]) /\ op[c].at = "start" /\ op[c].kind = "select"
    BY <1>5 DEF SelectCount, At, Light, Selects, Removes, Upgraded
  <2>2. row' = row /\ items' = items /\ next' = next
    BY <1>5 DEF SelectCount, stripeVars
  <2>3. Mine(d)' = Mine(d)
    BY <2>2 DEF Mine
  <2>4. CASE HasEnded
    <3>1. Moves(c, Idle) /\ Idle \in Op /\ Idle.dom # d
      BY <1>5, <2>4, FinishMoves, RestTyped DEF SelectCount
    <3> QED BY <1>1, <1>2, <1>3, <1>4, <2>1, <2>2, <2>3, <3>1, PlanMove
  <2>5. CASE ~HasEnded
    <3>1. PICK a \in BOOLEAN, n \in Users :
             op' = [op EXCEPT ![c] = [op[c] EXCEPT !.at = "stripe", !.alone = a, !.qty = n]]
      BY <1>5, <2>5, CountMoves
    <3> DEFINE k == [op[c] EXCEPT !.at = "stripe", !.alone = a, !.qty = n]
    <3>2. k \in Op /\ k.dom = d /\ k.kind = "select" /\ k.at = "stripe"
      BY <1>0, <2>1 DEF Op
    <3>3. Moves(c, k)
      BY <3>1 DEF Moves
    <3> HIDE DEF k
    <3>4. Light(k)
      BY <3>2 DEF Light, Selects, Removes, Upgraded
    <3> QED BY <1>1, <1>2, <1>3, <1>4, <2>1, <2>2, <2>3, <3>2, <3>3, <3>4, PlanMove
  <2> QED BY <2>4, <2>5
<1>6. CASE SelectAdd(c)
  <2> DEFINE gen == made[d] + 1
             new == [dom |-> d, gen |-> gen, plan |-> op[c].plan, qty |-> op[c].qty]
  <2>1. /\ items' = items \cup {new} /\ events' = events \cup {Updated(next)} /\ next' = next
        /\ op' = [op EXCEPT ![c].at = "save", ![c].row.gen = gen] /\ row' = row
        /\ op[c].kind = "select" /\ op[c].at = "stripe"
    BY <1>0, <1>6 DEF SelectAdd, Fault, NoFault, At, rowVars
  <2>2. gen \in Gens
    BY DEF TypeInv, TypeOK, Gens
  <2> DEFINE r == [op[c].row EXCEPT !.gen = gen]
             k == [op[c] EXCEPT !.at = "save", !.row = r]
  <2>3. r \in Row /\ r.gen = gen
    BY <1>0, <2>2 DEF Row
  <2>4. op' = [op EXCEPT ![c] = k]
    BY <1>0, <2>1, <2>2, AddMoves
  <2> HIDE DEF r
  <2>5. k \in Op /\ k.dom = d /\ k.kind = "select" /\ k.row = r /\ k.at = "save" /\ k.plan = op[c].plan
    BY <1>0, <2>1, <2>3 DEF Op
  <2> HIDE DEF k
  <2>6. row[d].state # "live" /\ Mine(d) = {}
    <3>1. row[d].state # "live"
      BY <1>1, <2>1 DEF Known
    <3> QED BY <1>4, <2>1, <3>1 DEF ItemsKept, Selects
  <2>7. new.dom = d /\ new.gen = gen /\ new.plan = op[c].plan
    OBVIOUS
  <2> HIDE DEF new, gen
  <2>8. Mine(d)' = {new}
    BY <2>1, <2>6, <2>7 DEF Mine
  <2>9. Reported'
    BY <2>1, UpdatedGrows
  <2>10. ItemsKept({k}, {new}, row'[d])
    BY <2>1, <2>3, <2>5, <2>6, <2>7 DEF ItemsKept, Selects
  <2>11. PriceKept({k}, {new}, row'[d], FALSE, Rescheduled')
    BY <2>1, <2>6 DEF PriceKept
  <2> QED BY <1>1, <1>2, <1>3, <2>4, <2>5, <2>8, <2>9, <2>10, <2>11, PlanOwn DEF Moves
<1>7. CASE SelectSave(c)
  <2>1. /\ op[c].kind = "select" /\ op[c].at = "save" /\ Finish(c) /\ UNCHANGED stripeVars
        /\ row[d].pending = None
    BY <1>7 DEF SelectSave, At
  <2>2. /\ row'[d].state = "live" /\ row'[d].gen = op[c].row.gen /\ row'[d].plan = op[c].plan
        /\ row'[d].pending = None
    <3>1. row'[d] = [row[d] EXCEPT !.state = "live", !.gen = op[c].row.gen, !.plan = op[c].plan]
      BY <1>0, <1>7 DEF SelectSave
    <3> QED BY <1>0, <2>1, <3>1 DEF Row
  <2>3. Moves(c, Idle) /\ Idle \in Op /\ Idle.dom # d
    BY <2>1, FinishMoves, RestTyped
  <2>4. PICK i \in Mine(d) : i.gen = op[c].row.gen /\ i.plan = op[c].plan /\ \A j \in Mine(d) : j = i
    BY <1>4, <2>1 DEF ItemsKept, Selects
  <2>5. ItemsKept({}, Mine(d), row'[d])
    BY <2>2, <2>4 DEF ItemsKept
  <2>6. PriceKept({}, Mine(d), row'[d], FALSE, Rescheduled)
    BY <2>2, <2>4 DEF PriceKept
  <2>7. ~Wants(row'[d]) /\ ~Wants(row[d])
    BY <2>1, <2>2 DEF Wants
  <2> QED BY <1>1, <1>2, <2>1, <2>3, <2>5, <2>6, <2>7, PlanRow
<1>8. CASE MailOff(c)
  <2>1. op[c].at = "off" /\ Finish(c) /\ row' = row /\ items' = items /\ next' = next
    BY <1>8 DEF MailOff, stripeVars
  <2>2. Light(op[c])
    BY <2>1 DEF Light, Selects, Removes, Upgraded
  <2>3. Mine(d)' = Mine(d)
    BY <2>1 DEF Mine
  <2>4. Moves(c, Idle) /\ Idle \in Op /\ Idle.dom # d
    BY <2>1, FinishMoves, RestTyped
  <2> QED BY <1>1, <1>2, <1>3, <1>4, <2>1, <2>2, <2>3, <2>4, PlanMove
<1> QED BY <1>5, <1>6, <1>7, <1>8

\* A domain that upgrades.
LEMMA PlanUpgrade ==
  ASSUME TypeInv, NEW c \in Calls, NEW d \in Domains, op[c].dom = d, MailOf(d), PlanOf(d),
         UpgradePush(c) \/ UpgradeSave(c)
  PROVE  PlanOf(d)'
<1>0. /\ op[c] # Idle /\ op[c] \in Op /\ row[d] \in Row /\ row \in [Domains -> Row]
      /\ faults \in Nat /\ op[c].row \in Row
  BY OwnCall
<1>1. Solo(d) /\ hook' = hook /\ op[c].kind = "upgrade" /\ op[c].plan \in Plans
      /\ op[c].at \in {"stripe", "save"}
  BY <1>0, UnderWay DEF MailOf, UpgradePush, UpgradeSave, jobVars, At
<1>2. ItemsKept({op[c]}, Mine(d), row[d]) /\ PriceKept({op[c]}, Mine(d), row[d], FALSE, Rescheduled)
      /\ ~Rebuilds({op[c]}, Mine(d), row[d])
  BY <1>1, OwnPlan
<1>3. row[d].plan = op[c].row.plan /\ row[d].pending = op[c].row.pending
  BY <1>1, <1>2 DEF ItemsKept
<1>4. ~Selects(op[c], "save") /\ ~Removes(op[c])
  BY <1>1 DEF Selects, Removes
<1>5. row[d].state # "live" => Mine(d) = {}
  BY <1>2, <1>4 DEF ItemsKept
<1>6. CASE UpgradePush(c) /\ UNCHANGED stripeVars /\ Finish(c)
  <2>1. Light(op[c]) /\ row' = row
    BY <1>4, <1>6 DEF UpgradePush, At, Light, Upgraded, rowVars
  <2>2. EventsGrow /\ next' = next /\ Mine(d)' = Mine(d)
    BY <1>6, StillGrows DEF Mine
  <2>3. Moves(c, Idle) /\ Idle \in Op /\ Idle.dom # d
    BY <1>6, FinishMoves, RestTyped
  <2> QED BY <1>1, <1>2, <2>1, <2>2, <2>3, PlanMove
<1>7. CASE /\ UpgradePush(c) /\ Goto(c, "save")
           /\ ItemOf(d, op[c].row.gen) # {}
           /\ \E i \in ItemOf(d, op[c].row.gen) :
                 SetItems(Changed(ItemOf(d, op[c].row.gen), op[c].plan, IF op[c].qty = 0 THEN i.qty ELSE op[c].qty))
  <2>1. PICK k \in Op : /\ Moves(c, k) /\ k.at = "save" /\ k.kind = op[c].kind /\ k.dom = op[c].dom
                        /\ k.plan = op[c].plan /\ k.row = op[c].row
    BY <1>0, <1>7, GotoMoves
  <2>2. op[c].qty \in Users /\ \A i \in items : i.qty \in Users
    BY <1>0, OpTyped DEF TypeInv, TypeOK, Item
  <2>3. PICK n \in Users : SetItems(Changed(ItemOf(d, op[c].row.gen), op[c].plan, n))
    BY <1>7, <2>2 DEF ItemOf
  <2>4. /\ EventsGrow /\ Reported' /\ next' = next
        /\ items' = Changed(ItemOf(d, op[c].row.gen), op[c].plan, n)
    BY <2>3, SetReports
  <2>5. row' = row /\ op[c].plan # None
    BY <1>1, <1>7, NoneAssumption DEF UpgradePush, rowVars
  <2>6. PICK M2 : M2 = Mine(d)'
    OBVIOUS
  <2>7. M2 = {i \in Changed(ItemOf(d, op[c].row.gen), op[c].plan, n) : i.dom = d}
    BY <2>4, <2>6 DEF Mine
  <2>8. \A i, j \in Mine(d) : i = j
    BY <1>2 DEF ItemsKept
  <2>9. /\ \A i, j \in M2 : i = j
        /\ \A j \in M2 : \E i \in Mine(d) : j.gen = i.gen /\ j.plan = op[c].plan
        /\ M2 # {}
    <3>1. Mine(d) # {}
      BY <1>7 DEF ItemOf, Mine
    <3>2. /\ \A i, j \in M2 : i = j
          /\ \A j \in M2 : \E i \in Mine(d) : j.gen = i.gen /\ j.plan = op[c].plan
          /\ \A i \in Mine(d) : \E j \in M2 : j.gen = i.gen /\ j.plan = op[c].plan
      BY <1>1, <1>7, <2>5, <2>7, <2>8, ChangedOwn
    <3> QED BY <3>1, <3>2
  <2>10. row[d].state = "live"
    BY <1>5, <2>9
  <2>11. ItemsKept({k}, M2, row'[d])
    BY <1>1, <1>3, <2>1, <2>5, <2>9, <2>10 DEF ItemsKept, Selects, Removes
  <2>12. PriceKept({k}, M2, row'[d], FALSE, Rescheduled')
    <3>1. \A j \in M2 : (j.gen = row[d].gen \/ Rescheduled') /\ j.plan = k.plan
      BY <1>1, <1>2, <2>1, <2>4, <2>9, <2>10, Grown DEF PriceKept
    <3>2. Upgraded(k)
      BY <1>1, <2>1 DEF Upgraded
    <3> QED BY <2>5, <3>1, <3>2 DEF PriceKept
  <2> QED BY <1>1, <2>1, <2>4, <2>6, <2>11, <2>12, PlanOwn
<1>8. CASE UpgradeSave(c)
  <2>1. op[c].at = "save" /\ UNCHANGED stripeVars /\ Upgraded(op[c])
    BY <1>1, <1>8 DEF UpgradeSave, At, Upgraded
  <2>2. row[d].state = "live" => \A i \in Mine(d) : (i.gen = row[d].gen \/ Rescheduled) /\ i.plan = op[c].plan
    BY <1>2, <2>1 DEF PriceKept
  <2>3. CASE row[d].state = "gone"
    <3>1. row' = row /\ Finish(c)
      BY <1>8, <2>3 DEF UpgradeSave, SaveRow
    <3>2. Moves(c, Idle) /\ Idle \in Op /\ Idle.dom # d
      BY <3>1, FinishMoves, RestTyped
    <3>3. ItemsKept({}, Mine(d), row'[d]) /\ PriceKept({}, Mine(d), row'[d], FALSE, Rescheduled)
      BY <1>5, <2>3, <3>1 DEF ItemsKept, PriceKept
    <3> QED BY <1>1, <1>5, <2>1, <2>3, <3>2, <3>3, PlanRow
  <2>4. CASE row[d].state # "gone"
    <3> DEFINE r == [row[d] EXCEPT
                 !.plan = IF op[c].plan = op[c].row.plan THEN @ ELSE op[c].plan,
                 !.pending = IF op[c].row.pending # None THEN None ELSE @]
    <3>1. /\ r.state = row[d].state /\ r.gen = row[d].gen /\ r.plan = op[c].plan
          /\ r.pending = None
      BY <1>0, <1>3 DEF Row
    <3>2. row' = [row EXCEPT ![d] = r]
      BY <1>8, <2>4 DEF UpgradeSave, SaveRow
    <3> HIDE DEF r
    <3>3. row'[d] = r
      BY <1>0, <3>2
    <3>4. ASSUME NEW W, \A o \in W : ~Selects(o, "save") /\ ~Removes(o) /\ ~Upgraded(o)
                       /\ o.at = "read"
          PROVE  ItemsKept(W, Mine(d), row'[d]) /\ PriceKept(W, Mine(d), row'[d], FALSE, Rescheduled)
      <4>1. ItemsKept(W, Mine(d), row'[d])
        BY <1>2, <1>4, <3>1, <3>3, <3>4 DEF ItemsKept
      <4>2. PriceKept(W, Mine(d), row'[d], FALSE, Rescheduled)
        BY <2>2, <3>1, <3>3, <3>4 DEF PriceKept
      <4> QED BY <4>1, <4>2
    <3>5. CASE op[c].row.pending # None
      <4>1. Goto(c, "read")
        BY <1>8, <2>4, <3>5 DEF UpgradeSave
      <4>2. PICK k \in Op : Moves(c, k) /\ k.at = "read" /\ k.kind = op[c].kind /\ k.dom = op[c].dom
        BY <1>0, <4>1, GotoMoves
      <4>3. ~Selects(k, "save") /\ ~Removes(k) /\ ~Upgraded(k)
        BY <4>2 DEF Selects, Removes, Upgraded
      <4>4. ItemsKept({k}, Mine(d), row'[d]) /\ PriceKept({k}, Mine(d), row'[d], FALSE, Rescheduled)
        BY <3>4, <4>2, <4>3
      <4>5. Rebuilds({k}, Mine(d), row'[d])
        BY <4>2 DEF Rebuilds
      <4> QED BY <1>1, <2>1, <4>2, <4>4, <4>5, PlanRow
    <3>6. CASE op[c].row.pending = None
      <4>1. Finish(c)
        BY <1>8, <3>6 DEF UpgradeSave
      <4>2. Moves(c, Idle) /\ Idle \in Op /\ Idle.dom # d
        BY <4>1, FinishMoves, RestTyped
      <4>3. ItemsKept({}, Mine(d), row'[d]) /\ PriceKept({}, Mine(d), row'[d], FALSE, Rescheduled)
        BY <3>4
      <4>4. ~Wants(row'[d]) /\ ~Wants(row[d])
        BY <1>3, <3>1, <3>3, <3>6 DEF Wants
      <4> QED BY <1>1, <2>1, <4>2, <4>3, <4>4, PlanRow
    <3> QED BY <3>5, <3>6
  <2> QED BY <2>3, <2>4
<1> QED BY <1>6, <1>7, <1>8 DEF UpgradePush

\* A domain that asks for a downgrade, or takes it back.
LEMMA PlanDowngrade ==
  ASSUME TypeInv, NEW c \in Calls, NEW d \in Domains, op[c].dom = d, MailOf(d), PlanOf(d),
         DowngradeSave(c) \/ KeepSave(c) \/ KeepRestore(c)
  PROVE  PlanOf(d)'
<1>0. /\ op[c] # Idle /\ op[c] \in Op /\ row[d] \in Row /\ row \in [Domains -> Row]
      /\ faults \in Nat /\ op[c].row \in Row
  BY OwnCall
<1>1. Solo(d) /\ hook' = hook /\ UNCHANGED stripeVars /\ op[c].at \in {"save", "restore"}
      /\ op[c].kind \in {"downgrade", "keep"}
  BY DEF MailOf, DowngradeSave, KeepSave, KeepRestore, jobVars, At
<1>2. ItemsKept({op[c]}, Mine(d), row[d]) /\ ~Rebuilds({op[c]}, Mine(d), row[d])
  BY <1>1, OwnPlan
<1>3. Light(op[c]) /\ op[c].at = "save" /\ ~KeepRestore(c)
  BY <1>1, <1>2 DEF ItemsKept, Light, Selects, Removes, Upgraded, KeepRestore, At
<1>4. EventsGrow /\ next' = next /\ Mine(d)' = Mine(d)
  BY <1>1, StillGrows DEF Mine
<1>5. CASE row[d].state = "gone"
  <2>1. row' = row /\ Finish(c)
    BY <1>3, <1>5 DEF DowngradeSave, KeepSave, SaveRow
  <2>2. Moves(c, Idle) /\ Idle \in Op /\ Idle.dom # d
    BY <2>1, FinishMoves, RestTyped
  <2> QED BY <1>1, <1>2, <1>3, <1>4, <2>1, <2>2, PlanMove
<1>6. CASE row[d].state # "gone"
  <2>1. \E p : row' = [row EXCEPT ![d] = [row[d] EXCEPT !.pending = p]]
    BY <1>3, <1>6 DEF DowngradeSave, KeepSave, SaveRow
  <2>2. /\ row'[d].state = row[d].state /\ row'[d].gen = row[d].gen /\ row'[d].plan = row[d].plan
    BY <1>0, <2>1 DEF Row
  <2>3. Goto(c, "read")
    BY <1>3, <1>6 DEF DowngradeSave, KeepSave
  <2>4. PICK k \in Op : Moves(c, k) /\ k.at = "read" /\ k.kind = op[c].kind /\ k.dom = op[c].dom
    BY <1>0, <2>3, GotoMoves
  <2>5. Light(k) /\ Rebuilds({k}, Mine(d), row'[d])
    BY <2>4 DEF Light, Selects, Removes, Upgraded, Rebuilds
  <2> QED BY <1>1, <1>3, <1>4, <2>2, <2>4, <2>5, PlanMove
<1> QED BY <1>5, <1>6

\* A call that has the schedule rebuilt.
LEMMA PlanSync ==
  ASSUME TypeInv, NEW c \in Calls, NEW d \in Domains, op[c].dom = d, MailOf(d), PlanOf(d),
         faults' = 0, SyncRead(c) \/ SyncWrite(c)
  PROVE  PlanOf(d)'
<1>0. /\ op[c] # Idle /\ op[c] \in Op /\ row[d] \in Row /\ row \in [Domains -> Row]
      /\ faults \in Nat /\ op[c].row \in Row
  BY OwnCall
<1>1. Solo(d) /\ hook' = hook /\ row' = row /\ op[c].at \in {"read", "write"}
  BY DEF MailOf, SyncRead, SyncWrite, jobVars, rowVars
<1>2. /\ ItemsKept({op[c]}, Mine(d), row[d]) /\ PriceKept({op[c]}, Mine(d), row[d], FALSE, Rescheduled)
  BY <1>1, OwnPlan
<1>3. Light(op[c])
  BY <1>1 DEF Light, Selects, Removes, Upgraded
<1>4. \A i, j \in Mine(d) : i = j
  BY <1>2 DEF ItemsKept
<1>5. CASE SyncRead(c)
  <2>1. PendingRows \subseteq Pending
        /\ op' = [op EXCEPT ![c] = [op[c] EXCEPT !.at = "write", !.pend = PendingRows]]
    BY <1>5, ReadMoves
  <2> DEFINE k == [op[c] EXCEPT !.at = "write", !.pend = PendingRows]
  <2>2. k \in Op /\ k.at = "write" /\ k.pend = PendingRows /\ k.dom = d
    BY <1>0, <2>1 DEF Op
  <2>3. Moves(c, k)
    BY <2>1 DEF Moves
  <2> HIDE DEF k
  <2>4. Light(k)
    BY <2>2 DEF Light, Selects, Removes, Upgraded
  <2>5. EventsGrow /\ next' = next /\ Mine(d)' = Mine(d)
    BY <1>5, StillGrows DEF SyncRead, Mine
  <2>6. Reported' \/ Rebuilds({k}, Mine(d), row'[d])
    <3>1. CASE \A i \in Mine(d) : row[d].state = "live" => i.gen = row[d].gen
      <4>1. Good(PendingRows, Mine(d), row[d])
        BY <3>1, ReadGood
      <4> QED BY <1>1, <2>2, <4>1 DEF Rebuilds
    <3>2. CASE Rescheduled
      <4>1. Reported
        BY <3>2 DEF Rescheduled, Reported
      <4> QED BY <1>1, <2>5, <4>1, Grown
    <3> QED BY <1>2, <3>1, <3>2 DEF PriceKept
  <2> QED BY <1>1, <1>3, <2>2, <2>3, <2>4, <2>5, <2>6, PlanMove
<1>6. CASE SyncWrite(c)
  <2>1. Rebuild(op[c].pend) /\ Finish(c) /\ op[c].at = "write"
    BY <1>0, <1>6 DEF SyncWrite, Fault
  <2>2. Moves(c, Idle) /\ Idle \in Op /\ Idle.dom # d
    BY <2>1, FinishMoves, RestTyped
  <2>3. EventsGrow /\ items' = items /\ (next' = next \/ Reported')
    BY <2>1, RebuildReports, RebuildGrows
  <2>4. Mine(d)' = Mine(d)
    BY <2>3 DEF Mine
  <2>5. CASE Good(op[c].pend, Mine(d), row[d])
    <3>1. op[c].pend \in SUBSET Pending
      BY <1>0, OpTyped
    <3>2. Agree(d, next', Mine(d), row[d])
      BY <1>4, <2>1, <2>5, <3>1, RebuildAgrees
    <3> QED BY <1>1, <1>3, <2>2, <2>3, <2>4, <3>2, PlanMove
  <2>6. CASE ~Good(op[c].pend, Mine(d), row[d])
    <3>1. ~Rebuilds({op[c]}, Mine(d), row[d])
      BY <2>1, <2>6 DEF Rebuilds
    <3> QED BY <1>1, <1>3, <2>2, <2>3, <2>4, <3>1, PlanMove
  <2> QED BY <2>5, <2>6
<1> QED BY <1>5, <1>6

\* A domain whose item Stripe is asked to remove.
LEMMA PlanRemove ==
  ASSUME TypeInv, NEW c \in Calls, NEW d \in Domains, op[c].dom = d, MailOf(d), PlanOf(d),
         sub' # "ended", faults' = 0, d \notin excused', CancelStripe(c) \/ DeleteStripe(c)
  PROVE  PlanOf(d)'
<1>0. /\ op[c] # Idle /\ op[c] \in Op /\ row[d] \in Row /\ row \in [Domains -> Row]
      /\ faults \in Nat /\ op[c].row \in Row
  BY OwnCall
<1>1. Solo(d) /\ hook' = hook /\ row' = row /\ op[c].at = "stripe" /\ Goto(c, "save")
      /\ op[c].kind \in {"cancel", "delete"} /\ ~Refused(c)
  BY DEF MailOf, CancelStripe, DeleteStripe, jobVars, rowVars, At
<1>2. /\ ItemsKept({op[c]}, Mine(d), row[d]) /\ PriceKept({op[c]}, Mine(d), row[d], FALSE, Rescheduled)
      /\ Known(op[c], row[d].state)
  BY <1>1, OwnPlan, OwnFacts
<1>3. Light(op[c])
  BY <1>1 DEF Light, Selects, Removes, Upgraded
<1>4. row[d].state # "live" => Mine(d) = {}
  BY <1>2, <1>3 DEF ItemsKept, Light
<1>5. PICK k \in Op : /\ Moves(c, k) /\ k.at = "save" /\ k.kind = op[c].kind /\ k.dom = op[c].dom
                      /\ k.row = op[c].row /\ k.alone = op[c].alone
  BY <1>0, <1>1, GotoMoves
<1>6. CASE op[c].alone
  <2>1. events' = events \cup {Updated(next)} /\ UNCHANGED <<items, next, made>> /\ CancelStripe(c)
    BY <1>0, <1>1, <1>6 DEF CancelStripe, DeleteStripe, Fault, Ended, stripeVars
  <2>2. EventsGrow /\ Reported'
    BY <2>1, UpdatedGrows
  <2>3. Mine(d)' = Mine(d)
    BY <2>1 DEF Mine
  <2>4. k.kind = "cancel"
    BY <1>5, <2>1 DEF CancelStripe, At
  <2>5. Light(k)
    BY <1>5, <1>6, <2>4 DEF Light, Selects, Removes, Upgraded
  <2> QED BY <1>1, <1>3, <1>5, <2>2, <2>3, <2>4, <2>5, PlanMove
<1>7. CASE ~op[c].alone
  <2>1. Removable(d, op[c].row.gen)
    BY <1>1, <1>7 DEF Refused
  <2>2. row[d].state = "live" /\ op[c].row.state = "live"
    <3>1. Mine(d) # {}
      BY <2>1 DEF Removable, ItemOf, Mine
    <3> QED BY <1>1, <1>2, <1>4, <3>1 DEF Known
  <2>3. SetItems(items \ ItemOf(d, op[c].row.gen))
    BY <1>0, <1>1, <1>7, <2>1, <2>2 DEF CancelStripe, DeleteStripe, Fault
  <2>4. EventsGrow /\ Reported' /\ items' = items \ ItemOf(d, op[c].row.gen)
    BY <2>3, SetReports
  <2>5. PICK M2 : M2 = Mine(d)'
    OBVIOUS
  <2>6. M2 = {}
    BY <1>2, <2>1, <2>4, <2>5 DEF ItemsKept, Removable, ItemOf, Mine
  <2>7. Removes(k) /\ ~Selects(k, "save") /\ k.at = "save" /\ k.kind \in {"cancel", "delete"} /\ ~k.alone
    BY <1>1, <1>5, <1>7 DEF Removes, Selects
  <2>8. ItemsKept({k}, M2, row'[d]) /\ PriceKept({k}, M2, row'[d], FALSE, Rescheduled')
    <3>1. ItemsKept({k}, M2, row'[d])
      BY <1>1, <2>2, <2>6, <2>7 DEF ItemsKept
    <3>2. PriceKept({k}, M2, row'[d], FALSE, Rescheduled')
      BY <2>6 DEF PriceKept
    <3> QED BY <3>1, <3>2
  <2> QED BY <1>1, <1>5, <2>4, <2>5, <2>8, PlanOwn
<1> QED BY <1>6, <1>7

\* A domain whose row learns it.
LEMMA PlanLeave ==
  ASSUME TypeInv, NEW c \in Calls, NEW d \in Domains, op[c].dom = d, MailOf(d), PlanOf(d),
         CancelSave(c) \/ DeleteRow(c)
  PROVE  PlanOf(d)'
<1>0. /\ op[c] # Idle /\ op[c] \in Op /\ row[d] \in Row /\ row \in [Domains -> Row]
      /\ faults \in Nat /\ op[c].row \in Row
  BY OwnCall
<1>1. Solo(d) /\ hook' = hook /\ UNCHANGED stripeVars /\ op[c].at = "save"
      /\ op[c].kind \in {"cancel", "delete"}
  BY DEF MailOf, CancelSave, DeleteRow, jobVars, At
<1>2. /\ ItemsKept({op[c]}, Mine(d), row[d]) /\ Known(op[c], row[d].state)
      /\ ~Rebuilds({op[c]}, Mine(d), row[d])
  BY <1>1, OwnPlan, OwnFacts
<1>3. EventsGrow /\ next' = next /\ Mine(d)' = Mine(d)
  BY <1>1, StillGrows DEF Mine
<1>4. row[d].state \in {"live", "canceled"} /\ (op[c].row.state = "canceled" => row[d].state = "canceled")
  BY <1>1, <1>2 DEF Known
<1>5. CASE CancelSave(c) /\ op[c].alone
  <2>1. row' = row /\ Finish(c)
    BY <1>5 DEF CancelSave
  <2>2. Moves(c, Idle) /\ Idle \in Op /\ Idle.dom # d
    BY <2>1, FinishMoves, RestTyped
  <2>3. Light(op[c])
    BY <1>1, <1>5 DEF Light, Selects, Removes, Upgraded
  <2> QED BY <1>1, <1>2, <1>3, <2>1, <2>2, <2>3, PlanMove
<1>6. CASE DeleteRow(c) \/ ~op[c].alone
  <2>1. ~op[c].alone
    BY <1>1, <1>2, <1>6 DEF ItemsKept, DeleteRow, At
  <2>2. Mine(d) = {}
    BY <1>1, <1>2, <2>1 DEF ItemsKept, Removes, Selects
  <2>3. row'[d].state \in {"canceled", "gone"}
    <3>1. CASE CancelSave(c)
      <4>1. row' = [row EXCEPT ![d] = [row[d] EXCEPT !.state =
                          IF op[c].row.state = "canceled" THEN @ ELSE "canceled"]]
        BY <1>4, <2>1, <3>1 DEF CancelSave, SaveRow
      <4> QED BY <1>0, <1>4, <4>1 DEF Row
    <3>2. CASE DeleteRow(c)
      BY <1>0, <3>2 DEF DeleteRow, NoRow
    <3> QED BY <3>1, <3>2
  <2>4. ASSUME NEW W, \A o \in W : o.at = "off"
        PROVE  ItemsKept(W, Mine(d), row'[d]) /\ PriceKept(W, Mine(d), row'[d], FALSE, Rescheduled)
    BY <2>2, <2>3, <2>4 DEF ItemsKept, PriceKept, Selects
  <2>5. CASE Finish(c)
    <3>1. Moves(c, Idle) /\ Idle \in Op /\ Idle.dom # d
      BY <2>5, FinishMoves, RestTyped
    <3>2. ItemsKept({}, Mine(d), row'[d]) /\ PriceKept({}, Mine(d), row'[d], FALSE, Rescheduled)
      BY <2>4
    <3> QED BY <1>1, <2>2, <3>1, <3>2, PlanRow
  <2>6. CASE Goto(c, "off")
    <3>1. PICK k \in Op : Moves(c, k) /\ k.at = "off" /\ k.dom = op[c].dom
      BY <1>0, <2>6, GotoMoves
    <3>2. ItemsKept({k}, Mine(d), row'[d]) /\ PriceKept({k}, Mine(d), row'[d], FALSE, Rescheduled)
      BY <2>4, <3>1
    <3> QED BY <1>1, <2>2, <3>1, <3>2, PlanRow
  <2> QED BY <2>5, <2>6 DEF CancelSave, AfterCancel, DeleteRow
<1> QED BY <1>5, <1>6

\* Any step of the only call on d.
LEMMA PlanStepOwn ==
  ASSUME TypeInv, NEW c \in Calls, NEW d \in Domains, op[c].dom = d, MailOf(d), PlanOf(d),
         sub' # "ended", faults' = 0, d \notin excused', CallStep(c)
  PROVE  PlanOf(d)'
BY PlanSelect, PlanUpgrade, PlanDowngrade, PlanSync, PlanRemove, PlanLeave DEF CallStep

\* Any call's step.
LEMMA PlanCalls ==
  ASSUME TypeInv, MailInv, PlanInv, NEW c \in Calls, CallStep(c)
  PROVE  PlanInv'
<1>1. PICK k \in Op : Moves(c, k) /\ Left(c, k)
  BY CallMoves
<1>2. /\ op[c].dom \in Domains
      /\ \A e \in Domains \ {op[c].dom} : row'[e] = row[e]
      /\ hook' = hook /\ (sub = "ended" => sub' = "ended")
      /\ excused \subseteq excused' /\ (faults' = faults \/ faults' = faults + 1)
  BY CallMoves
<1>3. ASSUME faults' = 0, sub' # "ended", NEW d \in Domains \ excused'
      PROVE  PlanOf(d)'
  <2>1. PlanOf(d) /\ MailOf(d)
    BY <1>2, <1>3 DEF PlanInv, MailInv, TypeInv, TypeOK
  <2>2. CASE op[c].dom = d
    BY <1>3, <2>1, <2>2, PlanStepOwn
  <2>3. CASE op[c].dom # d
    <3>1. k.dom # d
      BY <1>1, <2>3, RestTyped DEF Left
    <3>2. EventsGrow /\ (next' = next \/ Reported') /\ Mine(d)' = Mine(d)
      BY <1>3, <2>3, CallStripe
    <3> QED BY <1>1, <1>2, <2>1, <2>3, <3>1, <3>2, PlanOther
  <2> QED BY <2>2, <2>3
<1> QED BY <1>3 DEF PlanInv

\* The first call on d begins.
LEMMA PlanNew ==
  ASSUME TypeInv, NEW c \in Calls, NEW k \in Op, Moves(c, k), NEW d \in Domains, k.dom = d,
         \A b \in Calls : op[b].dom # d, ~Turning, PlanOf(d), row' = row, UNCHANGED stripeVars,
         hook' = hook, k.row = row[d],
         Light(k), k.at # "restore", ~(k.kind = "delete" /\ k.at = "save" /\ k.alone)
  PROVE  PlanOf(d)'
<1>1. On(d) = {} /\ On(d)' = {k}
  BY OnMoves
<1>2. Mine(d)' = Mine(d) /\ (Turning' <=> Turning) /\ (Rescheduled' <=> Rescheduled)
      /\ (Reported' <=> Reported) /\ next' = next
  BY DEF Mine, Turning, Rescheduled, Reported, stripeVars
<1>3. ItemsKept({k}, Mine(d), row[d])
  <2>1. ItemsKept({}, Mine(d), row[d])
    BY <1>1 DEF PlanOf
  <2> QED BY <2>1 DEF ItemsKept, Light
<1>4. PriceKept({k}, Mine(d), row[d], Turning', Rescheduled')
  <2>1. PriceKept({}, Mine(d), row[d], Turning, Rescheduled)
    BY <1>1 DEF PlanOf
  <2> QED BY <1>2, <2>1 DEF PriceKept, Light
<1>5. hook'.at = "apply" => Applies(d, hook'.due, row[d])
  BY DEF PlanOf
<1>6. NextKept(d)'
  <2>1. ~Rebuilds(On(d), Mine(d), row[d])
    BY <1>1 DEF Rebuilds
  <2>2. NextKept(d)
    BY DEF PlanOf
  <2>3. \/ Agree(d, next, Mine(d), row[d]) \/ Reported
        \/ hook.at = "read" \/ (hook.at = "write" /\ Good(hook.due, Mine(d), row[d]))
    BY <2>1, <2>2 DEF NextKept
  <2> QED BY <1>2, <2>3 DEF NextKept
<1> QED BY <1>1, <1>2, <1>3, <1>4, <1>5, <1>6 DEF PlanOf

\* Any call that begins.
LEMMA PlanBegins ==
  ASSUME TypeInv, PlanInv, NEW c \in Calls, NEW d \in Domains, BeginCall(c, d)
  PROVE  PlanInv'
<1>1. ASSUME NEW kind \in {"select", "upgrade", "downgrade", "keep", "cancel", "delete"},
             NEW p \in Plans \cup {None}, NEW s \in {"start", "stripe", "save"},
             Begin(c, kind, d, p, s), s = "save" => kind \in {"downgrade", "keep"}
      PROVE  PlanInv'
  <2>1. PICK k \in Op : /\ Moves(c, k) /\ k.kind = kind /\ k.dom = d /\ k.at = s /\ k.row = row[d]
    BY <1>1, BeginMoves
  <2>2. /\ op[c] = Idle /\ excused \subseteq excused' /\ faults' = faults
        /\ row' = row /\ hook' = hook /\ UNCHANGED stripeVars /\ sub' = sub
        /\ d \notin excused' => ~Turning /\ \A b \in Calls : op[b].dom # d
    BY <1>1, BeginMoves DEF rowVars, stripeVars
  <2>3. ASSUME faults' = 0, sub' # "ended", NEW e \in Domains \ excused'
        PROVE  PlanOf(e)'
    <3>1. PlanOf(e)
      BY <2>2, <2>3 DEF PlanInv
    <3>2. CASE e # d
      <4>1. op[c].dom # e
        BY <2>2, RestTyped
      <4>2. EventsGrow /\ next' = next /\ Mine(e)' = Mine(e)
        BY <2>2, StillGrows DEF Mine
      <4> QED BY <2>1, <2>2, <3>1, <3>2, <4>1, <4>2, PlanOther
    <3>3. CASE e = d
      <4>1. Light(k)
        BY <1>1, <2>1 DEF Light, Selects, Removes, Upgraded
      <4> QED BY <1>1, <2>1, <2>2, <2>3, <3>1, <3>3, <4>1, PlanNew
    <3> QED BY <3>2, <3>3
  <2> QED BY <2>3 DEF PlanInv
<1>2. CASE Cancel(c, d) \/ Delete(c, d) \/ Keep(c, d)
  BY <1>1, <1>2 DEF Cancel, Delete, Keep
<1>3. CASE \E p \in Plans : Select(c, d, p) \/ Upgrade(c, d, p) \/ Downgrade(c, d, p)
  BY <1>1, <1>3 DEF Select, Upgrade, Downgrade
<1> QED BY <1>2, <1>3 DEF BeginCall

-----------------------------------------------------------------------------
(* The webhook, and Stripe's clock. *)

\* While no call moves, the calls on d are the same.
LEMMA OnSame ==
  ASSUME op' = op, NEW d
  PROVE  On(d)' = On(d)
BY DEF On

\* The webhook has the schedule rebuilt.
LEMMA PlanRebuilds ==
  ASSUME TypeInv, NEW d \in Domains, PlanOf(d), faults' = 0, HookRead \/ HookWrite
  PROVE  PlanOf(d)'
<1>0. op' = op /\ row' = row /\ On(d)' = On(d)
  BY OnSame DEF HookRead, HookWrite, rowVars
<1>1. /\ hook.at \in {"read", "write"} /\ hook'.at # "apply" /\ hook \in Hook /\ faults \in Nat
  BY HookMoves, BoundsAssumption DEF TypeInv, TypeOK
<1>2. EventsGrow /\ (next' = next \/ Reported') /\ items' = items
  <2>1. CASE HookRead
    BY <2>1, StillGrows DEF HookRead
  <2>2. CASE HookWrite
    BY <1>1, <2>2, RebuildReports, RebuildGrows DEF HookWrite, Fault
  <2> QED BY <2>1, <2>2
<1>3. Mine(d)' = Mine(d)
  BY <1>2 DEF Mine
<1>4. (Turning' <=> Turning) /\ (Rescheduled => Rescheduled') /\ (next' = next /\ Reported => Reported')
  BY <1>1, <1>2 DEF EventsGrow, Turning, Rescheduled, Reported
<1>5. ItemsKept(On(d), Mine(d), row[d]) /\ PriceKept(On(d), Mine(d), row[d], Turning, Rescheduled)
      /\ NextKept(d)
  BY DEF PlanOf
<1>6. PriceKept(On(d), Mine(d), row[d], Turning', Rescheduled')
  BY <1>4, <1>5 DEF PriceKept
<1>7. NextKept(d)'
  <2>1. CASE HookRead
    <3>1. hook'.at = "write" /\ hook'.due = PendingRows
      BY <2>1, HookMoves
    <3>2. CASE \A i \in Mine(d) : row[d].state = "live" => i.gen = row[d].gen
      <4>1. Good(PendingRows, Mine(d), row[d])
        BY <3>2, ReadGood
      <4> QED BY <1>0, <1>3, <3>1, <4>1 DEF NextKept
    <3>3. CASE Rescheduled
      <4>1. Reported
        BY <3>3 DEF Rescheduled, Reported
      <4>2. Reported'
        BY <1>2, <1>4, <4>1
      <4> QED BY <4>2 DEF NextKept
    <3> QED BY <1>5, <3>2, <3>3 DEF PriceKept
  <2>2. CASE HookWrite
    <3>1. hook.at = "write" /\ Rebuild(hook.due)
      BY <1>1, <2>2, HookMoves DEF HookWrite, Fault
    <3>2. CASE Reported'
      BY <3>2 DEF NextKept
    <3>3. CASE next' = next /\ ~Reported'
      <4>1. CASE Good(hook.due, Mine(d), row[d])
        <5>1. hook.due \in SUBSET Pending
          BY <1>1 DEF Hook
        <5>2. \A i, j \in Mine(d) : i = j
          BY <1>5 DEF ItemsKept
        <5>3. Agree(d, next', Mine(d), row[d])
          BY <3>1, <4>1, <5>1, <5>2, RebuildAgrees
        <5> QED BY <1>0, <1>3, <5>3 DEF NextKept
      <4>2. CASE ~Good(hook.due, Mine(d), row[d])
        <5>1. Agree(d, next, Mine(d), row[d]) \/ Rebuilds(On(d), Mine(d), row[d])
          BY <1>4, <1>5, <3>1, <3>3, <4>2 DEF NextKept
        <5> QED BY <1>0, <1>3, <3>3, <5>1 DEF NextKept
      <4> QED BY <4>1, <4>2
    <3> QED BY <1>2, <3>2, <3>3
  <2> QED BY <2>1, <2>2
<1> QED BY <1>0, <1>1, <1>3, <1>5, <1>6, <1>7 DEF PlanOf

\* The webhook learns of a change: rows follow items nobody knows, and the schedule
\* is rebuilt unless nothing is pending.
LEMMA PlanUpdated ==
  ASSUME TypeInv, NEW d \in Domains, PlanOf(d), d \notin excused', NEW e \in events, HookUpdated(e)
  PROVE  PlanOf(d)'
<1>0. /\ op' = op /\ items' = items /\ next' = next /\ events' = events \ {e} /\ e.kind = "updated"
      /\ On(d)' = On(d) /\ Mine(d)' = Mine(d)
  BY OnSame DEF HookUpdated, Take, Mine
<1>1. row[d] \in Row /\ hook = Resting /\ hook.at = "idle" /\ hook'.at \in {"read", "idle"}
  BY HookMoves DEF TypeInv, TypeOK
<1>2. /\ row'[d].state = row[d].state /\ row'[d].plan = row[d].plan /\ row'[d].pending = row[d].pending
      /\ row[d].state = "live" => \A i \in Mine(d) : (\A j \in Mine(d) : i = j) => i.gen = row'[d].gen
  <2>1. row'[d] = Followed(d)
    BY DEF HookUpdated
  <2> DEFINE unknown == {i \in items : i.dom = d /\ i.gen # row[d].gen}
  <2>2. CASE row[d].state = "live" /\ unknown # {}
    <3>1. PICK i \in unknown : i = CHOOSE j \in unknown : TRUE
      BY <2>2
    <3>2. row'[d] = [row[d] EXCEPT !.gen = i.gen]
      BY <2>1, <2>2, <3>1 DEF Followed, Live
    <3>3. i \in Mine(d)
      BY DEF Mine
    <3> QED BY <1>1, <3>2, <3>3 DEF Row
  <2>3. CASE ~(row[d].state = "live" /\ unknown # {})
    <3>1. row'[d] = row[d]
      BY <2>1, <2>3 DEF Followed, Live
    <3> QED BY <2>3, <3>1 DEF Mine
  <2> QED BY <2>2, <2>3
<1>3. /\ ItemsKept(On(d), Mine(d), row[d]) /\ PriceKept(On(d), Mine(d), row[d], Turning, Rescheduled)
      /\ NextKept(d)
  BY DEF PlanOf
<1>4. ItemsKept(On(d), Mine(d), row'[d])
  BY <1>2, <1>3 DEF ItemsKept
<1>5. PriceKept(On(d), Mine(d), row'[d], Turning', Rescheduled')
  <2>1. Turning' <=> Turning
    BY <1>0, <1>1 DEF Turning
  <2>2. \A i, j \in Mine(d) : i = j
    BY <1>3 DEF ItemsKept
  <2>3. Owed(row'[d], row'[d].plan) = Owed(row[d], row[d].plan)
    BY <1>2 DEF Owed, Wants
  <2> QED BY <1>2, <1>3, <2>1, <2>2, <2>3 DEF PriceKept
<1>6. (Wants(row'[d]) <=> Wants(row[d])) /\ (Wants(row[d]) => row'[d].pending = row[d].pending)
  BY <1>2 DEF Wants
<1>7. /\ Agree(d, next, Mine(d), row[d]) => Agree(d, next', Mine(d), row'[d])
      /\ \A due : Good(due, Mine(d), row[d]) => Good(due, Mine(d), row'[d])
  BY <1>0, <1>6, OwedSame
<1>8. NextKept(d)'
  <2>1. CASE hook'.at = "read"
    BY <2>1 DEF NextKept
  <2>2. CASE Reported'
    BY <2>2 DEF NextKept
  <2>3. CASE Rebuilds(On(d), Mine(d), row[d])
    <3>1. Rebuilds(On(d), Mine(d), row'[d])
      BY <1>7, <2>3 DEF Rebuilds
    <3> QED BY <1>0, <3>1 DEF NextKept
  <2>4. CASE Agree(d, next, Mine(d), row[d])
    BY <1>0, <1>7, <2>4 DEF NextKept
  <2>5. CASE /\ hook'.at # "read" /\ ~Reported' /\ Reported
    <3>1. next = {} \/ e.sched
      BY <1>0, <2>5 DEF Reported
    <3>2. ~((\E x \in Domains : Live(x)) /\ (e.sched \/ \E x \in Domains : Live(x) /\ row[x].pending # None))
      <4>1. hook' = IF (\E x \in Domains : Live(x))
                       /\ (e.sched \/ \E x \in Domains : Live(x) /\ row[x].pending # None)
                    THEN [hook EXCEPT !.at = "read"] ELSE Resting
        BY DEF HookUpdated
      <4>2. [hook EXCEPT !.at = "read"].at = "read"
        BY DEF TypeInv, TypeOK, Hook
      <4> QED BY <2>5, <4>1, <4>2
    <3>3. next = {}
      <4>1. (\E x \in Domains : Live(x)) \/ next = {}
        BY DEF HookUpdated
      <4> QED BY <3>1, <3>2, <4>1
    <3>4. ~Wants(row[d])
      BY <3>2 DEF Wants, Live
    <3>5. Agree(d, next', Mine(d), row'[d])
      BY <1>0, <1>6, <3>3, <3>4 DEF Agree, Owed
    <3> QED BY <1>0, <3>5 DEF NextKept
  <2> QED BY <1>1, <1>3, <2>1, <2>2, <2>3, <2>4, <2>5 DEF NextKept
<1> QED BY <1>0, <1>1, <1>4, <1>5, <1>8 DEF PlanOf

\* The webhook reads the rows a renewal is about.
LEMMA PlanRenewed ==
  ASSUME TypeInv, NEW d \in Domains, PlanOf(d), NEW e \in events, HookRenewed(e)
  PROVE  PlanOf(d)'
<1>0. /\ op' = op /\ items' = items /\ next' = next /\ events' = events \ {e} /\ e.kind = "renewed"
      /\ row' = row /\ On(d)' = On(d) /\ Mine(d)' = Mine(d)
  BY OnSame DEF HookRenewed, Take, Mine, rowVars
<1>1. hook.at = "idle" /\ hook'.at = "apply" /\ hook'.due = PendingRows
  BY HookMoves
<1>2. Turning /\ Turning' /\ (Rescheduled => Rescheduled') /\ (Reported => Reported')
  BY <1>0, <1>1 DEF Turning, Rescheduled, Reported
<1>3. /\ ItemsKept(On(d), Mine(d), row[d]) /\ PriceKept(On(d), Mine(d), row[d], Turning, Rescheduled)
      /\ NextKept(d)
  BY DEF PlanOf
<1>4. PriceKept(On(d), Mine(d), row[d], Turning', Rescheduled')
  BY <1>2, <1>3 DEF PriceKept
<1>5. Applies(d, PendingRows, row[d])
  <2>1. ASSUME row[d].state = "live", row[d].pending # None
        PROVE  \E p \in PendingRows : p.dom = d
    <3>1. [dom |-> d, gen |-> row[d].gen, plan |-> row[d].pending] \in PendingRows
      BY <2>1 DEF PendingRows, Live
    <3> QED BY <3>1
  <2>2. \A p \in PendingRows : p.dom = d => p.plan = row[d].pending
    BY DEF PendingRows
  <2> QED BY <2>1, <2>2 DEF Applies
<1>6. NextKept(d)'
  <2>1. Agree(d, next, Mine(d), row[d]) \/ Reported \/ Rebuilds(On(d), Mine(d), row[d])
    BY <1>1, <1>3 DEF NextKept
  <2> QED BY <1>0, <1>2, <2>1 DEF NextKept
<1> QED BY <1>0, <1>1, <1>3, <1>4, <1>5, <1>6 DEF PlanOf

\* The pending plan of a renewed row becomes its plan.
LEMMA PlanApply ==
  ASSUME TypeInv, NEW d \in Domains, PlanOf(d), HookApply
  PROVE  PlanOf(d)'
<1>0. /\ op' = op /\ items' = items /\ next' = next /\ events' = events
      /\ On(d)' = On(d) /\ Mine(d)' = Mine(d)
  BY OnSame DEF HookApply, Mine, stripeVars
<1>1. /\ row[d] \in Row /\ hook.at = "apply" /\ hook'.at = "idle" /\ hook.due \subseteq Pending
  BY HookMoves DEF TypeInv, TypeOK, Hook
<1>2. /\ Turning /\ (Rescheduled' <=> Rescheduled) /\ (Reported' <=> Reported)
  BY <1>0, <1>1 DEF Turning, Rescheduled, Reported
<1>3. /\ ItemsKept(On(d), Mine(d), row[d]) /\ PriceKept(On(d), Mine(d), row[d], Turning, Rescheduled)
      /\ NextKept(d) /\ Applies(d, hook.due, row[d])
  BY <1>1 DEF PlanOf
<1>4. On(d) = {}
  BY <1>2, <1>3 DEF PriceKept
<1>5. /\ row'[d].state = row[d].state /\ row'[d].gen = row[d].gen
      /\ row[d].state = "live" => /\ row'[d].pending = None
                                  /\ row'[d].plan = Owed(row[d], row[d].plan)
  <2>1. CASE row[d].state # "gone" /\ \E p \in hook.due : p.dom = d
    <3>1. PICK p \in hook.due : p.dom = d /\ p = CHOOSE q \in hook.due : q.dom = d
      BY <2>1
    <3>2. row'[d] = [row[d] EXCEPT !.plan = p.plan, !.pending = None]
      BY <2>1, <3>1 DEF HookApply
    <3>3. p.plan # None
      BY <1>1, NoneAssumption DEF Pending
    <3>4. row[d].state = "live" => p.plan = row[d].pending
      BY <1>3, <3>1 DEF Applies
    <3> QED BY <1>1, <3>2, <3>3, <3>4 DEF Row, Owed, Wants
  <2>2. CASE ~(row[d].state # "gone" /\ \E p \in hook.due : p.dom = d)
    <3>1. row'[d] = row[d]
      BY <2>2 DEF HookApply
    <3>2. row[d].state = "live" => row[d].pending = None
      BY <1>3, <2>2 DEF Applies
    <3> QED BY <3>1, <3>2 DEF Owed, Wants
  <2> QED BY <2>1, <2>2
<1>6. row[d].state = "live" => \A i \in Mine(d) : /\ i.gen = row'[d].gen \/ Rescheduled
                                                  /\ i.plan = row'[d].plan
  BY <1>2, <1>3, <1>5 DEF PriceKept
<1>7. ~Wants(row'[d]) /\ (row[d].state # "live" => Mine(d) = {})
  BY <1>3, <1>4, <1>5 DEF Wants, ItemsKept
<1>8. ItemsKept({}, Mine(d), row'[d])
  BY <1>3, <1>4, <1>5 DEF ItemsKept
<1>9. PriceKept({}, Mine(d), row'[d], Turning', Rescheduled')
  BY <1>2, <1>5, <1>6, <1>7 DEF PriceKept, Owed
<1>10. NextKept(d)'
  <2>1. \A i \in Mine(d) : Owed(row'[d], i.plan) = Owed(row[d], i.plan)
    BY <1>5, <1>6, <1>7 DEF Owed
  <2>2. Agree(d, next, Mine(d), row[d]) => Agree(d, next', Mine(d), row'[d])
    BY <1>0, <2>1 DEF Agree
  <2>3. Agree(d, next, Mine(d), row[d]) \/ Reported
    BY <1>1, <1>3, <1>4 DEF NextKept, Rebuilds
  <2> QED BY <1>0, <1>2, <2>2, <2>3 DEF NextKept
<1> QED BY <1>0, <1>1, <1>4, <1>8, <1>9, <1>10 DEF PlanOf

\* Any step of the webhook.
LEMMA PlanHooks ==
  ASSUME TypeInv, Told, PlanInv, HookStep
  PROVE  PlanInv'
<1>1. sub' = sub /\ excused \subseteq excused' /\ (faults' = faults \/ faults' = faults + 1)
  BY DEF HookStep, HookRead, HookWrite, HookApply, HookOff, HookUpdated, HookRenewed, HookDeleted,
     Take, Rebuild, stripeVars, boundVars, historyVars, Fault, NoFault, TypeInv, TypeOK
<1> SUFFICES ASSUME faults' = 0, sub' # "ended", NEW d \in Domains \ excused'
             PROVE  PlanOf(d)'
  BY DEF PlanInv
<1>2. PlanOf(d) /\ sub # "ended"
  BY <1>1 DEF PlanInv, TypeInv, TypeOK
<1>3. ~HookOff
  BY <1>2 DEF HookOff, Told
<1>4. \A e \in events : ~HookDeleted(e)
  BY <1>2 DEF HookDeleted, Told
<1>5. CASE HookRead \/ HookWrite
  BY <1>2, <1>5, PlanRebuilds
<1>6. CASE HookApply
  BY <1>2, <1>6, PlanApply
<1>7. ASSUME NEW e \in events, HookUpdated(e) \/ HookRenewed(e) PROVE PlanOf(d)'
  BY <1>2, <1>7, PlanUpdated, PlanRenewed
<1> QED BY <1>3, <1>4, <1>5, <1>6, <1>7 DEF HookStep

\* A count of users pushed leaves the domain one item, of the same plan.
LEMMA PushedOwn ==
  ASSUME TypeInv, NEW d \in Domains, NEW g, NEW n \in Users, \A i, j \in Mine(d) : i = j,
         NEW M2, M2 = {i \in Changed(ItemOf(d, g), None, n) : i.dom = d}
  PROVE  /\ \A i, j \in M2 : i = j
         /\ \A j \in M2 : \E i \in Mine(d) : j.gen = i.gen /\ j.plan = i.plan
         /\ \A i \in Mine(d) : \E j \in M2 : j.gen = i.gen /\ j.plan = i.plan
<1> DEFINE To(i) == [i EXCEPT !.plan = @, !.qty = n]
           old == ItemOf(d, g)
<1>1. items \subseteq Item /\ old \subseteq Mine(d) /\ \A i \in old : i \in Item /\ i.dom = d
  BY DEF TypeInv, TypeOK, ItemOf, Mine
<1>2. \A i \in old : To(i).dom = d /\ To(i).gen = i.gen /\ To(i).plan = i.plan
  BY <1>1 DEF Item
<1>3. Changed(old, None, n) = (items \ old) \cup {To(i) : i \in old}
  BY DEF Changed
<1> HIDE DEF To, old
<1>4. M2 = (Mine(d) \ old) \cup {To(i) : i \in old}
  BY <1>1, <1>2, <1>3 DEF Mine, old
<1>5. CASE old = {}
  BY <1>4, <1>5
<1>6. CASE old # {}
  <2>1. PICK i \in old : Mine(d) = {i} /\ old = {i}
    BY <1>1, <1>6
  <2>2. M2 = {To(i)}
    BY <1>4, <2>1
  <2> QED BY <1>2, <1>6, <2>1, <2>2
<1> QED BY <1>5, <1>6

\* A count of users pushed to a domain's item leaves every domain's plan as it was.
LEMMA PlanPushed ==
  ASSUME TypeInv, NEW x \in Domains, NEW g, NEW n \in Users,
         SetItems(Changed(ItemOf(x, g), None, n)), op' = op, row' = row, hook' = hook,
         NEW d \in Domains, PlanOf(d)
  PROVE  PlanOf(d)'
<1>1. EventsGrow /\ Reported' /\ items' = Changed(ItemOf(x, g), None, n)
  BY SetReports
<1>2. On(d)' = On(d) /\ row'[d] = row[d]
  BY OnSame
<1>3. PICK M2 : M2 = Mine(d)'
  OBVIOUS
<1>4. M2 = {i \in Changed(ItemOf(x, g), None, n) : i.dom = d}
  BY <1>1, <1>3 DEF Mine
<1>5. CASE d # x
  <2>1. d \in Domains \ {x}
    BY <1>5
  <2>2. None \in Plans \cup {None}
    OBVIOUS
  <2>3. {i \in Changed(ItemOf(x, g), None, n) : i.dom = d} = Mine(d)
    BY <2>1, <2>2, ChangedOthers
  <2>4. Mine(d)' = Mine(d)
    BY <1>3, <1>4, <2>3
  <2> QED BY <1>1, <1>2, <2>4, PlanFrame
<1>6. CASE d = x
  <2>1. \A i, j \in Mine(d) : i = j
    BY DEF PlanOf, ItemsKept
  <2>3. M2 = {i \in Changed(ItemOf(d, g), None, n) : i.dom = d}
    BY <1>4, <1>6
  <2>5. /\ \A i, j \in M2 : i = j
        /\ \A j \in M2 : \E i \in Mine(d) : j.gen = i.gen /\ j.plan = i.plan
        /\ \A i \in Mine(d) : \E j \in M2 : j.gen = i.gen /\ j.plan = i.plan
    BY <2>1, <2>3, PushedOwn
  <2> QED BY <1>1, <1>2, <1>3, <2>5, PlanFrame
<1> QED BY <1>5, <1>6

\* The queue of counts, the night's reconciliation and the end of the whole
\* subscription, or its going on.
LEMMA PlanRest ==
  ASSUME TypeInv, PlanInv,
         \/ \E ending \in BOOLEAN : EndAll(ending)
         \/ RecStep
         \/ \E d \in Domains : ChangeUsers(d) \/ SyncCount(d) \/ SyncPush(d)
         \/ UNCHANGED vars
  PROVE  PlanInv'
<1>1. /\ op' = op /\ hook' = hook /\ row' = row /\ excused' = excused
      /\ sub = "ended" => sub' = "ended"
      /\ faults' = faults \/ faults' = faults + 1
  BY DEF EndAll, RecStep, RecBegin, RecPush, RecCount, ChangeUsers, SyncCount, SyncPush, vars,
     rowVars, stripeVars, jobVars, boundVars, historyVars, Fault, NoFault, SetItems
<1> SUFFICES ASSUME faults' = 0, sub' # "ended", NEW d \in Domains \ excused'
             PROVE  PlanOf(d)'
  BY DEF PlanInv
<1>2. PlanOf(d)
  BY <1>1 DEF PlanInv, TypeInv, TypeOK
<1>3. On(d)' = On(d) /\ row'[d] = row[d]
  BY <1>1, OnSame
<1>4. CASE UNCHANGED stripeVars
  <2>1. EventsGrow /\ next' = next /\ Mine(d)' = Mine(d)
    BY <1>4, StillGrows DEF Mine
  <2> QED BY <1>1, <1>2, <1>3, <2>1, PlanFrame
<1>5. CASE \E ending \in BOOLEAN : EndAll(ending)
  <2>1. events' = events \cup {Updated(next)} /\ next' = next /\ items' = items
    BY <1>5 DEF EndAll
  <2>2. EventsGrow /\ Mine(d)' = Mine(d)
    BY <2>1, UpdatedGrows DEF Mine
  <2> QED BY <1>1, <1>2, <1>3, <2>1, <2>2, PlanFrame
<1>6. ASSUME NEW x \in Domains, SyncPush(x) PROVE PlanOf(d)'
  <2>1. sync[x].qty \in Users
    BY DEF TypeInv, TypeOK, Sync
  <2>2. CASE SetItems(Changed(ItemOf(x, sync[x].gen), None, sync[x].qty))
    BY <1>1, <1>2, <2>1, <2>2, PlanPushed
  <2> QED BY <1>4, <1>6, <2>2 DEF SyncPush
<1>7. CASE RecPush
  <2>1. PICK i \in rec.cur : \/ SetItems(Changed(ItemOf(i.dom, i.gen), None, i.qty))
                             \/ UNCHANGED stripeVars
    BY <1>7 DEF RecPush
  <2>2. i.dom \in Domains /\ i.qty \in Users
    BY DEF TypeInv, TypeOK, Rec, Item
  <2>3. CASE SetItems(Changed(ItemOf(i.dom, i.gen), None, i.qty))
    BY <1>1, <1>2, <2>2, <2>3, PlanPushed
  <2> QED BY <1>4, <2>1, <2>3
<1>8. CASE UNCHANGED vars
  BY <1>4, <1>8 DEF vars, stripeVars
<1>9. ASSUME NEW x \in Domains, ChangeUsers(x) \/ SyncCount(x) PROVE PlanOf(d)'
  BY <1>4, <1>9 DEF ChangeUsers, SyncCount
<1>10. ASSUME RecBegin \/ \E i \in rec.snap : RecCount(i) PROVE PlanOf(d)'
  BY <1>4, <1>10 DEF RecBegin, RecCount
<1> QED BY <1>5, <1>6, <1>7, <1>8, <1>9, <1>10 DEF RecStep

\* A schedule that agreed with d's row gives it one item, of the plan it is owed.
LEMMA TurnItems ==
  ASSUME TypeInv, NEW d \in Domains, Turn, sub # "ending", next # {},
         \A i, j \in Mine(d) : i = j, Agree(d, next, Mine(d), row[d])
  PROVE  \E M2 : /\ M2 = Mine(d)'
                 /\ \A i, j \in M2 : i = j
                 /\ M2 = {} <=> Mine(d) = {}
                 /\ \A j \in M2 : \E i \in Mine(d) : j.plan = Owed(row[d], i.plan)
<1>0. PICK M2 : M2 = Mine(d)'
  OBVIOUS
<1> DEFINE To(i) == [i EXCEPT !.gen = made[i.dom] + 1]
<1>1. PICK kept \in SUBSET next : items' = kept \cup {To(i) : i \in next \ kept}
  BY DEF Turn
<1>2. \A i \in next : To(i).dom = i.dom /\ To(i).plan = i.plan
  BY DEF TypeInv, TypeOK, Item
<1> HIDE DEF To
<1> DEFINE N == {n \in next : n.dom = d}
<1>3. /\ \A j \in M2 : \E n \in N : (j = n \/ j = To(n)) /\ j.plan = n.plan
      /\ \A n \in N : \E j \in M2 : TRUE
      /\ \A n \in N \cap kept : n \in M2
      /\ \A n \in N \ kept : To(n) \in M2
      /\ \A j \in M2 : (j \in kept /\ j \in N) \/ \E n \in N \ kept : j = To(n)
  BY <1>0, <1>1, <1>2 DEF Mine
<1>4. /\ \A i \in Mine(d) : \E n \in N : TRUE
      /\ \A n \in N : \E i \in Mine(d) : n.plan = Owed(row[d], i.plan)
      /\ \A m, n \in N : m = n
  BY DEF Agree
<1> HIDE DEF N
<1>5. \A i, j \in M2 : i = j
  BY <1>3, <1>4
<1>6. M2 = {} <=> Mine(d) = {}
  BY <1>3, <1>4
<1>7. \A j \in M2 : \E i \in Mine(d) : j.plan = Owed(row[d], i.plan)
  BY <1>3, <1>4
<1> QED BY <1>0, <1>5, <1>6, <1>7

\* The period turns: the schedule's copy becomes the items of a domain nothing is
\* under way for, and the renewal's event will tell its row.
LEMMA PlanTurn ==
  ASSUME TypeInv, PlanInv, Turn
  PROVE  PlanInv'
<1>1. /\ op' = op /\ hook' = hook /\ row' = row /\ faults' = faults /\ sub # "ended"
  BY DEF Turn, rowVars, jobVars
<1> SUFFICES ASSUME faults' = 0, sub' # "ended", NEW d \in Domains \ excused'
             PROVE  PlanOf(d)'
  BY DEF PlanInv
<1>2. /\ hook = Resting /\ events = {} /\ d \notin excused
      /\ \A c \in Calls : op[c].dom # None => op[c].dom # d
  <2>1. excused' = IF hook # Resting \/ events # {} THEN Domains
                   ELSE excused \cup {op[c].dom : c \in {b \in Calls : op[b].dom # None}}
    BY DEF Turn
  <2> QED BY <2>1
<1>3. PlanOf(d)
  BY <1>1, <1>2 DEF PlanInv
<1>4. On(d) = {} /\ On(d)' = {}
  <2>1. \A c \in Calls : op[c].dom # d
    BY <1>2, NoneAssumption
  <2> QED BY <1>1, <2>1 DEF On
<1>5. hook.at = "idle"
  BY <1>2, RestTyped DEF Resting
<1>6. ~Turning /\ ~Rescheduled /\ ~Reported
  BY <1>2, <1>5 DEF Turning, Rescheduled, Reported
<1>7. /\ \A i, j \in Mine(d) : i = j
      /\ row[d].state # "live" => Mine(d) = {}
      /\ row[d].state = "live" => Mine(d) # {} /\ \A i \in Mine(d) : i.gen = row[d].gen /\ i.plan = row[d].plan
      /\ Agree(d, next, Mine(d), row[d])
  BY <1>3, <1>4, <1>5, <1>6 DEF PlanOf, ItemsKept, PriceKept, NextKept, Rebuilds
<1>8. sub # "ending" /\ next' = {} /\ events' = events \cup {Updated(next), [kind |-> "renewed"]}
  BY DEF Turn, Ended
<1>9. Turning' /\ Reported' /\ (next # {} => Rescheduled')
  <2>1. /\ Updated(next) \in events' /\ Updated(next).kind = "updated"
        /\ Updated(next).sched = (next # {}) /\ [kind |-> "renewed"] \in events'
    BY <1>8 DEF Updated
  <2> QED BY <1>8, <2>1 DEF Turning, Reported, Rescheduled
<1>10. PICK M2 : /\ M2 = Mine(d)'
                 /\ \A i, j \in M2 : i = j
                 /\ M2 = {} <=> Mine(d) = {}
                 /\ \A j \in M2 : /\ \E i \in Mine(d) : j.plan = Owed(row[d], i.plan)
                                  /\ next = {} => j.gen = row[d].gen
  <2>1. CASE next = {}
    <3>1. items' = items
      BY <1>8, <2>1 DEF Turn
    <3>2. Mine(d)' = Mine(d)
      BY <3>1 DEF Mine
    <3>3. \A i \in Mine(d) : Owed(row[d], i.plan) = i.plan
      BY <1>7, <2>1 DEF Agree
    <3> QED BY <1>7, <3>2, <3>3
  <2>2. CASE next # {}
    BY <1>7, <1>8, <2>2, TurnItems
  <2> QED BY <2>1, <2>2
<1>11. ItemsKept({}, M2, row[d])
  BY <1>7, <1>10 DEF ItemsKept
<1>12. PriceKept({}, M2, row[d], TRUE, Rescheduled')
  <2>1. ASSUME row[d].state = "live", NEW j \in M2
        PROVE  (j.gen = row[d].gen \/ Rescheduled') /\ j.plan = Owed(row[d], row[d].plan)
    BY <1>7, <1>9, <1>10, <2>1
  <2> QED BY <2>1 DEF PriceKept
<1>13. PriceKept({}, M2, row[d], Turning', Rescheduled')
  BY <1>9, <1>12 DEF PriceKept
<1> QED BY <1>1, <1>4, <1>5, <1>9, <1>10, <1>11, <1>13 DEF PlanOf, NextKept

\* Initially every domain of the subscription has its item, and nothing is due.
LEMMA PlanInit == Init => PlanInv
<1> SUFFICES ASSUME Init, NEW d \in Domains PROVE PlanOf(d)
  BY DEF PlanInv
<1> DEFINE plan == CHOOSE p \in Plans : TRUE
           joined == [NoRow EXCEPT !.state = "live", !.gen = 1, !.plan = plan]
           first(e) == [dom |-> e, gen |-> 1, plan |-> plan, qty |-> 0]
<1>1. PICK on \in SUBSET Domains : /\ row = [e \in Domains |-> IF e \in on THEN joined ELSE NoRow]
                                   /\ items = {first(e) : e \in on}
  BY DEF Init
<1>2. /\ joined.state = "live" /\ joined.gen = 1 /\ joined.plan = plan /\ joined.pending = None
      /\ NoRow.state = "none"
  BY DEF NoRow
<1>3. \A e : first(e).dom = e /\ first(e).gen = 1 /\ first(e).plan = plan
  OBVIOUS
<1> HIDE DEF joined, first, plan
<1>4. /\ events = {} /\ hook.at = "idle" /\ next = {} /\ \A c \in Calls : op[c].dom # d
  BY RestTyped DEF Init, Resting
<1>5. On(d) = {}
  BY <1>4 DEF On
<1>6. /\ \A i \in Mine(d) : i.gen = 1 /\ i.plan = plan /\ i = first(d)
      /\ d \in on => first(d) \in Mine(d)
      /\ d \notin on => Mine(d) = {}
  BY <1>1, <1>3 DEF Mine
<1>7. row[d] = IF d \in on THEN joined ELSE NoRow
  BY <1>1
<1>8. ~Turning
  BY <1>4 DEF Turning
<1>9. ItemsKept({}, Mine(d), row[d])
  BY <1>2, <1>6, <1>7 DEF ItemsKept
<1>10. PriceKept({}, Mine(d), row[d], Turning, Rescheduled)
  BY <1>2, <1>6, <1>7, <1>8 DEF PriceKept
<1>11. Agree(d, next, Mine(d), row[d])
  BY <1>2, <1>4, <1>6, <1>7 DEF Agree, Owed, Wants
<1> QED BY <1>4, <1>5, <1>9, <1>10, <1>11 DEF PlanOf, NextKept

\* Every step.
LEMMA PlanStep ==
  ASSUME TypeInv, Told, MailInv, PlanInv, [Next]_vars
  PROVE  PlanInv'
<1>1. CASE Crash
  BY <1>1 DEF Crash, Fault, PlanInv, TypeInv, TypeOK
<1>2. ASSUME NEW c \in Calls, CallStep(c) \/ \E d \in Domains : BeginCall(c, d) PROVE PlanInv'
  BY <1>2, PlanCalls, PlanBegins
<1> QED BY <1>1, <1>2, PlanHooks, PlanTurn, PlanRest DEF Next

(* Once every event is handled and no call is under way, and nothing failed,   *)
(* Stripe bills each domain of a running subscription, and will bill it next,  *)
(* what its row says: a schedule built from rows read before another domain's  *)
(* call saved its own is rebuilt before the domains' calls and the webhook     *)
(* rest, or still says of each domain what that domain's row says.             *)
THEOREM PlanIsBilled == Spec => []PlanAgrees
<1> DEFINE I == TypeInv /\ Told /\ MailInv /\ PlanInv
<1>1. Init => I
  BY TypeInit, MailInit, PlanInit
<1>2. I /\ [Next]_vars => I'
  BY TypeStep, ToldStep, MailStep, PlanStep
<1>3. I => PlanAgrees
  <2> SUFFICES ASSUME I, Quiet, faults = 0, sub # "ended", NEW d \in Domains \ excused, Live(d)
               PROVE  /\ \E i \in ItemOf(d, row[d].gen) : i.plan = row[d].plan
                      /\ LET due == IF row[d].pending = None THEN row[d].plan ELSE row[d].pending
                         IN  IF next = {} THEN due = row[d].plan
                             ELSE \E i \in next : i.dom = d /\ i.gen = row[d].gen /\ i.plan = due
    BY DEF PlanAgrees
  <2>1. PlanOf(d)
    BY DEF PlanInv
  <2>2. On(d) = {}
    BY RestTyped DEF Quiet, On
  <2>3. hook.at = "idle" /\ ~Turning /\ ~Rescheduled /\ ~Reported
    BY RestTyped DEF Quiet, Resting, Turning, Rescheduled, Reported
  <2>4. /\ Mine(d) # {} /\ \A i \in Mine(d) : i.gen = row[d].gen /\ i.plan = row[d].plan
        /\ Agree(d, next, Mine(d), row[d])
    BY <2>1, <2>2, <2>3 DEF PlanOf, ItemsKept, PriceKept, NextKept, Rebuilds, Live
  <2>5. PICK i \in Mine(d) : i.gen = row[d].gen /\ i.plan = row[d].plan
    BY <2>4
  <2>6. i \in ItemOf(d, row[d].gen)
    BY <2>5 DEF Mine, ItemOf
  <2>7. Owed(row[d], row[d].plan) = IF row[d].pending = None THEN row[d].plan ELSE row[d].pending
    BY DEF Owed, Wants, Live
  <2>8. CASE next = {}
    BY <2>4, <2>5, <2>6, <2>7, <2>8 DEF Agree
  <2>9. CASE next # {}
    <3>1. PICK n \in next : n.dom = d /\ n.gen = i.gen
      BY <2>4, <2>9 DEF Agree
    <3>2. PICK j \in Mine(d) : n.gen = j.gen /\ n.plan = Owed(row[d], j.plan)
      BY <2>4, <2>9, <3>1 DEF Agree
    <3>3. n.plan = Owed(row[d], row[d].plan)
      BY <2>4, <3>2
    <3> QED BY <2>5, <2>6, <2>7, <2>9, <3>1, <3>3
  <2> QED BY <2>8, <2>9
<1> HIDE DEF I
<1> QED BY <1>1, <1>2, <1>3, PTL DEF Spec
=============================================================================
