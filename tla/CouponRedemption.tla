-------------------------- MODULE CouponRedemption --------------------------
(***************************************************************************)
(* Coupons that add days to a tenant's free trial                          *)
(* (backend/src/services/coupon.service.ts, redeemTrialCoupon and the      *)
(* coupon side of startCartCheckout / adoptActivationSession in            *)
(* backend/src/services/billing.service.ts).                               *)
(*                                                                         *)
(* A request is one HTTP call.  Every await on MongoDB or Stripe ends a    *)
(* step, so requests of several tenants and the Super Admin's list,        *)
(* revoke and delete calls interleave there.  A request may also stop      *)
(* between two steps (the process dies, or a MongoDB call rejects): the    *)
(* code has no recovery for it, and MaxLost bounds how many do.            *)
(***************************************************************************)
EXTENDS Integers, FiniteSets

CONSTANTS Requests,      \* redemption calls, each used once
          Tenants,
          Coupons,       \* coupon codes; each is created at most once
          MaxUses,       \* [Coupons -> positive Nat]  Coupon.maxUses
          Days,          \* [Coupons -> positive Nat]  Coupon.extraTrialDays
          ExpiresAt,     \* [Coupons -> Nat]  last day on which the code is good
          TrialDays,     \* length of a trial without coupon
          LastDay,       \* bound on the clock
          MaxLost        \* bound on the requests that stop half way

ASSUME MaxUsesAssumption == MaxUses \in [Coupons -> Nat \ {0}]
ASSUME DaysAssumption == Days \in [Coupons -> Nat \ {0}]
ASSUME ClockAssumption ==
    /\ ExpiresAt \in [Coupons -> Nat]
    /\ TrialDays \in Nat \ {0}
    /\ LastDay \in Nat
    /\ MaxLost \in Nat
ASSUME RequestsFinite == IsFiniteSet(Requests)

VARIABLES status,       \* Coupon.status, "unborn" before and "deleted" after
          usedCount,    \* Coupon.usedCount
          redemptions,  \* Coupon.redemptions: the requests that pushed one
          revoking,     \* coupons a Super Admin has loaded in order to revoke
          deleting,     \* coupons a Super Admin has loaded in order to delete
          pc,           \* where each request stands
          tenantOf, couponOf, viaCheckout,   \* the request's arguments
          newTrialEnd,  \* what the request read back from its extension
          trialEndsAt,  \* Tenant.trialEndsAt, 0 while the trial has not started
          stripeEnd,    \* trial_end of the tenant's Stripe subscription
          rowEnd,       \* trialEnd of the tenant's DomainSubscription rows
          granted,      \* requests whose days are in trialEndsAt (history)
          today

couponVars == <<status, usedCount, redemptions>>
adminVars  == <<revoking, deleting>>
argVars    == <<tenantOf, couponOf, viaCheckout>>
trialVars  == <<newTrialEnd, trialEndsAt, stripeEnd, rowEnd, granted>>
redemptionVars == <<couponVars, adminVars, pc, argVars, trialVars, today>>

Statuses == {"unborn", "active", "used", "expired", "revoked", "deleted"}
Stages == {"idle", "session", "check", "claim", "mark", "extend", "stripe",
           "rollback", "release", "reopen", "rows", "done", "refused", "lost"}

CouponTypeOK ==
    /\ status \in [Coupons -> Statuses]
    /\ usedCount \in [Coupons -> Int]
    /\ redemptions \in [Coupons -> SUBSET Requests]
    /\ revoking \in SUBSET Coupons
    /\ deleting \in SUBSET Coupons
    /\ pc \in [Requests -> Stages]
    /\ tenantOf \in [Requests -> Tenants]
    /\ couponOf \in [Requests -> Coupons]
    /\ viaCheckout \in [Requests -> BOOLEAN]
    /\ newTrialEnd \in [Requests -> Int]
    /\ trialEndsAt \in [Tenants -> Int]
    /\ stripeEnd \in [Tenants -> Int]
    /\ rowEnd \in [Tenants -> Int]
    /\ granted \in SUBSET Requests
    /\ today \in Nat

\* The arguments are fixed with the initial state; they matter once the
\* request has begun.
CouponInit ==
    /\ status = [c \in Coupons |-> "unborn"]
    /\ usedCount = [c \in Coupons |-> 0]
    /\ redemptions = [c \in Coupons |-> {}]
    /\ revoking = {}
    /\ deleting = {}
    /\ pc = [r \in Requests |-> "idle"]
    /\ tenantOf \in [Requests -> Tenants]
    /\ couponOf \in [Requests -> Coupons]
    /\ viaCheckout \in [Requests -> BOOLEAN]
    /\ newTrialEnd = [r \in Requests |-> 0]
    /\ trialEndsAt = [t \in Tenants |-> 0]
    /\ stripeEnd = [t \in Tenants |-> 0]
    /\ rowEnd = [t \in Tenants |-> 0]
    /\ granted = {}
    /\ today = 1

-----------------------------------------------------------------------------
(* State formulae the handlers branch on. *)

Exists(c) == status[c] \notin {"unborn", "deleted"}

\* This tenant already has an entry in the coupon's redemptions.
RedeemedBy(c, t) == \E r \in redemptions[c] : tenantOf[r] = t

\* The checks validateCoupon and redeemCoupon make before anything is written.
Redeemable(c, t) ==
    /\ Exists(c)
    /\ status[c] \notin {"revoked", "used"}
    /\ usedCount[c] < MaxUses[c]
    /\ today <= ExpiresAt[c]
    /\ ~RedeemedBy(c, t)

\* An await returned: request r moves from one stage to the next.
Proceed(r, from, to) == pc[r] = from /\ pc' = [pc EXCEPT ![r] = to]

-----------------------------------------------------------------------------
(* The Super Admin: createCoupon, listCoupons, revokeCoupon, deleteCoupon. *)

CreateCoupon(c) ==
    /\ status[c] = "unborn"
    /\ status' = [status EXCEPT ![c] = "active"]
    /\ UNCHANGED <<usedCount, redemptions, adminVars, pc, argVars, trialVars, today>>

\* Listing flips every active coupon whose date has passed.
ListCoupons ==
    /\ status' = [c \in Coupons |->
                    IF status[c] = "active" /\ ExpiresAt[c] < today
                    THEN "expired" ELSE status[c]]
    /\ UNCHANGED <<usedCount, redemptions, adminVars, pc, argVars, trialVars, today>>

\* findById and the status check; saving an unchanged document writes nothing,
\* so an already revoked coupon needs no second step.
RevokeLoad(c) ==
    /\ Exists(c)
    /\ status[c] \notin {"used", "revoked"}
    /\ revoking' = revoking \cup {c}
    /\ UNCHANGED <<couponVars, deleting, pc, argVars, trialVars, today>>

\* save() of the loaded document; on a deleted one it fails.
RevokeSave(c) ==
    /\ c \in revoking
    /\ revoking' = revoking \ {c}
    /\ status' = IF Exists(c) THEN [status EXCEPT ![c] = "revoked"] ELSE status
    /\ UNCHANGED <<usedCount, redemptions, deleting, pc, argVars, trialVars, today>>

DeleteLoad(c) ==
    /\ Exists(c)
    /\ usedCount[c] <= 0
    /\ deleting' = deleting \cup {c}
    /\ UNCHANGED <<couponVars, revoking, pc, argVars, trialVars, today>>

\* findByIdAndDelete takes no condition on usedCount.
DeleteCommit(c) ==
    /\ c \in deleting
    /\ deleting' = deleting \ {c}
    /\ status' = [status EXCEPT ![c] = "deleted"]
    /\ UNCHANGED <<usedCount, redemptions, revoking, pc, argVars, trialVars, today>>

-----------------------------------------------------------------------------
(* Redeeming against a running trial: redeemTrialCoupon. *)

Redeem(r) ==
    /\ ~viaCheckout[r]
    /\ trialEndsAt[tenantOf[r]] # 0
    /\ Proceed(r, "idle", "check")
    /\ UNCHANGED <<couponVars, adminVars, argVars, trialVars, today>>

\* A claim that cannot be made ends a redeem call with an error, and is only
\* logged when a finished checkout makes it.
Precheck(r) ==
    /\ Proceed(r, "check", IF Redeemable(couponOf[r], tenantOf[r]) THEN "claim"
                           ELSE IF viaCheckout[r] THEN "done" ELSE "refused")
    /\ UNCHANGED <<couponVars, adminVars, argVars, trialVars, today>>

\* Mutants of Claimable: the filter on the status alone, and without the tenant.
Mut_ClaimableByStatus(c, t) == status[c] = "active"
Mut_ClaimableTwice(c, t) == status[c] = "active" /\ usedCount[c] < MaxUses[c]

\* The filter of the findOneAndUpdate.
Claimable(c, t) ==
    /\ status[c] = "active"
    /\ usedCount[c] < MaxUses[c]
    /\ ~RedeemedBy(c, t)

ClaimAfter(r) == IF viaCheckout[r] THEN "done" ELSE "extend"

Claim(r) ==
    LET c == couponOf[r] IN
    /\ Claimable(c, tenantOf[r])
    /\ usedCount' = [usedCount EXCEPT ![c] = @ + 1]
    /\ redemptions' = [redemptions EXCEPT ![c] = @ \cup {r}]
    /\ Proceed(r, "claim", IF usedCount[c] + 1 >= MaxUses[c] THEN "mark" ELSE ClaimAfter(r))
    /\ UNCHANGED <<status, adminVars, argVars, trialVars, today>>

ClaimMissed(r) ==
    /\ ~Claimable(couponOf[r], tenantOf[r])
    /\ Proceed(r, "claim", IF viaCheckout[r] THEN "done" ELSE "refused")
    /\ UNCHANGED <<couponVars, adminVars, argVars, trialVars, today>>

\* The second update after a claim that reached the limit: filtered by count
\* alone, whatever the status has become.
MarkUsed(r) ==
    LET c == couponOf[r] IN
    /\ Proceed(r, "mark", ClaimAfter(r))
    /\ status' = IF Exists(c) /\ usedCount[c] >= MaxUses[c]
                 THEN [status EXCEPT ![c] = "used"] ELSE status
    /\ UNCHANGED <<usedCount, redemptions, adminVars, argVars, trialVars, today>>

Extend(r) ==
    LET t == tenantOf[r]
        end == trialEndsAt[t] + Days[couponOf[r]] IN
    /\ trialEndsAt[t] > today
    /\ Proceed(r, "extend", "stripe")
    /\ trialEndsAt' = [trialEndsAt EXCEPT ![t] = end]
    /\ newTrialEnd' = [newTrialEnd EXCEPT ![r] = end]
    /\ granted' = granted \cup {r}
    /\ UNCHANGED <<couponVars, adminVars, argVars, stripeEnd, rowEnd, today>>

\* The trial ran out meanwhile: only the claim has to be given back.
ExtendTooLate(r) ==
    /\ trialEndsAt[tenantOf[r]] <= today
    /\ Proceed(r, "extend", "release")
    /\ UNCHANGED <<couponVars, adminVars, argVars, trialVars, today>>

\* setTrialEnd sends the absolute date this request read back.
StripeExtends(r) ==
    /\ Proceed(r, "stripe", "rows")
    /\ stripeEnd' = [stripeEnd EXCEPT ![tenantOf[r]] = newTrialEnd[r]]
    /\ UNCHANGED <<couponVars, adminVars, argVars, newTrialEnd, trialEndsAt,
                   rowEnd, granted, today>>

StripeRefuses(r) ==
    /\ Proceed(r, "stripe", "rollback")
    /\ UNCHANGED <<couponVars, adminVars, argVars, trialVars, today>>

Rollback(r) ==
    /\ Proceed(r, "rollback", "release")
    /\ trialEndsAt' = [trialEndsAt EXCEPT ![tenantOf[r]] = @ - Days[couponOf[r]]]
    /\ granted' = granted \ {r}
    /\ UNCHANGED <<couponVars, adminVars, argVars, newTrialEnd, stripeEnd, rowEnd, today>>

\* Mutant of WithoutTenant: the counter goes down, nothing is pulled.
Mut_NothingPulled(c, t) == redemptions[c]

\* The $pull of releaseRedemption.
WithoutTenant(c, t) == {q \in redemptions[c] : tenantOf[q] # t}

\* releaseRedemption: found by code and tenant, it pulls the tenant's entries.
ReleaseRedemption(r) ==
    LET c == couponOf[r]
        t == tenantOf[r]
        found == Exists(c) /\ RedeemedBy(c, t) IN
    /\ Proceed(r, "release", IF found /\ status[c] = "used" /\ usedCount[c] - 1 < MaxUses[c]
                             THEN "reopen" ELSE "refused")
    /\ usedCount' = IF found THEN [usedCount EXCEPT ![c] = @ - 1] ELSE usedCount
    /\ redemptions' = IF found
                      THEN [redemptions EXCEPT ![c] = WithoutTenant(c, t)]
                      ELSE redemptions
    /\ UNCHANGED <<status, adminVars, argVars, trialVars, today>>

\* Mutant of Reopen: releaseRedemption without its second update.
Mut_NeverReopened(r) ==
    /\ Proceed(r, "reopen", "refused")
    /\ UNCHANGED <<couponVars, adminVars, argVars, trialVars, today>>

Reopen(r) ==
    LET c == couponOf[r] IN
    /\ Proceed(r, "reopen", "refused")
    /\ status' = IF status[c] = "used" THEN [status EXCEPT ![c] = "active"] ELSE status
    /\ UNCHANGED <<usedCount, redemptions, adminVars, argVars, trialVars, today>>

UpdateRows(r) ==
    /\ Proceed(r, "rows", "done")
    /\ rowEnd' = [rowEnd EXCEPT ![tenantOf[r]] = newTrialEnd[r]]
    /\ UNCHANGED <<couponVars, adminVars, argVars, newTrialEnd, trialEndsAt,
                   stripeEnd, granted, today>>

-----------------------------------------------------------------------------
(* A coupon typed in at checkout, before the trial exists. *)

\* startCartCheckout validates the code and builds its days into the session;
\* nothing is claimed.
StartCheckout(r) ==
    /\ viaCheckout[r]
    /\ trialEndsAt[tenantOf[r]] = 0
    /\ Redeemable(couponOf[r], tenantOf[r])
    /\ Proceed(r, "idle", "session")
    /\ UNCHANGED <<couponVars, adminVars, argVars, trialVars, today>>

\* adoptActivationSession of the finished session: the trial starts with the
\* days in it, and recording the redemption comes after.
AdoptCheckout(r) ==
    LET t == tenantOf[r]
        end == today + TrialDays + Days[couponOf[r]] IN
    /\ trialEndsAt[t] = 0
    /\ Proceed(r, "session", "check")
    /\ trialEndsAt' = [trialEndsAt EXCEPT ![t] = end]
    /\ stripeEnd' = [stripeEnd EXCEPT ![t] = end]
    /\ rowEnd' = [rowEnd EXCEPT ![t] = end]
    /\ granted' = granted \cup {r}
    /\ UNCHANGED <<couponVars, adminVars, argVars, newTrialEnd, today>>

\* Another checkout of the tenant was adopted first.
AdoptAlreadyStarted(r) ==
    /\ trialEndsAt[tenantOf[r]] # 0
    /\ Proceed(r, "session", "refused")
    /\ UNCHANGED <<couponVars, adminVars, argVars, trialVars, today>>

\* A checkout without a code.
StartTrial(t) ==
    LET end == today + TrialDays IN
    /\ trialEndsAt[t] = 0
    /\ trialEndsAt' = [trialEndsAt EXCEPT ![t] = end]
    /\ stripeEnd' = [stripeEnd EXCEPT ![t] = end]
    /\ rowEnd' = [rowEnd EXCEPT ![t] = end]
    /\ UNCHANGED <<couponVars, adminVars, pc, argVars, newTrialEnd, granted, today>>

-----------------------------------------------------------------------------
(* The environment. *)

Lost(r) ==
    /\ pc[r] \notin {"idle", "session", "done", "refused", "lost"}
    /\ Cardinality({q \in Requests : pc[q] = "lost"}) < MaxLost
    /\ pc' = [pc EXCEPT ![r] = "lost"]
    /\ UNCHANGED <<couponVars, adminVars, argVars, trialVars, today>>

DayPasses ==
    /\ today < LastDay
    /\ today' = today + 1
    /\ UNCHANGED <<couponVars, adminVars, pc, argVars, trialVars>>

-----------------------------------------------------------------------------

\* What runs by itself once a call has begun.
Handle(r) ==
    \/ Precheck(r) \/ Claim(r) \/ ClaimMissed(r) \/ MarkUsed(r)
    \/ Extend(r) \/ ExtendTooLate(r) \/ StripeExtends(r) \/ StripeRefuses(r)
    \/ Rollback(r) \/ ReleaseRedemption(r) \/ Reopen(r) \/ UpdateRows(r)

Call(r) == Redeem(r) \/ StartCheckout(r) \/ AdoptCheckout(r) \/ AdoptAlreadyStarted(r)

Administer(c) == CreateCoupon(c) \/ RevokeLoad(c) \/ RevokeSave(c)
                 \/ DeleteLoad(c) \/ DeleteCommit(c)

CouponNext ==
    \/ \E r \in Requests : Call(r) \/ Handle(r) \/ Lost(r)
    \/ \E c \in Coupons : Administer(c)
    \/ \E t \in Tenants : StartTrial(t)
    \/ ListCoupons
    \/ DayPasses

CouponSpec == CouponInit /\ [][CouponNext]_redemptionVars

\* Node resumes a handler whose awaited call has settled, so a call that has
\* begun goes on.  Nobody has to click, and days need not pass.
CouponFairness == \A r \in Requests : WF_redemptionVars(Handle(r))

CouponFairSpec == CouponSpec /\ CouponFairness

-----------------------------------------------------------------------------
(* What the coupon promises. *)

\* usedCount counts exactly the entries in redemptions, whatever interleaves:
\* claims, releases of failed extensions, revocations (redeemCoupon,
\* releaseRedemption).
CountMatchesRedemptions ==
    \A c \in Coupons : usedCount[c] = Cardinality(redemptions[c])

\* Concurrent calls never record more redemptions than maxUses (the filter of
\* redeemCoupon's claim).
LimitRespected == \A c \in Coupons : usedCount[c] <= MaxUses[c]

\* A tenant redeems a coupon once, though its double click passes the
\* pre-checks twice (redeemCoupon).
OncePerTenant ==
    \A c \in Coupons : \A q, r \in redemptions[c] :
        tenantOf[q] = tenantOf[r] => q = r

\* Days a redeem call added to a running trial are backed by that call's own
\* entry for as long as the coupon exists: no other call's rollback takes it
\* (releaseRedemption pulls by tenant, not by call).
ExtensionHoldsClaim ==
    \A r \in granted :
        viaCheckout[r] \/ ~Exists(couponOf[r]) \/ r \in redemptions[couponOf[r]]

\* A coupon that reads "used" although redemptions were given back does not
\* stay so: some pending call reopens it, or an admin settles it, unless a
\* restart loses a call (releaseRedemption's second update).
UsedUpIsReopened ==
    \A c \in Coupons :
        (status[c] = "used" /\ usedCount[c] < MaxUses[c])
            ~> \/ status[c] # "used" \/ usedCount[c] = MaxUses[c]
               \/ \E r \in Requests : pc[r] = "lost"

\* A claim ends in days granted or is given back: when a redeem call is over,
\* it left an entry exactly if it moved the trial (redeemTrialCoupon).
SettledTogether ==
    \A r \in Requests :
        (~viaCheckout[r] /\ pc[r] \in {"done", "refused"} /\ Exists(couponOf[r]))
            => (r \in granted <=> r \in redemptions[couponOf[r]])

-----------------------------------------------------------------------------
(* The invariant the proofs use: where a redeem call stands tells whether it *)
(* holds a redemption and whether its days are in the trial.                 *)

\* Stages a redeem call reaches only after its claim, and those it is in
\* while nothing of it is recorded.
Claimed == {"mark", "extend", "stripe", "rollback", "release", "rows", "done"}
Unclaimed == {"idle", "check", "claim", "reopen", "refused"}

\* Stages between the extension and the end, and those outside it.
Extended == {"stripe", "rollback", "rows", "done"}
Unextended == {"idle", "check", "claim", "mark", "extend", "release", "reopen", "refused"}

StageMatchesRecord ==
    \A r \in Requests :
        LET c == couponOf[r] IN
        /\ pc[r] \in {"extend", "stripe", "rollback", "release", "reopen", "rows"}
              => ~viaCheckout[r]
        /\ ~viaCheckout[r] =>
              /\ pc[r] # "session"
              /\ pc[r] \in Claimed /\ status[c] # "deleted" => r \in redemptions[c]
              /\ pc[r] \in Unclaimed /\ status[c] # "deleted" => r \notin redemptions[c]
              /\ pc[r] \in Extended => r \in granted
              /\ pc[r] \in Unextended => r \notin granted
              /\ r \in granted /\ status[c] # "deleted" => r \in redemptions[c]

UnbornIsUnused ==
    \A c \in Coupons : status[c] = "unborn" => redemptions[c] = {}

CouponInv ==
    /\ CouponTypeOK
    /\ CountMatchesRedemptions
    /\ LimitRespected
    /\ OncePerTenant
    /\ StageMatchesRecord
    /\ UnbornIsUnused

=============================================================================
