------------------------- MODULE MCCouponRedemption -------------------------
(* Instance of CouponRedemption for TLC. *)
EXTENDS CouponRedemption

CONSTANTS Limit, ExpiryDay,
          Single, Other     \* one call, and the tenant that makes it

\* Every coupon has the same limit, adds one day and expires on ExpiryDay.
MCMaxUses == [c \in Coupons |-> Limit]
MCDays == [c \in Coupons |-> 1]
MCExpiresAt == [c \in Coupons |-> ExpiryDay]

\* One tenant calls twice or more, another calls once; each call is of either
\* kind.  The other ways to spread the calls over two tenants are renamings of
\* this one, or give all of them to one tenant.
MCInit ==
    /\ CouponInit
    /\ tenantOf[Single] = Other
    /\ \A r \in Requests \ {Single} : tenantOf[r] # Other

MCSpec == MCInit /\ [][CouponNext]_redemptionVars /\ CouponFairness
=============================================================================
