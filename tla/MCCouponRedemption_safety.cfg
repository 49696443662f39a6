SPECIFICATION MCSpec
CONSTANTS
    Requests = {r1, r2, r3}
    Tenants = {t1, t2}
    Coupons = {c1}
    Limit = 2
    ExpiryDay = 1
    MaxUses <- MCMaxUses
    Days <- MCDays
    ExpiresAt <- MCExpiresAt
    TrialDays = 1
    LastDay = 2
    MaxLost = 1
    Single = r3
    Other = t2
CHECK_DEADLOCK FALSE
INVARIANTS
    CountMatchesRedemptions
    LimitRespected
    OncePerTenant
    SettledTogether
PROPERTY UsedUpIsReopened
