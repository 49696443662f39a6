SPECIFICATION FairSpec
CONSTANTS
    Calls = {c1, c2}
    Sessions = {s1, s2}
    Lines = {d1}
    Planned = {d1, d2}
    MaxCut = 1
    MaxEnded = 1
    Slow = FALSE
    AttachAlone = TRUE
    None = None
CHECK_DEADLOCK FALSE
INVARIANTS
    LockExcludes
    AdoptedIsComplete
    
PROPERTIES
    OneTrialOnly
    CheckoutStartsTrial
