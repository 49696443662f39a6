SPECIFICATION FairSpec
CONSTANTS
    Accounts = {a1, a2}
    Messages = {x, y}
    Jobs = {j1, j2}
    PageSize = 1
    MaxFaults = 1
CHECK_DEADLOCK FALSE
INVARIANTS
    TypeOK
    OnlyKnownGaps
PROPERTY
    JobEnds
