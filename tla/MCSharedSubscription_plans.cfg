SPECIFICATION Spec
SYMMETRY Alike
CONSTANTS
    Domains = {d1, d2}
    Plans = {p, q}
    Calls = {c1, c2}
    MaxUsers = 0
    MaxBegun = 3
    MaxFaults = 0
    LastPeriod = 1
    Nightly = FALSE
    None = None
CHECK_DEADLOCK FALSE
INVARIANTS
    TypeOK
    
    MailFollowsBill
