SPECIFICATION FairSpec
CONSTANTS
    Domains = {d1, d2}
    Plans = {p, q}
    Calls = {c1}
    MaxUsers = 1
    MaxBegun = 2
    MaxFaults = 1
    LastPeriod = 1
    Nightly = TRUE
    None = None
CHECK_DEADLOCK FALSE
PROPERTY QuantityRepaired
