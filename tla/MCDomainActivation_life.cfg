SPECIFICATION FairSpec
CONSTANTS
    Domains = {d1}
    Calls = {c1, c2}
    Window = 0
    LastHour = 2
    MaxFaults = 1
    MaxBegun = 3
    None = None
CHECK_DEADLOCK FALSE
INVARIANTS
    
    LinkedIsServed
PROPERTY
    ActivationEnds
