SPECIFICATION Spec
SYMMETRY Alike
CONSTANTS
    Addresses = {a, b}
    Calls = {c1, c2, c3, c4}
    MaxBusy = 3
    MaxFaults = 1
    None = None
CHECK_DEADLOCK FALSE
INVARIANTS
    TypeOK
    IdentityKept
    NothingStranded
    PlatformCount
    
