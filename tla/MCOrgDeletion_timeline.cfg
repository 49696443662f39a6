SPECIFICATION Spec
CONSTANTS
    Calls = {c1, c2}
    People = {admin, platform}
    Records = {r1, r2}
    Codes = {k1, k2}
    MaxAttempts = 1
    MaxFaults = 1
    MaxBegun = 8
    None = None
SYMMETRY Alike
CHECK_DEADLOCK FALSE
INVARIANTS
    OneActive
    Earned
    GuessesBounded
    BarredFirst
