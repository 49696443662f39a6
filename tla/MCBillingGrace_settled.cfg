SPECIFICATION Spec
CONSTANTS
    Domains = {d1, d2}
    Invoices = {i1, i2}
    GraceDays = 1
    LastDay = 4
    MaxEvents = 6
    MaxFailures = 0
    MaxCrashes = 0
    Overlap = FALSE
    Reorder = FALSE
    None = None
SYMMETRY Symmetry
CHECK_DEADLOCK FALSE
INVARIANTS
    PaidIsServed
    UnpaidIsPursued
    EndedStaysCanceled
