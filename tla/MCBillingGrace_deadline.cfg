SPECIFICATION FairSpec
CONSTANTS
    Domains = {d1}
    Invoices = {i1}
    GraceDays = 1
    LastDay = 3
    MaxEvents = 3
    MaxFailures = 1
    MaxCrashes = 1
    Overlap = TRUE
    Reorder = TRUE
    None = None
CHECK_DEADLOCK FALSE
INVARIANTS
    SuspendedAfterGrace
    DeadlineIsTheInvoices
PROPERTIES
    GraceCloses
