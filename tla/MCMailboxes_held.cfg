SPECIFICATION MCSpec
CONSTANTS
    m1 = m1
    m2 = m2
    m3 = m3
    d1 = d1
    d2 = d2
    Mailboxes = {m1, m2, m3}
    Domains = {d1, d2}
    DomainOf <- Place
    LocalPart <- Name
    MailboxLimit = 2
    DomainLimit = 1
    HeldLimit = 1
    Workers = {w1, w2}
    Sweeper = sweeper
    MaxFaults = 1
    MaxRequests = 2
    None = None
CHECK_DEADLOCK FALSE
INVARIANTS
    TypeOK
    SeatsAccounted
    ServerAgrees
    WithinLimit
PROPERTIES
    HeldEnds
