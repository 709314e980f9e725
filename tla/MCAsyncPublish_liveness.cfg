SPECIFICATION FairSpec
CONSTANTS
    Workers = {w1}
    Threads = {t1, t2}
    Jobs = {k1, k2}
    NoJob = NoJob
    Capacity = 1
    Lineages = {l1}
    Nobody = Nobody
    MaxTickets = 2
    LineageCapacity = 1
    Durable = FALSE
    MaxFootprint = 1
    Calls = {"cancel", "registry", "drain", "shutdown"}
PROPERTY
    TicketSettles
    ShutdownReturns
CHECK_DEADLOCK FALSE
