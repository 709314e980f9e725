SPECIFICATION Spec
CONSTANTS
    Workers = {w1}
    Threads = {t1, t2}
    Jobs = {k1}
    NoJob = NoJob
    Capacity = 1
    Lineages = {l1}
    Nobody = Nobody
    MaxTickets = 1
    LineageCapacity = 1
    Durable = FALSE
    MaxFootprint = 1
    Calls = {"shutdown"}
INVARIANT
    ShutdownCancelsPending
CHECK_DEADLOCK FALSE
