SPECIFICATION Spec
CONSTANTS
    Workers = {w1, w2}
    Threads = {t1, t2}
    Jobs = {k1, k2}
    NoJob = NoJob
    Capacity = 1
    Lineages = {l1, l2}
    Nobody = Nobody
    MaxTickets = 1
    LineageCapacity = 1
    Durable = TRUE
    MaxFootprint = 1
    Calls = {"cancel", "release", "publish", "flush", "shutdown"}
SYMMETRY Symmetry
INVARIANTS
    TypeOK
    CompletedIsTruthful
    TicketStoreExact
    InFlightIsOwned
    CancellationIsReal
    PlanStillHolds
    AppliedOnce
    PressureIsNotForgotten
PROPERTY
    ContractSpec
