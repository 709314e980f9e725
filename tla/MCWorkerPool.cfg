SPECIFICATION FairPoolSpec
CONSTANTS
    Workers = {w1, w2}
    Threads = {t1, t2}
    Jobs = {j1, j2, j3}
    NoJob = NoJob
    Capacity = 2
INVARIANTS
    PoolTypeOK
    ActiveIsExact
    JobsConserved
    NoLostWakeup
    NoLostIdle
PROPERTIES
    DrainReturns
    StopReturns
    AcceptedJobEnds
