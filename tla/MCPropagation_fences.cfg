SPECIFICATION Spec
CONSTANTS
    One = 4
    Resources <- Nodes
    Contexts <- CrossedContexts
    Requests <- MCRequests
    Recoveries <- MCRecoveries
    MaxRequests = 1
    MaxSources = 3
    MaxContributions = 3
    LineageCapacity = 2
    ApplicationCapacity = 5
    DampingCapacity = 5
    Nowhere = Nowhere
CHECK_DEADLOCK FALSE
INVARIANT
    IngressFencesHold
