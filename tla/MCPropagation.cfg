SPECIFICATION Spec
CONSTANTS
    One = 4
    Resources <- Nodes
    Contexts <- MCContexts
    Requests <- MCRequests
    Recoveries <- MCRecoveries
    MaxRequests = 3
    MaxSources = 3
    MaxContributions = 2
    LineageCapacity = 2
    ApplicationCapacity = 5
    DampingCapacity = 5
    Nowhere = Nowhere
CHECK_DEADLOCK FALSE
INVARIANTS
    PropTypeOK
    AmplificationIsAuthorised
    StrongestWins
    SettledByAPath
    EveryEdgeExplained
    WinningPathIsRooted
    StrongestIsAccounted
PROPERTY
    CooldownHolds
