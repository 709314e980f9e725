SPECIFICATION Spec
CONSTANTS
    N = 4
    MaxArcs = 5
    Declarations <- MCDeclarations
    MaxResources = 4
    MaxEdges = 5
    MaxOutDegree = 3
    MaxInDegree = 3
    MaxIssues = 3
INVARIANTS
    CyclesAreExact
    OrderDoesNotMatter
