SPECIFICATION Spec
CONSTANTS
    None = None
    Policies = {p1}
    MaxGeneration = 1
    Topologies = {d1}
    Fences = {f1, f2}
    FenceForms = {v1}
    MaxFences = 2
    Lineages = {l1, l2}
    MaxLineages = 1
    Resources = {r1, r2}
    MaxFootprint = 1
    Attempts = {a1}
    MaxRecords = 9
    MaxBoots = 3
    MaxDamaged = 5
    Ops = {"config", "fence", "lineage", "revalidation", "attempt", "compact"}
    Faults = {"create", "append", "sync", "rewrite", "rival"}
SYMMETRY Symmetry
CHECK_DEADLOCK FALSE
CONSTRAINT Followed
INVARIANTS
    MemoryIsReplay
    AckedSurvives
    UsableAfterCrash
