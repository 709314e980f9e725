SPECIFICATION Spec
CONSTANTS
    None = None
    Policies = {p1}
    MaxGeneration = 1
    Topologies = {d1}
    Fences = {f1, f2}
    FenceForms = {v1}
    MaxFences = 1
    Lineages = {l1}
    MaxLineages = 1
    Resources = {r1}
    MaxFootprint = 1
    Attempts = {a1}
    MaxRecords = 7
    MaxBoots = 3
    MaxDamaged = 5
    Ops = {"fence", "lineage", "compact"}
    Faults = {}
SYMMETRY Symmetry
CHECK_DEADLOCK FALSE
INVARIANT
    UsableAfterCrash
