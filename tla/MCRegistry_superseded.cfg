SPECIFICATION RegSpec
CONSTANTS
    None = None
    Policies = {p1}
    MaxGeneration = 1
    Topologies = {d1}
    Fences = {f1}
    FenceForms = {v1}
    MaxFences = 1
    Lineages <- MCLineages
    MaxLineages = 2
    Resources = {r1}
    MaxFootprint = 1
    Attempts <- MCAttempts
    MaxRecords = 9
    MaxBoots = 2
    Ops = {"config", "fence", "lineage", "revalidation", "attempt", "compact"}
    Faults = {}
    Sources = {s1}
    Incarnations <- TwoBoots
    MaxPublishers = 2
    MaxRevalidation = 1
    CompactAt = 7
    MaxChanges = 2
    Tags = {t1}
    Batches <- MCBatches
    Requests = {"config", "publisher", "publish"}
CHECK_DEADLOCK FALSE
INVARIANT
    SupersededNeverPublishes
