SPECIFICATION RegSpec
CONSTANTS
    None = None
    Policies = {p1}
    MaxGeneration = 1
    Topologies = {d1}
    Fences = {f1, f2}
    FenceForms = {v1}
    MaxFences = 1
    Lineages <- MCLineages
    MaxLineages = 2
    Resources = {r1}
    MaxFootprint = 1
    Attempts <- MCAttempts
    MaxRecords = 9
    MaxBoots = 2
    Ops = {"config", "fence", "lineage", "revalidation", "attempt", "compact"}
    Faults = {"create", "append", "sync", "rewrite", "rival"}
    Sources = {s1, s2}
    Incarnations <- OneIncarnation
    MaxPublishers = 2
    MaxRevalidation = 1
    CompactAt = 7
    MaxChanges = 2
    Tags = {t1}
    Batches <- MCBatches
    Requests = {"config", "publisher", "fence", "revalidation", "publish", "batch", "recover", "flush", "shutdown"}
SYMMETRY Symmetry
CHECK_DEADLOCK FALSE
INVARIANTS
    StoreTypeOK
    LiveStateIsDurable
    NoUnrecordedEffect
    AmbiguityIsKept
PROPERTY
    EpochsAdvance
