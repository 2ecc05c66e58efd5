SPECIFICATION FairSpec
CONSTANTS
    None = None
    a1 = a1
    a2 = a2
    x1 = x1
    x2 = x2
    Schemas = {s1}
    Calls = {k1, k2}
    Names = {a1, a2, x1, x2}
    Key <- MCKey
    Unscannable = {x2}
    SharedNames = {x1}
    Batches <- MCBatches
    FetchLimit = 1
    Canonicalizer = TRUE
    LlmMax = 1
    PageSize = 1
    HardCap = 2
    MaxJobs = 3
INVARIANTS
    TypeOK
    OneIngestPerSchema
    OkMeansExtracted
    NoDuplicateEntities
PROPERTY TurnComes
CHECK_DEADLOCK FALSE
