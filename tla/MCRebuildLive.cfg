SPECIFICATION FairSpec
CONSTANTS
    Concepts = {c1, c2}
    AppendMode = AppendMode
    FullRebuild = FullRebuild
    None = None
    InvalidName = InvalidName
    ConceptLimit = 1
    Owners = {o1}
    Workers = {w1, w2}
    MaxConsecutiveCaps = 1
    Raws = {r1}
    MaxIterations = 2
    MaxClock = 2
    MaxManual = 1
    Deletable = {o1}
    MayRestart = FALSE
INVARIANTS
    WithinConceptLimit
PROPERTIES AnnouncedRawSettles
CHECK_DEADLOCK FALSE
