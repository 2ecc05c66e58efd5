SPECIFICATION Spec
CONSTANTS
    Concepts = {c1}
    AppendMode = AppendMode
    FullRebuild = FullRebuild
    None = None
    InvalidName = InvalidName
    ConceptLimit = 2
    Owners = {o1}
    Workers = {w1, w2}
    MaxConsecutiveCaps = 3
    Raws = {r1, r2}
    MaxIterations = 2
    MaxClock = 2
    MaxManual = 0
    Deletable = {}
    MayRestart = FALSE
INVARIANT AnnouncedRawsAreListed
CHECK_DEADLOCK FALSE
