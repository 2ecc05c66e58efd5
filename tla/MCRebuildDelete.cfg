SPECIFICATION Spec
CONSTANTS
    Concepts = {c1, c2}
    AppendMode = AppendMode
    FullRebuild = FullRebuild
    None = None
    InvalidName = InvalidName
    ConceptLimit = 2
    Owners = {o1}
    Workers = {w1, w2}
    MaxConsecutiveCaps = 3
    Raws = {r1}
    MaxIterations = 2
    MaxClock = 2
    MaxManual = 0
    Deletable = {o1}
    MayRestart = FALSE
INVARIANT DeletedAccountIsEmpty
CHECK_DEADLOCK FALSE
