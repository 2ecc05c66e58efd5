SPECIFICATION Spec
CONSTANTS
    Concepts = {c1, c2}
    AppendMode = AppendMode
    FullRebuild = FullRebuild
    None = None
    InvalidName = InvalidName
    ConceptLimit = 2
    Owners = {o1}
    Workers = {w1, w2}
    MaxConsecutiveCaps = 1
    Raws = {r1, r2}
    MaxIterations = 2
    MaxClock = 3
    MaxManual = 1
    Deletable = {}
    MayRestart = TRUE
SYMMETRY Symmetry
INVARIANTS
    WatermarkCovers
    NoLostWakeup
PROPERTY WatermarkMonotone
