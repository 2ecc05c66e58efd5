SPECIFICATION FairSpec
CONSTANTS
    Owners = {o1, o2}
    Workers = {w1, w2}
    Concepts = {c1}
    AppendMode = AppendMode
    FullRebuild = FullRebuild
    None = None
    MaxConsecutiveCaps = 2
INVARIANTS
    TypeOK
    OneWorkerPerOwner
    SlotHeldByWorker
PROPERTIES
    EventuallyReleased
    ImplementsSingleFlight
