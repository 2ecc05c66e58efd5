SPECIFICATION Spec
CONSTANTS
    None = None
    Users = {u1, u2}
    SharedSchema = SharedSchema
    Ids = {i1, i2}
    i1 = i1
    i2 = i2
    Issuable <- MCIssuable
    MaxChunks = 2
    JsonIds = {"1", "2", "3", "4", "5", "6"}
    Bodies <- MCBodies
    Slots = {p1, p2}
SYMMETRY Symmetry
INVARIANTS TypeOK TenantIsolation ResponsesMatchEntries RecordedMeansOwned
PROPERTY ImplementsFirstClaim
