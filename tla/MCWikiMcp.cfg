SPECIFICATION Spec
CONSTANTS
    None = None
    u1 = u1
    u2 = u2
    m1 = m1
    c1 = c1
    Users = {u1, u2}
    SharedMemories = {m1}
    Concepts = {c1}
    RawIds = {1, 2, 3, 4, 5}
    MaxTime = 2
    MaxBytes = 3
    PAGE_LIMIT = 2
    PAGE_CONTENT_BYTE_BUDGET = 2
    StoredRaws <- MCStoredRaws
    StoredWikis <- MCStoredWikis
    StoredSchemas = {u1, u2, m1}
    Ids = {"none", "null", "export", "1", "2", "3", "4", "5", "6", "7", "8", "9", "10", "11", "12", "13", "14"}
    Exporters = {u1}
    Leavers = {u1}
    Requests <- MCRequests
    Slots = {p1, p2}
SYMMETRY Symmetry
INVARIANTS PrivateRows AnswersMatchEffects ExportComplete
PROPERTY ExportAdvances
CHECK_DEADLOCK FALSE
