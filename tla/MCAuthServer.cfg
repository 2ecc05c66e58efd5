SPECIFICATION Spec
CONSTANTS
    None = None
    c1 = c1
    c2 = c2
    u1 = u1
    Generation = 2
    Clients = {c1, c2}
    Registration <- MCRegistration
    Uris = {u1, u2}
    HttpsUris = {u1}
    MaxRedirectUris = 1
    Verifiers = {v1, v2}
    Subjects = {s1}
    UserIds = {i1, i2}
    Keys = {k1, k2}
    Codes = {d1, d2}
    Tokens = {t1, t2, t3}
    Requests = {q1, q2}
    MaxPendingAuths = 2
    MaxAuthCodes = 1
    PendingTtl = 2
    AuthCodeTtl = 1
    RefreshTtl = 2
    MaxClock = 2
SYMMETRY Symmetry
INVARIANTS TypeOK OneCredentialPerFlow CredentialsHaveUsers SessionsBounded
PROPERTY SpentStaysSpent
