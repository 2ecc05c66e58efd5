SPECIFICATION Spec
CONSTANTS
    Concepts = {c1, c2, c3}
    ConceptLimit = 2
    InvalidName = InvalidName
    MaxNew = 3
    MaxCalls = 5
    RateCalls <- MCRateCalls
    Kids <- MCKids
    Secrets = {s1, s2}
    MaxKeys = 2
    Ages = {0, 2, 3, 4}
    PerMinute <- MCPerMinute
    MINUTE = 3
    INPUT_LIMIT = 3
    SearchLimitMax = 100
    Space = " "
    Lower <- MCLower
    QUERY_NODES_LIMIT_MAX = 4
    I32_MAX = 5000
    MaxInteger = 6000
    ConceptNames <- MCConceptNames
    CursorWords <- MCCursorWords
    MAX_CATALOGUE_ENTRIES = 2
    MAX_CATALOGUE_NAME_BYTES = 4
    MIN_HS256_KEY_BYTES = 32
    ACCESS_TOKEN_TTL_SECS = 2
    LEEWAY = 1
    MaxRows = 4
    MaxRefs = 2
    Results <- MCResults
    MaxResults = 2
    MaxPage = 3
    Nodes = {n1, n2, n3, n4}
    MaxNodes = 3
    Schemas = {"user-1", "user-2", "shared"}
    MaxSchemas = 3
    Objects <- MCObjects
    Noise <- MCNoise
    MaxText = 9
    Splits <- MCSplits
    CatalogueLists <- MCCatalogueLists
    TextSizes <- MCTextSizes
    AnswerSizes <- MCAnswerSizes
    Texts <- MCTexts
    SharedLists <- MCSharedLists
    EntityNames <- MCEntityNames
    MaxNames = 2
    Uris <- MCUris
    Codes <- MCCodes
    StateChars <- MCStateChars
    MaxState = 3
INVARIANTS
    BudgetKept
    RateKept
    InputComplete
    ScanAndRewrite
    TwoAnswersOne
    DescriptionsAgree
    WholeAnswerOrNone
    CanonicalizationSafe
    KeyRotation
    ClientGetsItsState
CHECK_DEADLOCK FALSE
