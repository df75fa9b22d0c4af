SPECIFICATION FairSpec
CONSTANTS
    MaxTokens = 3
    MaxQueries = 2
    Size <- MCSize
    Wants <- MCWants
    FetchConcurrency = 1
    MaxBytes = 2
    Fingerprints = 2
    CatalogBytes = 1
    ConnectRequests = 1
INVARIANTS
    TypeOK
    ShownIsCurrent
    CacheBounded
    BytesAsAsked
    StatsOwn
PROPERTIES
    Settles
CHECK_DEADLOCK FALSE
