CONSTANTS
    Requests = {r1, r2}
    N = 2
    HasWrite = TRUE
    WriteURL <- MCWriteURL
    Paths <- MCPaths
    FlakyClient = {1}
    MayBeBad = {1}
SPECIFICATION Spec
INVARIANTS
    TypeOK
    UrlIntact
    Accounted
PROPERTY
    ImplementsRelay
CHECK_DEADLOCK FALSE
