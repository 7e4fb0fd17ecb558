CONSTANTS
    Requests = {r1, r2}
    N = 2
    HasWrite = TRUE
    WriteURL <- MCWriteURL
    Paths <- MCPaths
    FlakyClient = {1}
    MayBeBad = {1}
SPECIFICATION Spec
INVARIANT RequestFailureReported
CHECK_DEADLOCK FALSE
