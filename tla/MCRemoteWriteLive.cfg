CONSTANTS
    Requests = {r1, r2}
    N = 2
    HasWrite = TRUE
    WriteURL <- MCWriteURL
    Paths <- MCOnePath
    FlakyClient = {1}
    MayBeBad = {1}
SPECIFICATION Spec
PROPERTIES
    CallerAnswered
    ChannelsDrain
CHECK_DEADLOCK FALSE
