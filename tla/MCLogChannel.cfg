CONSTANTS
    Keys = {k1, k2}
    DefaultMaxCount = 3
    DefaultInterval = 3
    MaxInt = 100
    EnvMaxCount <- MCEnvMaxCount
    EnvInterval <- MCEnvInterval
    MaxNumber = 4
    MaxStamps = 4
SPECIFICATION Spec
INVARIANTS
    TypeOK
    NoPanic
    RateLimited
    WindowLimited
    SummaryExact
PROPERTIES
    ErrorsStayVisible
    QuietRecovers
