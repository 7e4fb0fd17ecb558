CONSTANTS
    N = 3
    MayBeBad = {1}
SPECIFICATION Spec
INVARIANTS
    TypeOK
    OkMeansAll
    FailureMeansSome
    NoOrphans
PROPERTIES
    EventuallyAnswered
    ImplementsBroadcast
CHECK_DEADLOCK FALSE
