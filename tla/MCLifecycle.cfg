CONSTANTS
    PublicRequests = {"p1"}
    InternalRequests = {"i1"}
    Endpoints = {"e1", "e2"}
    MaxSignals = 1
SPECIFICATION Spec
INVARIANTS
    TypeOK
    OrderlyExit
    ExitTellsCause
PROPERTY
    StopEnds
CHECK_DEADLOCK FALSE
