CONSTANTS
    PublicRequests = {"p1"}
    InternalRequests = {"i1"}
    Endpoints = {"e1"}
    MaxSignals = 2
SPECIFICATION Spec
INVARIANT
    DrainSurvives
CHECK_DEADLOCK FALSE
