SPECIFICATION Spec
CONSTANTS
    None = None
    key1 = key1
    Calls = {c1, c2}
    Requests <- MixedRequests
    Limits <- GenerateLimit
    Window = 2
    MaxAttempts = 3
    BaseDelay = 1
    MaxDelay = 2
    Responses <- MixedResponses
INVARIANTS
    ChargedOnce
    GivesUpLate
    GrantedWithinRate
PROPERTIES
    OnlyTransientRepeated
    CallEnds
CHECK_DEADLOCK FALSE
