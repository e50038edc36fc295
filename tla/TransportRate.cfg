SPECIFICATION RateSpec
CONSTANTS
    None = None
    key1 = key1
    Calls = {c1, c2, c3, c4, c5}
    Requests <- Reads
    Limits <- ReadLimit
    Window = 4
    MaxAttempts = 1
    BaseDelay = 1
    MaxDelay = 2
    Responses <- Success
INVARIANTS
    PacedToLimit
SYMMETRY CallSymmetry
CHECK_DEADLOCK FALSE
