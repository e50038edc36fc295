SPECIFICATION Spec
CONSTANTS
    None = None
    Other = Other
    Calls = {c1, c2}
    Catalog <- TwoModels
    IdRank <- Ranks
    Requests <- MixedRequests
    Params = {"bad"}
    Ceiling = 2
    Lengths <- TierLengths
    Tariffs <- TwoTariffs
SYMMETRY CallSymmetry
INVARIANTS
    TrapNeverCharged
    ChargedAsQuoted
    LengthKept
    NothingHidden
CHECK_DEADLOCK FALSE
