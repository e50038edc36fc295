SPECIFICATION Spec
CONSTANTS
    None = None
    Other = Other
    Calls = {c1}
    Catalog <- TwoModels
    IdRank <- Ranks
    Requests <- MixedRequests
    Params = {"bad"}
    Ceiling = 2
    Lengths <- TierLengths
    Tariffs <- OneTariff
INVARIANT ChargedWithinCeiling
CHECK_DEADLOCK FALSE
