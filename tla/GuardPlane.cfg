SPECIFICATION Spec
CONSTANTS
    None = None
    acme = acme
    cat = cat
    CAT = CAT
    dog = dog
    Workers = {w1, w2}
    Operators = {ops}
    Requests <- MixedRequests
    Normalised <- NormalisedPrompts
    Reasons = {incident}
    Configs <- ThreeLevels
    CallCeiling = 10
    LoopWindow = 1
    ShadowActions <- CampaignShadow
    Similarity <- PromptSimilarity
    DedupThreshold = 97
    Generations <- CatAndDog
    MaxCalls = 3
    MaxFailures = 1
    MaxTicks = 1
INVARIANTS
    StoppedWhileEngaged
    DecisionsLogged
    LoopLimitHolds
    ReuseIsEarned
    RefusalsComeFirst
    KillDenialsExplained
    SwitchLogAgrees
PROPERTIES
    EvaluateEnds
CHECK_DEADLOCK FALSE
