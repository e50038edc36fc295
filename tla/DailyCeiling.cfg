SPECIFICATION Spec
CONSTANTS
    None = None
    acme = acme
    cat = cat
    CAT = CAT
    dog = dog
    Workers = {w1, w2}
    Operators = {ops}
    Requests <- GenerationRequests
    Normalised <- NormalisedPrompts
    Reasons = {incident}
    Configs <- OneLevel
    CallCeiling = 10
    LoopWindow = 2
    ShadowActions <- CampaignShadow
    Similarity <- PromptSimilarity
    DedupThreshold = 97
    Generations <- CatAndDog
    MaxCalls = 4
    MaxFailures = 0
    MaxTicks = 0
INVARIANTS
    DailyCeilingHolds
CHECK_DEADLOCK FALSE
