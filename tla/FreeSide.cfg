SPECIFICATION FreeSpec
CONSTANTS
    None = None
    Failed = Failed
    Other = Other
    Unanswered = Unanswered
    NoNumber = NoNumber
    Catalog <- Models
    Plans <- AllPlans
    Accounts <- MixedAccounts
    StepCeiling = 4
    PlanCeiling = 5
    MaxConcurrent = 2
    IdRank <- Ranks
    Answers <- MixedAnswers
    Histories <- Histories2
    Markets <- FourMarkets
    MaxMarkets = 3
    NamedAfter <- Prefixed
    Offers <- TwoOffers
    Selections <- MixedSelections
    Listings <- MixedListings
    Dryruns <- MixedDryruns
    Pages <- MixedPages
    MaxOdd = 2
INVARIANTS
    OrderIsTopological
    BodiesHonest
    NothingCheaper
    GoIsCovered
    SavingsAddUp
    GapCoversUnlisted
    RowsAnswerSelection
    ExitZeroMeansSound
PROPERTIES
    PlanConcluded
    LogGrowsByChanges
    ChangesGetRecorded
CHECK_DEADLOCK FALSE
