SPECIFICATION Spec
CONSTANTS
    None = None
    Absent = Absent
    Names <- MCNames
    MaxBoost = 5
    MinSimilarity = 70
    TopK = 2
    AiWeight = 35
    MinScore = 40
    Settings <- MCSettings
    MinAlert = 70
    ScoreDelta = 10
    MaxByHand = 2
    MaxBriefs = 2
    MaxTokens = 40
    Budget = 45
    LiveScore = 90
INVARIANTS ReportsVerify EmptyBriefsOnlyAfterDisabled KnownWasTold
PROPERTIES AnswersReplacedInKnownWays PassRanksItsListing ComparisonsAgree TextsFetchedOnce
CHECK_DEADLOCK FALSE
