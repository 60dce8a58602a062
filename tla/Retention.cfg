SPECIFICATION Spec
CONSTANTS
    Providers = {"anthropic", "xai"}
    Requests = {{"openai"}, {"openai", "anthropic"}, {"openai", "xai"}}
    NameOrder <- BeforeAndAfter
    KeepRuns = 1
    KeepDays = 1
    KeepReports = 1
    KeepHistory = 1
    MaxAge = 1
    MaxRun = 2
    MaxDay = 2
    MaxByHand = 1
INVARIANTS NewestDailyResolves LostToNewerRuns
PROPERTY KeptUnlessPushedOut
CHECK_DEADLOCK FALSE
