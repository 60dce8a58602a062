SPECIFICATION Spec
CONSTANTS
  Providers = {"openai", "ashby"}
  Openai = "openai"
  Settings <- AllSettings
  Jobs = {"j1"}
  MaxRuns = 3
  Absent = Absent
  Torn = Torn
  None = None
INVARIANTS LostOnlyInKnownWays AlertsPrecedeLastSeen PointersResolve SuccessesAgree HealthMatchesReport RanksWhatItScraped
PROPERTY ShortCircuitAfterSuccessIsFresh
CHECK_DEADLOCK FALSE
