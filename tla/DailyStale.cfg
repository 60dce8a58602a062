SPECIFICATION Spec
CONSTANTS
  Providers = {"openai", "ashby"}
  Openai = "openai"
  Settings <- PlainSettings
  Jobs = {"j1"}
  MaxRuns = 3
  Absent = Absent
  Torn = Torn
  None = None
PROPERTY ShortCircuitIsFresh
CHECK_DEADLOCK FALSE
