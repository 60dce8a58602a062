CONSTANTS
    Keys = {1, 2}
    Artifacts = {1, 2}
    KeyOf <- TwoKeys
    RankedOf <- JsonOfTwo
    RunReport = run_report
    Daily = daily
    Operators = {operator}
    Required = TRUE
    Faults = {"stage", "guardrail", "preflight", "upload", "client", "connection", "crash"}
    MaxRun = 2
    MaxByHand = 1
    Global = global
    None = None
SPECIFICATION Spec
CHECK_DEADLOCK FALSE
INVARIANTS
    UploadedMatchesReport
    PointersNameCompleteRuns
    BaselineResolves
PROPERTIES
    ImplementsCatalog
    ContractKept
