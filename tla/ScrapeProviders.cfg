SPECIFICATION Spec
CONSTANTS
    Requests <- TwoRequests
    TypeOf <- MCTypeOf
    ModeOf <- MCModeOf
    LiveEnabled <- MCLiveEnabled
    Configured <- MCConfigured
    KeyOf <- MCKeyOf
    OperatorEnvs <- MCOperatorEnvs
    Allowlists <- MCAllowlists
    Second = 6
    NotGiven = NotGiven
    Counts = {0, 1, 10}
    MinJobs = 1
    RatioDivisor = 5
    Missing = Missing
    Invalid = Invalid
    None = None
INVARIANTS PacedByOwnEntry ShrinkageFailsRun
CHECK_DEADLOCK FALSE
