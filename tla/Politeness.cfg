SPECIFICATION FairSpec
CONSTANTS
    t1 = t1  t2 = t2
    ashby = ashby
    NoTime = NoTime
    Threads = {t1, t2}
    Providers = {ashby}
    ProviderOf <- OneProvider
    MinDelay = 1
    Jitter = 0
    MaxInflight = 1
    Attempts = 2
    BackoffBase = 1
    BackoffMax = 2
    Threshold = 1
    Cooldown = 2
    Outcomes = {"ok", "transient", "odd", "uncaught"}
    UrlOpen = {t1}
    Calls <- TwoAndOne
    MaxLatency = 0
    Prompt = {t2}
INVARIANTS SlotInv RateBound SendsEndAfterTrip
PROPERTY CallsEnd
CHECK_DEADLOCK FALSE
