SPECIFICATION FairLockSpec
CONSTANTS
    r1 = r1  r2 = r2  r3 = r3
    p1 = p1  p2 = p2  p3 = p3
    h1 = h1  h2 = h2
    NoPid = NoPid
    Runs = {r1, r2, r3}
    Pids = {p1, p2, p3}
    Hosts = {h1, h2}
    HostOf <- TwoHosts
    Busy <- BusyOnTwo
    PidReuse = TRUE
    MayWait = TRUE
    KillPoints = {"ready", "created", "reading", "judging", "removing", "running"}
INVARIANT OverlapOnlyByUnlink
PROPERTY AloneIsAdmitted
CHECK_DEADLOCK FALSE
