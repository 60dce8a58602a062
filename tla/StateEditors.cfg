SPECIFICATION Spec
CONSTANTS
    p1 = p1  p2 = p2
    Procs = {p1, p2}
    Local = "local"
    Candidates = {"local", "alice", "bob"}
    Legacy = {"alice"}
    Kinds = {1, 2}
    Jobs = {"j1", "j2"}
    Statuses = {"saved"}
    NoStatus = "none"
    MaxCommands = 3
    MaxSpoils = 1
SYMMETRY Shells
PROPERTIES DoctorPassesBootstrapped RegistryLosesOnlyToRaces TextsLostOnlyInKnownWays MarksLostOnlyInKnownWays
CHECK_DEADLOCK FALSE
