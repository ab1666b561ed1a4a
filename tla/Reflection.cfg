SPECIFICATION FairSpec
CONSTANTS
    Pool <- MCPool
    Emergent = {"bridge_self"}
    Scores = {20, 50, 80}
    MaxParticipants = 2
    MaxTurns = 2
    BlockingThreshold = 35
    OverrideThreshold = 70
    CompositeThreshold = 40
    Daemon = Daemon
    Users = {u1}
    Verbs = {"run", "organize", "dismiss", "promote"}
    HoursPerDay = 3
    QuietStart = 1
    QuietEnd = 2
    Cooldown = 1
    Interval = 3
    JitterPercent = 34
    DailyCap = 1
    AutoNotify = TRUE
    MaxEntries = 2
    MaxHours = 3
    MaxOperations = 1
    MaxFailures = 1
    None = None
    Corrupt = Corrupt
INVARIANTS Paced MergedIsNoted
PROPERTIES CycleEnds
CHECK_DEADLOCK FALSE
