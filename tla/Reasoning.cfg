SPECIFICATION MCSpec
CONSTANTS
    MaxThreads = 2
    Users = {u1}
    Daemon = Daemon
    Verbs = {"start", "advance", "pause", "resume", "resolve", "archive", "delete"}
    Interval = 1
    MaxSteps = 1
    MaxOperations = 3
    MaxFailures = 1
    None = None
    j1 = j1
    Jobs = {j1, j2}
    StepCount = 2
    SegmentSize = 1
    WindowSize = 2
    MaxAttempts = 2
    Capacity = 2
    MaxRaised = 2
    Absent = Absent
INVARIANTS NothingUnstored WholeOutput Awaited FailureCostsOneCall
PROPERTIES OldestServed JobSettles
ACTION_CONSTRAINT JobsInOrder
CHECK_DEADLOCK FALSE
