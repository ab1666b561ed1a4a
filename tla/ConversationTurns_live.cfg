SPECIFICATION FairSpec
CONSTANTS
    n1 = n1
    t1 = t1
    MaxSteps = 3
    Names = {n1}
    Locals = {l1}
    Clients = {c1}
    Turns = {t1, t2}
    Inputs = {i1}
    Configured = {n1, l1}
    Unconfigured = {}
    Recent = 2
    Trigger = 3
    RequestOf <- AskAlike
    Nobody = Nobody
    Absent = Absent
    MaxSubmissions = 3
    MaxCalls = 1
    MaxManaged = 0
    MaxCrashes = 1
PROPERTIES ClientAnswered CompressionCatchesUp
ACTION_CONSTRAINT BeginsHere
CHECK_DEADLOCK FALSE
