SPECIFICATION Spec
CONSTANTS
    n1 = n1
    t1 = t1
    MaxSteps = 3
    Names = {n1, n2}
    Locals = {l1}
    Clients = {c1}
    Turns = {t1, t2}
    Inputs = {i1}
    Configured = {n1, n2, l1}
    Unconfigured = {l1}
    Recent = 2
    Trigger = 3
    RequestOf <- AskAlike
    Nobody = Nobody
    Absent = Absent
    MaxSubmissions = 3
    MaxCalls = 2
    MaxManaged = 1
    MaxCrashes = 1
INVARIANTS TurnsSafe ApprovedOnce
PROPERTIES ConversationKept
ACTION_CONSTRAINT BeginsHere
CHECK_DEADLOCK FALSE
