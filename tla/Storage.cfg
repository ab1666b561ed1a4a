SPECIFICATION MCSpec
CONSTANTS
    p1 = p1
    p2 = p2
    t1 = t1
    t2 = t2
    t3 = t3
    Current = 7
    Absent = Absent
    Procs = {p1, p2}
    Migrator = Migrator
    Keys = {k1, k2}
    Conversations <- MCConversations
    Targets = {7, 5}
    MaxFaults = 2
    Threads = {t1, t2, t3}
    ProcOf <- MCProcOf
    Repairers = {t3}
    Editors = {t3}
    MaxWrites = 2
    Names <- MCNames
    MaxRecordSteps = 2
    MaxEdits = 1
INVARIANTS StoredIsRead AuditsAccepted
PROPERTIES NothingLost AllOrNothing RepairKeepsChanges AuthorityKept NothingForgotten
CHECK_DEADLOCK FALSE
