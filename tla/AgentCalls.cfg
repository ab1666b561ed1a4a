SPECIFICATION FairSpec
CONSTANTS
    Chats = {c1}
    Advances = {a1}
    Configured <- MCConfigured
    Calls <- MCCalls
    ReadonlyTools = {"search"}
    ConfirmedTools = {"create", "dismiss"}
    SummarisedTools = {"create"}
    ChatAttempts = 2
    MaxRounds = 2
    None = None
    Corrupt = Corrupt
INVARIANTS NotReplayed ApprovedFirst
PROPERTY RunsEnd
CONSTRAINT Bounds
CHECK_DEADLOCK FALSE
