SPECIFICATION Spec
CONSTANTS
    Chats = {}
    Advances = {a1}
    Configured <- MCConfigured
    Calls <- MCFewCalls
    ReadonlyTools = {"search"}
    ConfirmedTools = {}
    SummarisedTools = {}
    ChatAttempts = 1
    MaxRounds = 2
    None = None
    Corrupt = Corrupt
INVARIANT AdvanceNotReplayed
CHECK_DEADLOCK FALSE
