SPECIFICATION FairSpec
CONSTANTS
    Daemon = Daemon
    Client = Client
    n1 = n1
    Writers <- MCWriters
    Records <- MCRecords
    Notes <- MCNotes
    EventCount = 2
    MaxPieces = 3
    Backups = 1
    MaxEvents = 1
    Limit = 1
    MaxAttempts = 2
    MaxFaults = 2
    MaxInterrupts = 1
    MaxSubmissions = 2
    None = None
INVARIANTS OutcomeHonest NothingMissed NoneRepeated ClosedOnce
PROPERTY TurnEnds
CHECK_DEADLOCK FALSE
