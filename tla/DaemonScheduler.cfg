SPECIFICATION FairSpec
CONSTANTS
    chat = chat
    compress = compress
    scan = scan
    lane = lane
    clock = clock
    Identities = {chat, compress, scan}
    Resources = {lane, clock}
    Submissions <- MCSubmissions
    MaxConcurrency = 2
    QueueCapacity = 2
    CancelModes = {TRUE, FALSE}
    MaxSequence = 3
    MaxTime = 1
INVARIANTS SchedulerInv
PROPERTIES ImplementsContract FutureSettles ShutdownDrains
