SPECIFICATION FairSpec
CONSTANTS
    Daemons = {d1, d2}
    Clients = {c1, c2}
    MaxOperations = 2
    MaxCrashes = 1
    MaxFailures = 1
    None = None
INVARIANTS ServesItsFiles StopIsComplete
PROPERTIES AskedExits
CHECK_DEADLOCK FALSE
