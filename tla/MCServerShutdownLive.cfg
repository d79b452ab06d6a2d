CONSTANTS
    Clients = {c1, c2}
    Threads = 1
    MaxPending = 1
    MaxPresses = 1
    CalmShutdown = FALSE
    KeepAlive = FALSE
    OutOfMemory = {}
SPECIFICATION FairSpec
CHECK_DEADLOCK FALSE
PROPERTIES
    ShutdownProceeds
