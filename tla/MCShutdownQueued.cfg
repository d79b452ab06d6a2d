CONSTANTS
    Clients = {c1}
    Threads = 2
    MaxPending = 2
    MaxPresses = 1
    CalmShutdown = FALSE
    KeepAlive = FALSE
    OutOfMemory = {}
SPECIFICATION Spec
CHECK_DEADLOCK FALSE
INVARIANTS
    ProcessorsDeletedLast
