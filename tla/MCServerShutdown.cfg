CONSTANTS
    Clients = {c1, c2, c3}
    Threads = 2
    MaxPending = 2
    MaxPresses = 1
    CalmShutdown = TRUE
    KeepAlive = TRUE
    OutOfMemory = {"thread", "client", "request"}
SPECIFICATION Spec
CHECK_DEADLOCK FALSE
SYMMETRY Symmetry
INVARIANTS
    DisconnectionsAccounted
    WorkHasClient
    ProcessorsDeletedLast
