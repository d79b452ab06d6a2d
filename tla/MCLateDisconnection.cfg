CONSTANTS
    MaxRequestProcessingThreads = 1
    Requests = {}
    Disconnections = {"d1", "d2"}
    Others = {}
    CalmShutdown = FALSE
    ListMayFail = FALSE
    MaxStats = 0
    MaxFiles = 0
SPECIFICATION Spec
CHECK_DEADLOCK FALSE
INVARIANT
    ThreadIndexInRange
