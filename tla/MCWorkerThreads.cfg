CONSTANTS
    MaxRequestProcessingThreads = 1
    Requests = {"r1"}
    Disconnections = {"d1"}
    Others = {}
    CalmShutdown = TRUE
    ListMayFail = FALSE
    MaxStats = 1
    MaxFiles = 1
SPECIFICATION Spec
CHECK_DEADLOCK FALSE
INVARIANTS
    WorkInOnePlace
    NoThreadSleepsOnWork
    ThreadIndexInRange
    QueuedBeforeStopIsWritten
PROPERTIES
    WorkIsCalledBack
    DrainsStop
