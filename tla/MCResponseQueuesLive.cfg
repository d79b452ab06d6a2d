CONSTANTS
    Clients = {c1}
    Threads = {t1, t2}
    Responses = {r1, r2, r3}
    Fatal = {r3}
    MaxPendingResponses = 4
    WriteMayFailAtOnce = FALSE
    OutOfMemory = {"thread"}
    None = None
SPECIFICATION FairSpec
CHECK_DEADLOCK FALSE
INVARIANTS
    NoResponseForgotten
PROPERTIES
    ResponsesDelivered
    MarkedClientDeleted
