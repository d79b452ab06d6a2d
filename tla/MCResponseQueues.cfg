CONSTANTS
    Clients = {c1, c2}
    Threads = {t1, t2}
    Responses = {r1, r2, r3}
    Fatal = {r3}
    MaxPendingResponses = 4
    WriteMayFailAtOnce = TRUE
    OutOfMemory = {"thread", "loop"}
    None = None
SPECIFICATION Spec
SYMMETRY Symmetry
CHECK_DEADLOCK FALSE
INVARIANTS
    TypeOK
    ResponsesAccounted
    RemovedClientUnreferenced
    ReceivingHasResponse
    ReferencesAccounted
    ServerStatExact
