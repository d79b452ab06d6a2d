CONSTANTS
    Threads = {"t1", "t2", "t3"}
    NoThread = "none"
SPECIFICATION Spec
INVARIANTS
    BarrierTypeOK
    UpdateSeen
PROPERTIES
    ImplementsCalls
    UpdateReturns
