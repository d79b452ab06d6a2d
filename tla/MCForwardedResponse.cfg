CONSTANTS
    l1 = l1
    p1 = p1
    p2 = p2
    p3 = p3
    p4 = p4
    p5 = p5
    Messages = {"m1"}
    Strangers = {"x1"}
    StrangeCounts = {0, 1, 3, 4}
    Handles <- MCHandles
    ServerOf <- MCServerOf
    Local = "local"
    MaxHandles = 2
    MaxPayload = 2
    NumberBytes = 8
    Word = 32
SPECIFICATION Spec
SYMMETRY PeerHandles
CHECK_DEADLOCK FALSE
INVARIANTS
    DeliveredAtMostOnce
    DeliveredToAll
    HandlesReadInside
    PayloadIntact
