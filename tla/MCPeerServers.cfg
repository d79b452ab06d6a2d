CONSTANTS
    Servers = {s1, s2}
    Responses = {r1, r2, r3}
    MaxAcks = 2
    Failures = {"lookup", "write"}
    OutOfMemory = {"thread", "loop"}
SYMMETRY Symmetry
SPECIFICATION Spec
CHECK_DEADLOCK FALSE
INVARIANTS
    ConnectionCountersExact
    ForwardedResponsesAccounted
    AcknowledgementsAccounted
PROPERTIES
    DisconnectingUntilClosed
