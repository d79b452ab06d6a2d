CONSTANTS
    Servers = {s1}
    Responses = {r1, r2}
    MaxAcks = 2
    Failures = {"resolve", "setsockopt", "write"}
    OutOfMemory = {"thread"}
SPECIFICATION FairSpec
CHECK_DEADLOCK FALSE
INVARIANTS
    NoForwardForgotten
PROPERTIES
    ForwardedResponsesFinished
    ShutdownCompletes
