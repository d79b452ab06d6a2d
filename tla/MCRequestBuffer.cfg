CONSTANTS
    HeaderSize = 2
    Versions = {"v", "peer"}
    Peer = "peer"
    NoVersion = "none"
    OtherVersions = {"other"}
    MaxRequestSize <- MCMaxRequestSize
    LargestSize = 4
    ClientSize = 10
    MaxMessages = 3
    OutOfMemory = {"buffer", "request", "thread", "list"}
SPECIFICATION Spec
CHECK_DEADLOCK FALSE
INVARIANTS
    MemoryAccounted
    RequestStaysWhole
    ReadsWithinAllocation
    ReadsOneRequest
    WaitingAssertions
PROPERTIES
    MessageReceived
