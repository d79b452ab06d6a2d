--------------------------- MODULE RequestBufferProofs ---------------------------
(***************************************************************************)
(* The request buffer is correct for every size of header and request,     *)
(* every set of versions and every number of messages, as long as the      *)
(* request of a peer server can be allocated (LocalClientsManager.cpp:863  *)
(* keeps such a peer connected, and with it the ASSERTs can fail).         *)
(***************************************************************************)
EXTENDS RequestBuffer, TLAPS

-------------------------------------------------------------------------------
(* The inductive invariant                                                   *)

\* What is offered is what lies between the index and the end of the buffer.
OfferInv ==
    /\ index <= len
    /\ offered = IF loop = "read" THEN len - index ELSE 0

\* The buffer and its size: the header's, the request's, or the version's largest.
AllocationInv ==
    /\ base = "header" => ~forStreaming /\ len = IF life = "closed" THEN 0 ELSE HeaderSize + 1
    /\ base = "allocated" /\ ~forStreaming => capacity = len
    /\ forStreaming => /\ version \in Versions
                       /\ capacity = HeaderSize + MaxRequestSize[version]
                       /\ len <= capacity

\* A size is known only between its header and the allocation for its request.
SizeFoundInv ==
    sizeFound > 0 =>
        /\ index = HeaderSize + 1 /\ len = HeaderSize + 1
        /\ base = "header" \/ forStreaming
        /\ version \in Versions
        /\ sizeFound \in 2..MaxRequestSize[version]

\* The life of the client, and of the request it has in the pool.
LifeInv ==
    /\ processing <=> work # "none"
    /\ life # "open" => marked /\ ~reading /\ ~processing
    /\ ~processing /\ forStreaming /\ life = "open" => streaming

\* The message being received has a header that was accepted.
HeaderAccepted ==
    /\ msg.preamble /\ msg.version = version /\ version \in Versions
    /\ msg.size \in 2..MaxRequestSize[version]

\* Where a client that is neither marked nor being shut down stands in its message.
ReceiveInv ==
    ~shutdown /\ ~marked /\ ~processing =>
        \/ /\ index = 0 /\ len = HeaderSize + 1 /\ sizeFound = 0
           /\ got = Total(msg)
           /\ base = "header" \/ forStreaming
        \/ /\ index \in 1..HeaderSize /\ len = HeaderSize + 1 /\ sizeFound = 0
           /\ index = got /\ got < Total(msg)
           /\ base = "header" \/ forStreaming
        \/ /\ index = HeaderSize + 1 /\ len = HeaderSize + 1
           /\ index = got /\ HeaderAccepted /\ sizeFound = msg.size
        \/ /\ index > HeaderSize /\ len = HeaderSize + msg.size /\ sizeFound = 0
           /\ index = got /\ index < len /\ HeaderAccepted
           /\ base = "allocated"

\* The type invariant, in two parts.
Flags ==
    /\ streaming \in BOOLEAN /\ forStreaming \in BOOLEAN /\ processing \in BOOLEAN
    /\ deferred \in BOOLEAN /\ memoryError \in BOOLEAN /\ marked \in BOOLEAN
    /\ reading \in BOOLEAN /\ responses \in BOOLEAN /\ shutdown \in BOOLEAN

Values ==
    /\ base \in {"header", "allocated"}
    /\ capacity \in Nat /\ len \in Nat /\ index \in Nat /\ sizeFound \in Nat
    /\ version \in AnyVersion
    /\ work \in {"none", "queued", "running", "done"}
    /\ life \in {"open", "disconnecting", "closing", "closed"}
    /\ memory \in Int /\ buffers \in Int
    /\ loop \in {"idle", "read"}
    /\ offered \in Nat
    /\ msg \in Messages /\ got \in Nat /\ sent \in 0..MaxMessages

\* The counters are what is allocated.
CountersInv ==
    /\ memory = (IF life = "closed" THEN 0 ELSE ClientSize) + capacity
    /\ buffers = IF base = "allocated" THEN 1 ELSE 0
    /\ base = "header" => capacity = 0

StateInv ==
    /\ Values /\ CountersInv /\ RequestStaysWhole
    /\ OfferInv /\ AllocationInv /\ SizeFoundInv /\ LifeInv /\ ReceiveInv

BufferInv == Flags /\ StateInv

-------------------------------------------------------------------------------
(* It is inductive                                                           *)

LEMMA Constants ==
    /\ HeaderSize \in Nat /\ HeaderSize # 0 /\ LargestSize \in Nat /\ ClientSize \in Nat
    /\ MaxMessages \in Nat
    /\ Peer \in Versions /\ NoVersion \notin Versions /\ NoVersion \notin OtherVersions
    /\ \A v \in Versions : MaxRequestSize[v] \in Nat /\ MaxRequestSize[v] # 0
BY RequestBufferAssumption

USE Constants
    DEF Total, AnyVersion, bufferVars, requestVars,
        clientVars, statVars, streamVars

LEMMA MessageType ==
    ASSUME NEW m \in Messages
    PROVE  /\ m.preamble \in BOOLEAN /\ m.version \in AnyVersion /\ m.size \in Nat
           /\ Total(m) \in Nat /\ Total(m) > HeaderSize
           /\ m.size > 0 => Total(m) = HeaderSize + m.size
BY DEF Messages

LEMMA InitInv == Init => BufferInv
<1> SUFFICES ASSUME Init PROVE BufferInv
  OBVIOUS
<1>1. NoMessage \in Messages /\ NoMessage.size = 0
  BY DEF NoMessage, Messages
<1>2. msg \in Messages /\ got = HeaderSize + 1
  BY <1>1 DEF Init
<1>3. Flags
  BY DEF Init, Flags
<1>4. StateInv
  BY <1>2 DEF Init, StateInv, Values, CountersInv, RequestStaysWhole,
            OfferInv, AllocationInv, SizeFoundInv, LifeInv, ReceiveInv
<1> QED
  BY <1>3, <1>4 DEF BufferInv

\* DisconnectAndDelete, by values.
Disconnects ==
    /\ marked' \in BOOLEAN /\ reading' \in BOOLEAN
    /\ IF life = "open"
       THEN /\ marked' /\ ~reading'
            /\ life' = "open" \/ (life' = "disconnecting" /\ ~processing')
       ELSE (marked' <=> marked) /\ (reading' <=> reading) /\ life' = life

LEMMA DisconnectEffect ==
    ASSUME Flags, DisconnectAndDelete PROVE Disconnects
BY DEF Flags, DisconnectAndDelete, Removable, Disconnects

\* The type of the Booleans is kept by every step.
LEMMA FlagsInv == Flags /\ Next => Flags'
<1> SUFFICES ASSUME Flags, Next PROVE Flags'
  OBVIOUS
<1> USE DEF Flags
<1>1. CASE Alloc
  BY <1>1, DisconnectEffect
  DEF Alloc, AllocBuffer, AllocNewBuffer, AllocNewBufferFails, AllocStreamingBuffer, Offer,
      Disconnects
<1>2. CASE Read \/ ReadError
  <2>1. CASE ReadNothing
    BY <2>1 DEF ReadNothing
  <2>2. CASE ReadError
    BY <2>2, DisconnectEffect DEF ReadError, Disconnects
  <2>3. ASSUME NEW n \in 1..offered, NEW m \in Messages,
               \/ ReadIgnored(n, m) \/ ReadPart(n, m) \/ ReadInvalidHeader(n, m)
               \/ ReadRequest(n, m) \/ ReadRequestFails(n, m)
        PROVE  Flags'
    <3>1. Receive(n, m)
      BY <2>3 DEF ReadIgnored, ReadPart, ReadInvalidHeader, ReadRequest, ReadRequestFails,
                  ReadAndParse
    <3>2. UNCHANGED clientVars \/ DisconnectAndDelete
      BY <2>3 DEF ReadIgnored, ReadPart, ReadInvalidHeader, ReadRequest, ReadRequestFails
    <3>3. processing' \in BOOLEAN /\ deferred' \in BOOLEAN /\ memoryError' \in BOOLEAN
      BY <2>3 DEF ReadIgnored, ReadPart, ReadInvalidHeader, ReadRequest, ReadRequestFails
    <3> QED
      BY <3>1, <3>2, <3>3, DisconnectEffect DEF Receive, Disconnects
  <2> QED
    BY <1>2, <2>1, <2>2, <2>3 DEF Read, ReadBytes
<1>3. CASE Thread
  <2>1. CASE StartProcessing
    BY <2>1 DEF StartProcessing, threadUnchanged
  <2>2. ASSUME NEW mode \in BOOLEAN, SetStreamingMode(mode) PROVE Flags'
    BY <2>2 DEF SetStreamingMode, threadUnchanged
  <2>3. CASE AddResponse
    BY <2>3 DEF AddResponse, threadUnchanged
  <2>4. ASSUME NEW defer \in BOOLEAN, NEW throw \in BOOLEAN, FinishProcessing(defer, throw) PROVE Flags'
    BY <2>4 DEF FinishProcessing, threadUnchanged
  <2> QED
    BY <1>3, <2>1, <2>2, <2>3, <2>4 DEF Thread
<1>4. CASE AfterRequestProcessing
  BY <1>4, DisconnectEffect
  DEF AfterRequestProcessing, ResetRequestBuffer, afterUnchanged, Disconnects
<1>5. CASE AfterDeferredRequest
  BY <1>5 DEF AfterDeferredRequest, MarkedAfterwards, afterUnchanged
<1>6. ASSUME NEW failed \in BOOLEAN, NEW more \in BOOLEAN, ResponsesSent(failed, more) PROVE Flags'
  BY <1>6, DisconnectEffect DEF ResponsesSent, endUnchanged, Disconnects
<1>7. CASE InitiateShutdown
  BY <1>7, DisconnectEffect DEF InitiateShutdown, endUnchanged, Disconnects
<1>8. CASE AfterDisconnection
  BY <1>8 DEF AfterDisconnection, endUnchanged
<1>9. CASE OnClientClosed
  BY <1>9 DEF OnClientClosed, endUnchanged
<1> QED
  BY <1>1, <1>2, <1>3, <1>4, <1>5, <1>6, <1>7, <1>8, <1>9 DEF Next

\* alloc_buffer
LEMMA AllocInv == BufferInv /\ Alloc => StateInv'
<1> SUFFICES ASSUME BufferInv, Alloc PROVE StateInv'
  OBVIOUS
<1> USE DEF BufferInv, StateInv, Values, CountersInv, RequestStaysWhole,
            OfferInv, AllocationInv, SizeFoundInv, LifeInv, ReceiveInv, HeaderAccepted
<1>1. CASE AllocBuffer
  BY <1>1 DEF AllocBuffer, AskForBuffer, NeedsRoom, Offer
<1>2. CASE AllocNewBuffer
  BY <1>2 DEF AllocNewBuffer, AskForBuffer, NeedsRoom, Offer, ExtendToRequest, MemoryToAllocate
<1>3. CASE AllocNewBufferFails
  BY <1>3, DisconnectEffect DEF AllocNewBufferFails, AskForBuffer, NeedsRoom, Offer, Disconnects
<1>4. CASE AllocStreamingBuffer
  BY <1>4 DEF AllocStreamingBuffer, AskForBuffer, NeedsRoom, Offer, ExtendToRequest
<1> QED
  BY <1>1, <1>2, <1>3, <1>4 DEF Alloc

\* The thread of the request.
LEMMA ThreadInv == BufferInv /\ Thread => StateInv'
<1> SUFFICES ASSUME BufferInv, Thread PROVE StateInv'
  OBVIOUS
<1> USE DEF BufferInv, StateInv, Values, CountersInv, RequestStaysWhole, threadUnchanged,
            OfferInv, AllocationInv, SizeFoundInv, LifeInv, ReceiveInv, HeaderAccepted
<1>1. CASE StartProcessing
  BY <1>1 DEF StartProcessing
<1>2. ASSUME NEW mode \in BOOLEAN, SetStreamingMode(mode) PROVE StateInv'
  BY <1>2 DEF SetStreamingMode
<1>3. CASE AddResponse
  BY <1>3 DEF AddResponse
<1>4. ASSUME NEW defer \in BOOLEAN, NEW throw \in BOOLEAN, FinishProcessing(defer, throw)
      PROVE  StateInv'
  BY <1>4 DEF FinishProcessing
<1> QED
  BY <1>1, <1>2, <1>3, <1>4 DEF Thread

\* The callbacks at the end of a request, of a batch of responses and of the client.
LEMMA EndInv ==
    ASSUME BufferInv,
           \/ AfterRequestProcessing \/ AfterDeferredRequest
           \/ \E failed, more \in BOOLEAN : ResponsesSent(failed, more)
           \/ InitiateShutdown \/ AfterDisconnection \/ OnClientClosed
    PROVE  StateInv'
<1> USE DEF BufferInv, StateInv, Values, CountersInv, RequestStaysWhole, endUnchanged,
            afterUnchanged,
            OfferInv, AllocationInv, SizeFoundInv, LifeInv, ReceiveInv, HeaderAccepted
<1>1. CASE AfterRequestProcessing
  <2>1. Disconnects \/ UNCHANGED clientVars
    BY <1>1, DisconnectEffect DEF AfterRequestProcessing
  <2> QED
    BY <1>1, <2>1
    DEF AfterRequestProcessing, ResetRequestBuffer, ReleasesBuffer, MemoryOfBuffer, Disconnects
<1>2. CASE AfterDeferredRequest
  BY <1>2 DEF AfterDeferredRequest, MarkedAfterwards
<1>3. ASSUME NEW failed \in BOOLEAN, NEW more \in BOOLEAN, ResponsesSent(failed, more)
      PROVE  StateInv'
  BY <1>3, DisconnectEffect DEF ResponsesSent, Disconnects
<1>4. CASE InitiateShutdown
  BY <1>4, DisconnectEffect DEF InitiateShutdown, Disconnects
<1>5. CASE AfterDisconnection
  BY <1>5 DEF AfterDisconnection
<1>6. CASE OnClientClosed
  BY <1>6 DEF OnClientClosed, MemoryOfBuffer
<1> QED
  BY <1>1, <1>2, <1>3, <1>4, <1>5, <1>6

\* on_read
LEMMA ReadInv ==
    ASSUME "peer_request" \notin OutOfMemory, BufferInv, Read \/ ReadError
    PROVE  StateInv'
<1> USE DEF BufferInv, StateInv, Values, CountersInv, RequestStaysWhole,
            OfferInv, AllocationInv, SizeFoundInv, LifeInv, ReceiveInv, HeaderAccepted
<1>1. CASE ReadNothing
  BY <1>1 DEF ReadNothing
<1>2. CASE ReadError
  BY <1>2, DisconnectEffect DEF ReadError, Disconnects
<1>3. ASSUME NEW n \in 1..offered, NEW m \in Messages, ReadIgnored(n, m) PROVE StateInv'
  BY <1>3 DEF ReadIgnored, Receive
<1>4. ASSUME NEW n \in 1..offered, NEW m \in Messages, ReadPart(n, m) PROVE StateInv'
  BY <1>4, MessageType
  DEF ReadPart, Found, Receive, ReadAndParse, Parsed, SetVersion, ValidVersion, HasParameters,
      ValidSize
<1>5. ASSUME NEW n \in 1..offered, NEW m \in Messages, ReadInvalidHeader(n, m)
      PROVE  StateInv'
  <2>1. /\ Receive(n, m) /\ ~marked /\ SetVersion(index + n, m)
        /\ index' = 0 /\ sizeFound' = sizeFound /\ UNCHANGED requestVars
    BY <1>5 DEF ReadInvalidHeader, ReadAndParse
  <2>2. Disconnects
    BY <1>5, DisconnectEffect DEF ReadInvalidHeader
  <2> QED
    BY <2>1, <2>2, MessageType DEF Receive, SetVersion, ValidVersion, Disconnects
<1>6. ASSUME NEW n \in 1..offered, NEW m \in Messages, ReadRequest(n, m) PROVE StateInv'
  <2>1. /\ Receive(n, m) /\ ~shutdown /\ ~marked
        /\ index' = index + n /\ work' = "queued" /\ sizeFound' = sizeFound
        /\ UNCHANGED clientVars
    BY <1>6 DEF ReadRequest, ReadAndParse
  <2>2. /\ m.size > 0 /\ m.version \in Versions /\ m.size + HeaderSize <= index + n
        /\ version \in {NoVersion, m.version} /\ version' = m.version
    BY <1>6, MessageType
    DEF ReadRequest, ReadAndParse, Parsed, SetVersion, ValidVersion, HasParameters, ValidSize
  <2>3. processing'
    BY <1>6 DEF ReadRequest
  <2>4. ~processing /\ n <= len - index
    BY <2>1 DEF Receive
  <2>5. got' = Total(m) /\ index' = got' /\ len - index' = 0 /\ sizeFound = 0
    BY <2>1, <2>2, <2>4, MessageType DEF Receive
  <2> QED
    BY <2>1, <2>2, <2>3, <2>5, MessageType DEF Receive
<1>7. ASSUME NEW n \in 1..offered, NEW m \in Messages, ReadRequestFails(n, m)
      PROVE  StateInv'
  BY <1>7, DisconnectEffect
  DEF ReadRequestFails, Disconnects, Receive, ReadAndParse, Parsed, SetVersion, ValidVersion,
      HasParameters, ValidSize
<1> QED
  BY <1>1, <1>2, <1>3, <1>4, <1>5, <1>6, <1>7 DEF Read, ReadBytes

-------------------------------------------------------------------------------
(* What follows from it                                                      *)

\* The state of the buffer, of its counters and of the message being received agree.
THEOREM BufferInvariant ==
    ASSUME "peer_request" \notin OutOfMemory PROVE Spec => []BufferInv
<1>1. BufferInv /\ [Next]_vars => BufferInv'
  <2> SUFFICES ASSUME BufferInv, [Next]_vars PROVE BufferInv'
    OBVIOUS
  <2>1. CASE Next
    <3>1. Flags'
      BY <2>1, FlagsInv DEF BufferInv
    <3>2. StateInv'
      BY <2>1, AllocInv, ReadInv, ThreadInv, EndInv DEF Next
    <3> QED
      BY <3>1, <3>2 DEF BufferInv
  <2>2. CASE UNCHANGED vars
    BY <2>2
    DEF vars, BufferInv, StateInv, Flags, Values, CountersInv, RequestStaysWhole, OfferInv,
        AllocationInv, SizeFoundInv, LifeInv, ReceiveInv, HeaderAccepted
  <2> QED
    BY <2>1, <2>2
<1> QED
  BY InitInv, <1>1, PTL DEF Spec

\* MemoryConsumptionByClients and ActiveClientRequestBuffers are what is allocated for the
\* client, whichever way its buffer was sized and released.
THEOREM MemoryCorrect ==
    ASSUME "peer_request" \notin OutOfMemory PROVE Spec => []MemoryAccounted
<1>1. BufferInv => MemoryAccounted
  BY DEF BufferInv, StateInv, Flags, Values, CountersInv, MemoryAccounted, BufferTypeOK
<1> QED
  BY BufferInvariant, <1>1, PTL

\* While a thread processes a request in place, nothing is offered to libuv and the whole
\* request stays in the buffer.
THEOREM WholeCorrect ==
    ASSUME "peer_request" \notin OutOfMemory PROVE Spec => []RequestStaysWhole
<1>1. BufferInv => RequestStaysWhole
  BY DEF BufferInv, StateInv
<1> QED
  BY BufferInvariant, <1>1, PTL

\* libuv is never offered bytes behind the end of what was allocated.
THEOREM WithinCorrect ==
    ASSUME "peer_request" \notin OutOfMemory PROVE Spec => []ReadsWithinAllocation
<1>1. BufferInv => ReadsWithinAllocation
  BY DEF BufferInv, StateInv, Values, OfferInv, AllocationInv, ReadsWithinAllocation
<1> QED
  BY BufferInvariant, <1>1, PTL

\* What is offered ends where the message being received ends.
THEOREM OneRequestCorrect ==
    ASSUME "peer_request" \notin OutOfMemory PROVE Spec => []ReadsOneRequest
<1>1. BufferInv => ReadsOneRequest
  <2> SUFFICES ASSUME BufferInv, ~shutdown, ~marked
               PROVE  /\ index \in {0, got}
                      /\ index = 0 => got = Total(msg) /\ offered <= HeaderSize + 1
                      /\ index > 0 => got + offered <= Total(msg)
    BY DEF ReadsOneRequest
  <2>1. CASE processing
    BY <2>1, MessageType DEF BufferInv, StateInv, Values, RequestStaysWhole
  <2>2. CASE ~processing
    BY <2>2, MessageType DEF BufferInv, StateInv, Values, OfferInv, ReceiveInv, HeaderAccepted
  <2> QED
    BY <2>1, <2>2
<1> QED
  BY BufferInvariant, <1>1, PTL

\* The ASSERTs about a client that waits for more bytes hold.
THEOREM AssertionsCorrect ==
    ASSUME "peer_request" \notin OutOfMemory PROVE Spec => []WaitingAssertions
<1>1. BufferInv => WaitingAssertions
  BY MessageType
  DEF BufferInv, StateInv, Flags, Values, AllocationInv, SizeFoundInv, LifeInv, ReceiveInv,
      HeaderAccepted, WaitingAssertions, NeedsRoom
<1> QED
  BY BufferInvariant, <1>1, PTL
===============================================================================
