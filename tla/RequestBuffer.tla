------------------------------ MODULE RequestBuffer ------------------------------
(***************************************************************************)
(* The request buffer of one client: how libuv's alloc and read callbacks  *)
(* fill it, how the parser finds a request in it, and when it is released. *)
(*                                                                         *)
(* A new client reads into m_Header, which is HeaderSize + 1 bytes long.   *)
(* When those bytes hold the header of a longer request, the next          *)
(* alloc_buffer allocates room for it; in streaming mode the allocation is *)
(* of the largest size the version allows and is kept from one request to  *)
(* the next.  A request is processed in place, so nothing may be read into *)
(* the buffer before after_request_processing_thread has reset it.         *)
(*                                                                         *)
(* The bytes are not modelled, only how many there are and where messages  *)
(* begin: msg is the header of the message being received and got the      *)
(* number of its bytes that were read.  How responses are sent is the      *)
(* subject of ResponseQueues; here the client has some or has none.  On    *)
(* Windows libuv calls on_read before the callback that asked for the      *)
(* buffer returns, so no other handler of the event loop runs between the  *)
(* two; but it may have found nothing to read, and then others may run     *)
(* between the allocation of a buffer and the first byte read into it.     *)
(***************************************************************************)
EXTENDS Integers

CONSTANTS
    HeaderSize,      \* HEADER_SIZE
    Versions,        \* versions with a request processor
    Peer,            \* SPECIAL_COMMUNICATION, the version of the peer servers
    NoVersion,       \* UNINITIALIZED_VERSION
    OtherVersions,   \* versions nobody has a processor for
    MaxRequestSize,  \* m_MaxRequestSize of every version
    LargestSize,     \* bound: the largest size written into a header
    ClientSize,      \* sizeof(stClient) and what it reserves for responses
    MaxMessages,     \* bound: messages the client sends
    OutOfMemory      \* where std::bad_alloc may be thrown: for the "buffer", the "request",
                     \* the "peer_request", in the "thread", making the "list" at a shutdown

ASSUME RequestBufferAssumption ==
    /\ HeaderSize \in Nat \ {0}
    /\ Peer \in Versions
    /\ NoVersion \notin Versions \cup OtherVersions
    /\ Versions \cap OtherVersions = {}
    /\ MaxRequestSize \in [Versions -> Nat \ {0}]
    /\ LargestSize \in Nat
    /\ ClientSize \in Nat
    /\ MaxMessages \in Nat
    /\ OutOfMemory \subseteq {"buffer", "request", "peer_request", "thread", "list"}

VARIABLES
    base,         \* m_Request.base: m_Header ("header") or "allocated"
    capacity,     \* how many bytes were allocated
    len,          \* m_Request.len
    index,        \* m_Request_Index
    sizeFound,    \* m_RequestSizeFound
    streaming,    \* m_bStreaming
    forStreaming, \* m_bRequestMemoryAllocatedForStreaming
    version,      \* m_Version
    processing,   \* m_bRequestIsBeingProcessed (and not m_bRequestProcessingFinished)
    work,         \* the request in libuv's pool: "none", "queued", "running" or "done"
    deferred,     \* Request::IsDeferred
    memoryError,  \* Request::GetMemoryAllocationExceptionFlag
    marked,       \* m_bToBeDisconnected
    reading,      \* m_bIsReadStarted
    responses,    \* are responses pending for the client?
    life,         \* "open", "disconnecting", "closing" or "closed"
    shutdown,     \* IsShutdownInitiated
    memory,       \* MemoryConsumptionByClients
    buffers,      \* ActiveClientRequestBuffers
    loop,         \* "idle", or "read" between alloc_buffer and on_read
    offered,      \* buffer->len returned by alloc_buffer
    msg,          \* the message being received
    got,          \* how many bytes of it were read
    sent          \* how many messages the client began to send

bufferVars  == <<base, capacity, len, index, sizeFound, forStreaming>>
requestVars == <<processing, work, deferred, memoryError>>
clientVars  == <<marked, reading, life>>
statVars    == <<memory, buffers>>
streamVars  == <<msg, got, sent>>
vars == <<bufferVars, requestVars, clientVars, statVars, streamVars,
          streaming, version, responses, shutdown, loop, offered>>

AnyVersion == Versions \cup OtherVersions \cup {NoVersion}
Messages == [preamble : BOOLEAN, version : AnyVersion, size : 0..LargestSize]

\* Every variable has the type of the field it models.
BufferTypeOK ==
    /\ base \in {"header", "allocated"}
    /\ capacity \in Nat /\ len \in Nat /\ index \in Nat /\ sizeFound \in Nat
    /\ streaming \in BOOLEAN /\ forStreaming \in BOOLEAN
    /\ version \in AnyVersion
    /\ processing \in BOOLEAN
    /\ work \in {"none", "queued", "running", "done"}
    /\ deferred \in BOOLEAN /\ memoryError \in BOOLEAN
    /\ marked \in BOOLEAN /\ reading \in BOOLEAN /\ responses \in BOOLEAN
    /\ life \in {"open", "disconnecting", "closing", "closed"}
    /\ shutdown \in BOOLEAN
    /\ memory \in Int /\ buffers \in Int
    /\ loop \in {"idle", "read"}
    /\ offered \in Nat
    /\ msg \in Messages /\ got \in Nat /\ sent \in 0..MaxMessages

\* The bytes of a message on the wire.  The parser wants one byte behind the header even
\* where the size is zero.
Total(m) == HeaderSize + IF m.size = 0 THEN 1 ELSE m.size

NoMessage == [preamble |-> FALSE, version |-> NoVersion, size |-> 0]

\* The constructor of stClient; the client is accepted, read and in the pool.
Init ==
    /\ base = "header" /\ capacity = 0
    /\ len = HeaderSize + 1 /\ index = 0 /\ sizeFound = 0
    /\ streaming = FALSE /\ forStreaming = FALSE
    /\ version = NoVersion
    /\ processing = FALSE /\ work = "none" /\ deferred = FALSE /\ memoryError = FALSE
    /\ marked = FALSE /\ reading = TRUE /\ responses = FALSE /\ life = "open"
    /\ shutdown = FALSE
    /\ memory = ClientSize /\ buffers = 0
    /\ loop = "idle" /\ offered = 0
    /\ msg = NoMessage /\ got = Total(NoMessage) /\ sent = 0

-------------------------------------------------------------------------------
(* Disconnection                                                             *)

\* DisconnectAndDelete goes on to RemoveClient.
Removable == ~processing' /\ ~responses'

\* DisconnectAndDelete marks the client, stops reading and, when nothing is pending,
\* queues the disconnection.
DisconnectAndDelete ==
    IF life = "open"
    THEN /\ marked' = TRUE
         /\ reading' = FALSE
         /\ life' = IF Removable THEN "disconnecting" ELSE "open"
    ELSE UNCHANGED clientVars

-------------------------------------------------------------------------------
(* alloc_buffer                                                              *)

\* GetRequestBuffer: how much is allocated.
MemoryToAllocate ==
    HeaderSize + IF streaming THEN MaxRequestSize[version] ELSE sizeFound

\* A header was validated and its request needs more bytes than are left.
NeedsRoom == len - index = 0 /\ sizeFound > 0

\* Mutant: the size found is kept for the next request.
ExtendAndKeepSize == len' = sizeFound + HeaderSize /\ UNCHANGED sizeFound

\* The buffer becomes as long as the request whose header was read.
ExtendToRequest == len' = sizeFound + HeaderSize /\ sizeFound' = 0

Offer ==
    /\ offered' = len' - index
    /\ loop' = "read"
    /\ UNCHANGED <<requestVars, streamVars, streaming, version, responses, shutdown, index>>

AskForBuffer == loop = "idle" /\ reading

\* GetRequestBuffer offers what is left of the buffer, which may be nothing.
AllocBuffer ==
    /\ AskForBuffer
    /\ ~NeedsRoom
    /\ UNCHANGED <<base, capacity, len, sizeFound, forStreaming, clientVars, statVars>>
    /\ Offer

\* GetRequestBuffer leaves m_Header for a new buffer.
AllocNewBuffer ==
    /\ AskForBuffer
    /\ NeedsRoom
    /\ base = "header"
    /\ base' = "allocated"
    /\ capacity' = MemoryToAllocate
    /\ memory' = memory + MemoryToAllocate
    /\ buffers' = buffers + 1
    /\ forStreaming' = streaming
    /\ ExtendToRequest
    /\ UNCHANGED clientVars
    /\ Offer

\* The allocation throws: the client is disconnected and nothing offered.
AllocNewBufferFails ==
    /\ AskForBuffer
    /\ NeedsRoom
    /\ base = "header"
    /\ "buffer" \in OutOfMemory
    /\ len' = HeaderSize + 1
    /\ UNCHANGED <<base, capacity, sizeFound, forStreaming, statVars>>
    /\ Offer
    /\ DisconnectAndDelete

\* GetRequestBuffer uses the streaming buffer again.
AllocStreamingBuffer ==
    /\ AskForBuffer
    /\ NeedsRoom
    /\ base = "allocated"
    /\ ExtendToRequest
    /\ UNCHANGED <<base, capacity, forStreaming, clientVars, statVars>>
    /\ Offer

-------------------------------------------------------------------------------
(* on_read                                                                   *)

\* GetVersionParameters finds a request processor.
HasParameters(v) == v \in Versions

\* Mutant: the limit is off by one.
ValidSizeOrOneMore(m) == m.size > 0 /\ m.size <= MaxRequestSize[m.version] + 1

\* The version's processor takes requests of that size.
ValidSize(m) == m.size > 0 /\ m.size <= MaxRequestSize[m.version]

\* The version may be given by the header: the first one, or the one the client has.
ValidVersion(m) == m.version # NoVersion /\ version \in {NoVersion, m.version}

\* ValidateProtocolAndExtractRequest on a buffer of n bytes that begins with header m.
Parsed(n, m) ==
    IF n < HeaderSize + 1 THEN "WAIT_FOR_MORE_BYTES"
    ELSE IF ~m.preamble THEN "INVALID_HEADER"
    ELSE IF ~ValidVersion(m) THEN "INVALID_VERSION"
    ELSE IF m.size = 0 THEN "INVALID_SIZE"
    ELSE IF ~HasParameters(m.version) THEN "INVALID_VERSION"
    ELSE IF ~ValidSize(m) THEN "INVALID_SIZE"
    ELSE IF m.size + HeaderSize > n THEN "WAIT_FOR_MORE_BYTES"
    ELSE "REQUEST_FOUND"

\* ExistingVersion is set as soon as the version field is accepted.
SetVersion(n, m) ==
    version' = IF n >= HeaderSize + 1 /\ m.preamble /\ ValidVersion(m)
               THEN m.version ELSE version

\* The socket delivers n bytes of message m, the current one or, at its end, the next.
\* They are capped at the end of the message: ReadsOneRequest says that the code does so.
Receive(n, m) ==
    /\ loop = "read" /\ loop' = "idle"
    /\ offered' = 0
    /\ IF got = Total(msg)
       THEN sent < MaxMessages /\ sent' = sent + 1 /\ got' = n
       ELSE m = msg /\ sent' = sent /\ got' = got + n
    /\ n \in 1..offered
    /\ got' <= Total(m)
    /\ msg' = m
    /\ UNCHANGED <<base, capacity, len, forStreaming, statVars, streaming, shutdown, responses>>

\* on_read with UV_ENOBUFS, or with no bytes when recv would block.
ReadNothing ==
    /\ loop = "read" /\ loop' = "idle"
    /\ offered' = 0
    /\ UNCHANGED <<bufferVars, requestVars, clientVars, statVars, streamVars, streaming,
                   version, responses, shutdown>>

\* on_read with an error, such as the end of the stream: of recv, or of the zero-byte read
\* libuv waits with, for which no buffer is asked.
ReadError ==
    /\ reading
    /\ loop = "read" => offered > 0
    /\ loop' = "idle" /\ offered' = 0
    /\ UNCHANGED <<bufferVars, requestVars, statVars, streamVars, streaming, version,
                   responses, shutdown>>
    /\ DisconnectAndDelete

\* on_read ignores the bytes of a client that is to be disconnected.  Neither condition
\* ever ends, so m_bRejectedPreviousRequestBytes has no effect.
ReadIgnored(n, m) ==
    /\ Receive(n, m)
    /\ shutdown \/ marked
    /\ index' = 0
    /\ UNCHANGED <<sizeFound, version, requestVars, clientVars>>

ReadAndParse(n, m, result) ==
    /\ Receive(n, m)
    /\ ~shutdown /\ ~marked
    /\ Parsed(index + n, m) = result
    /\ SetVersion(index + n, m)

\* Mutant: the size is not stored where the buffer is kept for streaming.
FoundUnlessStreaming(i, m) ==
    IF i = HeaderSize + 1 /\ base = "header" THEN m.size ELSE sizeFound

\* Mutant: the byte behind the header is counted twice.
FoundWithExtraByte(i, m) == IF i = HeaderSize + 1 THEN m.size + 1 ELSE sizeFound

\* The size is stored when the first HeaderSize + 1 bytes are complete.
Found(i, m) == IF i = HeaderSize + 1 THEN m.size ELSE sizeFound

\* ExtractRequestOffTheBuffer, WAIT_FOR_MORE_BYTES.
ReadPart(n, m) ==
    /\ ReadAndParse(n, m, "WAIT_FOR_MORE_BYTES")
    /\ index' = index + n
    /\ sizeFound' = Found(index + n, m)
    /\ UNCHANGED <<requestVars, clientVars>>

\* ExtractRequestOffTheBuffer and ProcessHeaderError.
ReadInvalidHeader(n, m) ==
    /\ \E result \in {"INVALID_HEADER", "INVALID_VERSION", "INVALID_SIZE"} :
          ReadAndParse(n, m, result)
    /\ index' = 0
    /\ UNCHANGED <<sizeFound, requestVars>>
    /\ DisconnectAndDelete

\* CreateRequestAndQueue gives the request in the buffer to a thread.
ReadRequest(n, m) ==
    /\ ReadAndParse(n, m, "REQUEST_FOUND")
    /\ index' = index + n
    /\ processing' = TRUE
    /\ work' = "queued"
    /\ UNCHANGED <<sizeFound, deferred, memoryError, clientVars>>

\* CreateRequestAndQueue: new Request throws.  A peer server stays connected.
ReadRequestFails(n, m) ==
    /\ ReadAndParse(n, m, "REQUEST_FOUND")
    /\ (IF m.version = Peer THEN "peer_request" ELSE "request") \in OutOfMemory
    /\ index' = 0
    /\ UNCHANGED <<sizeFound, requestVars>>
    /\ IF m.version = Peer THEN UNCHANGED clientVars ELSE DisconnectAndDelete

-------------------------------------------------------------------------------
(* The thread that processes the request                                     *)

threadUnchanged == <<bufferVars, clientVars, statVars, streamVars, version, shutdown,
                     loop, offered, processing>>

\* request_processing_thread calls ProcessRequest unless a shutdown has begun.
StartProcessing ==
    /\ work = "queued"
    /\ work' = IF shutdown THEN "done" ELSE "running"
    /\ UNCHANGED <<threadUnchanged, deferred, memoryError, streaming, responses>>

\* The application calls SetStreamingMode.
SetStreamingMode(mode) ==
    /\ work = "running"
    /\ streaming' = mode
    /\ UNCHANGED <<threadUnchanged, work, deferred, memoryError, responses>>

\* The application answers the client.
AddResponse ==
    /\ work = "running" /\ ~marked
    /\ responses' = TRUE
    /\ UNCHANGED <<threadUnchanged, work, deferred, memoryError, streaming>>

\* ProcessRequest returns, perhaps after DeferProcessing, or throws.
FinishProcessing(defer, throw) ==
    /\ work = "running"
    /\ throw => "thread" \in OutOfMemory
    /\ work' = "done"
    /\ deferred' = defer
    /\ memoryError' = (memoryError \/ throw)
    /\ UNCHANGED <<threadUnchanged, streaming, responses>>

-------------------------------------------------------------------------------
(* after_request_processing_thread                                           *)

\* Mutant: the size of the request is taken off the counter whatever was allocated.
LenOfBuffer == len

\* What ResetRequestBuffer and on_client_closed take off the counter.
MemoryOfBuffer == IF forStreaming THEN MaxRequestSize[version] + HeaderSize ELSE len

\* Mutant: a streaming buffer is kept when streaming has been switched off.
KeepsForStreaming == base = "allocated" /\ ~forStreaming

\* ResetRequestBuffer gives the buffer back unless it was, and still is, for streaming.
ReleasesBuffer == base = "allocated" /\ (~streaming \/ ~forStreaming)

\* The buffer is given back or kept; the next request begins at its first byte.
ResetRequestBuffer ==
    /\ IF ReleasesBuffer
       THEN /\ base' = "header"
            /\ capacity' = 0
            /\ forStreaming' = FALSE
            /\ memory' = memory - MemoryOfBuffer
            /\ buffers' = buffers - 1
       ELSE UNCHANGED <<base, capacity, forStreaming, statVars>>
    /\ len' = HeaderSize + 1
    /\ index' = 0
    /\ UNCHANGED sizeFound

afterUnchanged == <<streamVars, streaming, version, responses, shutdown, loop, offered>>

\* std::bad_alloc in the thread marks a client that is no peer server.
MarkedAfterwards == marked \/ (memoryError /\ version # Peer)

\* The request is finished: reset the buffer, take more requests or disconnect.
AfterRequestProcessing ==
    /\ loop = "idle" /\ work = "done"
    /\ ~deferred
    /\ ResetRequestBuffer
    /\ processing' = FALSE
    /\ work' = "none"
    /\ deferred' = FALSE /\ memoryError' = FALSE
    /\ UNCHANGED afterUnchanged
    /\ IF MarkedAfterwards THEN DisconnectAndDelete ELSE UNCHANGED clientVars

\* The request is deferred: queue it again.
AfterDeferredRequest ==
    /\ loop = "idle" /\ work = "done"
    /\ deferred
    /\ deferred' = FALSE
    /\ work' = "queued"
    /\ marked' = MarkedAfterwards
    /\ UNCHANGED <<afterUnchanged, bufferVars, statVars, processing, memoryError, reading, life>>

-------------------------------------------------------------------------------
(* The end of the client                                                     *)

endUnchanged == <<streamVars, streaming, version, requestVars, loop, offered>>

\* A batch of responses is over, and more are pending or not.  A FATAL_ERROR among them or a
\* write that failed marks the client; it goes on being read until the last response is gone.
ResponsesSent(failed, more) ==
    /\ loop = "idle" /\ responses
    /\ responses' = more
    /\ UNCHANGED <<endUnchanged, bufferVars, statVars, shutdown>>
    /\ IF ~more /\ (marked \/ failed)
       THEN DisconnectAndDelete
       ELSE marked' = (marked \/ failed) /\ UNCHANGED <<reading, life>>

\* InitiateServerShutdown disconnects every client, or, out of memory for the list, none.
InitiateShutdown ==
    /\ loop = "idle" /\ ~shutdown
    /\ shutdown' = TRUE
    /\ UNCHANGED <<endUnchanged, bufferVars, statVars, responses>>
    /\ DisconnectAndDelete \/ ("list" \in OutOfMemory /\ UNCHANGED clientVars)

\* after_disconnection_processing_thread closes the handle.
AfterDisconnection ==
    /\ loop = "idle" /\ life = "disconnecting"
    /\ life' = "closing"
    /\ UNCHANGED <<endUnchanged, bufferVars, statVars, marked, reading, responses, shutdown>>

\* on_client_closed deletes the client and its buffer.
OnClientClosed ==
    /\ loop = "idle" /\ life = "closing"
    /\ life' = "closed"
    /\ IF base = "allocated"
       THEN memory' = memory - ClientSize - MemoryOfBuffer /\ buffers' = buffers - 1
       ELSE memory' = memory - ClientSize /\ UNCHANGED buffers
    /\ base' = "header" /\ capacity' = 0 /\ len' = 0 /\ index' = 0
    /\ sizeFound' = 0 /\ forStreaming' = FALSE
    /\ UNCHANGED <<endUnchanged, marked, reading, responses, shutdown>>

-------------------------------------------------------------------------------
Alloc == AllocBuffer \/ AllocNewBuffer \/ AllocNewBufferFails \/ AllocStreamingBuffer

ReadBytes ==
    \E n \in 1..offered, m \in Messages :
        \/ ReadIgnored(n, m) \/ ReadPart(n, m) \/ ReadInvalidHeader(n, m)
        \/ ReadRequest(n, m) \/ ReadRequestFails(n, m)

Read == ReadNothing \/ ReadBytes

Thread ==
    \/ StartProcessing
    \/ \E mode \in BOOLEAN : SetStreamingMode(mode)
    \/ AddResponse
    \/ \E defer, throw \in BOOLEAN : FinishProcessing(defer, throw)

Next ==
    \/ Alloc \/ Read \/ ReadError \/ Thread
    \/ AfterRequestProcessing \/ AfterDeferredRequest
    \/ \E failed, more \in BOOLEAN : ResponsesSent(failed, more)
    \/ InitiateShutdown \/ AfterDisconnection \/ OnClientClosed

\* The event loop keeps asking for what the client goes on sending: it finds nothing to read
\* now and then, not for ever.
Fairness == WF_vars(Alloc) /\ WF_vars(Read) /\ SF_vars(ReadBytes)

Spec == Init /\ [][Next]_vars /\ Fairness

-------------------------------------------------------------------------------
(* Properties                                                                *)

\* MemoryConsumptionByClients and ActiveClientRequestBuffers are what is allocated for the
\* client, whichever way its buffer was sized and released.
MemoryAccounted ==
    /\ BufferTypeOK
    /\ memory = (IF life = "closed" THEN 0 ELSE ClientSize) + capacity
    /\ buffers = IF base = "allocated" THEN 1 ELSE 0
    /\ base = "header" => capacity = 0

\* While a request is processed in place, alloc_buffer offers no byte of the buffer
\* (the ASSERT at LocalClientsManager.cpp:605), and the whole request is in it.
RequestStaysWhole ==
    processing => /\ offered = 0
                  /\ len - index = 0 /\ sizeFound = 0
                  /\ got = Total(msg) /\ index = got

\* alloc_buffer never offers libuv more bytes than were allocated behind the index.
ReadsWithinAllocation ==
    index + offered <= IF base = "allocated" THEN capacity ELSE HeaderSize + 1

\* What is offered never reaches past the end of the message being received, so the first
\* byte of the buffer is always the first byte of a message.
ReadsOneRequest ==
    ~shutdown /\ ~marked =>
        /\ index \in {0, got}
        /\ index = 0 => got = Total(msg) /\ offered <= HeaderSize + 1
        /\ index > 0 => got + offered <= Total(msg)

\* The ASSERTs of GetRequestBuffer and ExtractRequestOffTheBuffer about a client that
\* waits for more bytes.
WaitingAssertions ==
    ~shutdown /\ ~marked /\ ~processing /\ life = "open" =>
        /\ NeedsRoom => index = HeaderSize + 1
        /\ NeedsRoom /\ base = "allocated" => streaming /\ forStreaming
        /\ base = "header" => ~forStreaming
        /\ index <= HeaderSize => len = HeaderSize + 1 /\ (forStreaming \/ base = "header")
        /\ index > HeaderSize + 1 =>
              base = "allocated" /\ len = msg.size + HeaderSize /\ index < len

\* A message whose sender goes on sending is received to its end, or the client is
\* disconnected: no client waits forever in front of a full buffer.
MessageReceived ==
    got < Total(msg) ~> (got = Total(msg) \/ ~reading)
===============================================================================
