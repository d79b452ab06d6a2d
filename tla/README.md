# Pulsar Server Framework: TLA+ models

Pulsar Server Framework (PSF) is a C++ framework for TCP servers on top of libuv. An application
supplies request processors; the framework accepts clients, runs requests on libuv's thread pool,
queues the responses for local clients or forwards them to the server another client is
connected to, and shuts down in stages. These modules model its concurrent core, from the
sources in `Pulsar/src`.

## The system

One **event loop** thread runs all libuv callbacks. `MaxRequestProcessingThreads` **pool threads**
run requests, disconnections and the keep-alive; two more are occupied by the logger and the file
writer. Everything hard lies between the loop and these threads, or between callbacks of the loop
that arrive in an order nobody chose.

| Part | State it keeps | Operations | What makes it correct | Module |
|---|---|---|---|---|
| Responses for local clients (`LocalClientsManager`, `ConnectionsManager`, `RequestProcessor`) | two queues per client, two receiving sets, the direction flag, the batch being written, counts of references | create and add (threads); toggle, send, after send (loop) | nothing is used after it is deleted; nothing queued is forgotten; counts are exact | `ResponseQueues` |
| Clients pool (`ClientsPool`) | clients with their counts of requests and responses | add, remove, list, increase, decrease | a client leaves only when nothing refers to it | `ResponseQueues`, `ServerShutdown` |
| Client life cycle (`LocalClientsManager`) | accepted, in pool, disconnection queued, closing | new client, read, request, disconnect, close | each client is disconnected once and outlives its work | `ServerShutdown` |
| Shutdown (`LocalClientsManager`, `ConnectionsManager`) | flags and counters of each stage | Ctrl+S, server stopped, periodic check | a stage begins after the one before has ended, and does begin | `ServerShutdown`, `PeerServers` |
| Peer servers (`PeerServersManager`) | connection status, times, queues, unacknowledged responses | look-up, connect, read, write, close, time out, retry | handles are closed once, responses are sent or failed, acknowledgements match | `PeerServers` |
| Request buffer and parser (`LocalClientsManager`, `RequestParser`) | header, buffer, index, size found, streaming flags, memory counters | offer buffer, read, extract, reset | one request at a time, whole, never overwritten; memory counters exact | `RequestBuffer` |
| Forwarded responses (`RequestProcessor`, `RequestResponse`, `RequestProcessor_ForwardedResponses`) | handles and message in one buffer | split, construct, process, acknowledge | every handle gets the message once and whole; nothing outside the request is read | `ForwardedResponse` |
| Thread pool (libuv's, sized by `CommonComponents`), logger, file writer | queues of work and of finished work, idle threads, thread numbers, stop flags | submit, take, finish, call back, drain, stop | no wake-up is lost; numbers stay in range; what was queued before the stop is written | `WorkerThreads` |
| Updates (`RequestProcessor::SendUpdate`) | asynchronous handle and barrier of every processor | send update, callback, barrier | the call returns, and only after the loop has looked at the update | `UpdateBarrier`, `UpdateCalls` |
| Profiler, demo, the rest of libuv | | | | not modelled: compiled out, an example, third party |

How they interact: a request thread calls `SendResponse`, which holds the direction lock while it adds
a response to clients' or servers' queues. `DoPeriodicActivities`, called by the timer (201 ms) and
at the end of most callbacks, toggles the direction and sends; the completion of a write counts
responses down, puts the client or server back into its sets and may disconnect it. The
periodic activities also drive the shutdown: no client, no response, server socket closed, handles
closed; then the processors are deleted, the peers closed, logger and file writer stopped, and the
loop ends.

## Modules

### ResponseQueues

State: the fields of `stClient`, `Response` and `ServerStat` named in its comments, plus where every
thread stands in `AddResponseToQueues` (`pc`, `todo`, `current`) and where the loop stands (`loop`).
Actions: `CreateResponse`, `IncreaseCountForClient`, `AddResponseToQueue`, `DecreaseCountForClient` and
`SetReferenceCount` are the steps of a thread; `ToggleDirection`, `SkipClient`, `WriteBatch`,
`WriteBatchFails`, `AfterSendResponses`, `DisconnectAndDelete`, `RemoveClient` and the callbacks are
those of the loop. A handler of the loop is one step except where a thread can tell the difference:
at the write lock of the toggle, between the clients of `SendLocalClientsResponses`, and at the write
lock in `DisconnectAndDelete`. The push to a queue and the insertion into a set are one step because both
happen under the client's queue lock, which the loop takes before it looks at the locked queue. Marking,
decreasing and looking at the queues after a write are one step: only the loop marks clients, and a push
in between is the same as one just before or after.

### ServerShutdown

The life of a client and the work done for it: `OnNewClient`/`RefuseClient`, `CreateRequestAndQueue`, the
steps of the request, disconnection and keep-alive threads, their callbacks, `OnClientClosed`;
`InitiateServerShutdown` (Ctrl+S), `OnServerStopped` and the shutdown part of `DoPeriodicActivities` up to
`DeleteRequestProcessors`. A thread holds a processor from the look-up to the end of the work; that
look-up fails once the processors are gone. The responses of a client are a number here: how
they move is what `ResponseQueues` is about. The pool's FIFO queue is a set, served in any order, which
allows more than the code does.

### PeerServers

The connection to every peer: `status` is what the code believes, `handle` what libuv has. Time is two
facts per server: `connectLate` and `retryDue` are what the code computes from `ConnectingTime` and
`DisconnectedTime`; `cooling` is whether 30 s have really passed since the last failure. It counts down
with the calls of the periodic activities because within 30 s the timer runs many times and both
queues are looked at. `DoPeriodicActivities` is split into its parts because it also runs nested in
`on_read`, after each acknowledgement. Threads add a response in one step (direction and queue lock).
On Windows no libuv error is -1, so the code's tests for -1 never succeed: such errors go unnoticed, and
the model has them that way.

### RequestBuffer

One client's `m_Request`: the fields of `stClient` about the buffer, `memory` and `buffers` for
`MemoryConsumptionByClients` and `ActiveClientRequestBuffers`, and what the client sends (`msg`, `got`). The bytes
are counted, not represented. `AllocBuffer`, `AllocNewBuffer`, `AllocNewBufferFails` and
`AllocStreamingBuffer` are the four ways through `GetRequestBuffer`; `ReadPart`, `ReadInvalidHeader`, `ReadRequest` and
`ReadRequestFails` are those through `ExtractRequestOffTheBuffer`, with `Parsed` for
`ValidateProtocolAndExtractRequest`; the thread may switch streaming, answer, defer and throw while its request
lies in the buffer. The socket gives any number of the bytes offered but never more than the message has left;
`ReadsOneRequest` shows that the code does not ask for more, so the model loses nothing by it. On Windows libuv reads
inside the callback that asked for the buffer, but it may find nothing (`ReadNothing`): then other callbacks
come between the allocation and the first byte read into it. A fatal response or a failed write marks the client, which goes on
being read until its responses are gone (`ResponsesSent`). `Init` is what the constructor of `stClient` sets.

### WorkerThreads

libuv's `threadpool.c` step by step between its locks, with the numbering of threads by
`request_processing_thread` and the loops of `log_processing_thread` and `file_writing_thread`. `pc` has the
difference between a thread that waits and one that was signalled and does not have the mutex yet, because
`idle_threads` does not; the loop clears `async_sent`, takes the queue and calls back in three steps
because threads finish work between them. Requests and disconnections draw thread numbers and may queue files; the disconnection of
a client without version does neither and is one of `Others`.

The last stage of a shutdown is `StopDrains`. `ConnectionsManager.cpp:515-554` reaches it by
`m_bAllClientsDisconnectedForShutdown` and never looks at disconnections itself, so its guard is what the flag means
(`AllClientsDisconnected`). The flag is set behind the last disconnection, or by a Ctrl+S that finds the pool
empty: no request is under way then, since a client with a request is in the pool, but disconnections may be queued or running. As in
`ServerShutdown`, `CalmShutdown` says that this does not happen, and `ListMayFail` lets the pool be taken for empty when the list of
clients cannot be made. Once the logger is being stopped no client is left to submit work, except in the last case (`Submit`).

### UpdateBarrier and UpdateCalls

`UpdateBarrier` has `StoreMessage` with `bIsUpdate`, the asynchronous handle, `send_update_callback` and every step of libuv's
barrier for Windows: counter, mutex and two semaphores. `UpdateCalls` is what the call promises: store, ask, be
served, return. `ImplementsCalls` is the refinement, with `call` computed from where thread and loop are.

### ForwardedResponse

From `StoreMessage` on one server to the delivery on another: `HandlesAt` groups handles by server, `IsChunk` splits them,
`Construct` lays a forwarded response out, and `StartProcessing`, `ReadHandle`, `FinishProcessing` read it back, with
lengths modulo `Word` as the code computes them in 32 bits. A part may fail to be created, be refused or be lost on
the way (`PeerServers` has the reasons). The peer may store it for none or some of its clients (an unknown version, a length
its version does not allow, no memory, `RequestProcessor.cpp:521` and `566`, or a client that refuses) and acknowledges it all the
same; the message is then recorded as failed, and `DeliveredToAll` says nothing of it. `ReceiveStrange` is a request of the peers' version that the framework did not construct.

### How the modules fit together

`RequestBuffer` hands a request to the pool of `WorkerThreads`, whose request is the one `ServerShutdown` follows from queue to
callback; while it runs, it adds responses as in `ResponseQueues` and `PeerServers`, in the format of `ForwardedResponse`, or waits as in
`UpdateBarrier`. Each module keeps of its neighbours what it needs: `RequestBuffer` only whether responses are pending,
`ServerShutdown` their number, `PeerServers` the loss of a response that `ForwardedResponse` allows at any moment.

`MC*.tla` extend these modules with the symmetry sets and functions that TLC uses; every component's theorems are in
its `*Proofs` module, those of `ResponseQueues` in two. The operators marked "Mutant" change one definition the way a bug would; no
specification uses them. They document that every property can fail.

## Runs

All bounds are constants of the configuration.

| Run | Bounds | Shows |
|---|---|---|
| `response_queues` | 2 clients, 2 threads, 3 responses (1 fatal), 2 per queue, all errors | `TypeOK`, `ResponsesAccounted`, `RemovedClientUnreferenced`, `ReceivingHasResponse`, `ReferencesAccounted`, `ServerStatExact` |
| `response_delivery` | 1 client, 2 threads, 3 responses, no failing `uv_write` call | `NoResponseForgotten`, `ResponsesDelivered`, `MarkedClientDeleted` |
| `server_shutdown` | 3 clients, 2 threads, 2 pending responses each, one calm Ctrl+S | `DisconnectionsAccounted`, `WorkHasClient`, `ProcessorsDeletedLast` |
| `shutdown_proceeds` | 2 clients, 1 thread, Ctrl+S at any moment | `ShutdownProceeds` |
| `peer_servers` | 2 servers, 3 responses, 2 acknowledgements per read, failing look-ups and writes, out of memory | `ConnectionCountersExact`, `ForwardedResponsesAccounted`, `AcknowledgementsAccounted`, `DisconnectingUntilClosed` |
| `peer_delivery` | 1 server, 2 responses, every failure except of look-ups and of the call of `uv_tcp_connect` | `NoForwardForgotten`, `ForwardedResponsesFinished`, `ShutdownCompletes` |
| `request_buffer` | headers of 2 bytes, sizes up to 4 for limits of 2 and 3, 3 messages, known, unknown and peer versions | `MemoryAccounted`, `RequestStaysWhole`, `ReadsWithinAllocation`, `ReadsOneRequest`, `WaitingAssertions`, `MessageReceived` |
| `worker_threads` | 1 request thread (a pool of 3), 1 request, 1 disconnection, 1 statistic, 1 file, a calm shutdown | `WorkInOnePlace`, `NoThreadSleepsOnWork`, `ThreadIndexInRange`, `QueuedBeforeStopIsWritten`, `WorkIsCalledBack`, `DrainsStop` |
| `update_barrier` | 3 threads, any number of updates | `BarrierTypeOK`, `UpdateSeen`, `ImplementsCalls`, `UpdateReturns` |
| `forwarded_responses` | 1 local and 5 remote handles, 2 to a response, messages of up to 2 bytes, 5-bit lengths, 1 message not constructed by a peer | `DeliveredAtMostOnce`, `DeliveredToAll`, `HandlesReadInside`, `PayloadIntact` |

The type invariants of `PeerServers`, `ServerShutdown`, `RequestBuffer` and `WorkerThreads` are the first conjunct of the first
property in their row.

Why this is enough: two threads and two clients are what it takes for one multicast to be half added
while another is sent and a client is removed; three responses fill both queues and a batch, with
one refused at a limit of two per queue. Two peers and three responses let one batch be written, a
second wait and an acknowledgement overtake a completion; two acknowledgements in one read are what
it takes to nest the periodic activities in `on_read`. Three clients are one connected, one with its
disconnection queued and one closing. Three messages are what it takes to size a buffer under one mode, keep it, and release it under
the other; sizes one above the limits and zero are among them. One request thread makes a pool of
three, so that the request must share the only free thread with the disconnection and would draw a second number
on any other (keep-alives and look-ups draw none, and are left to the proofs); the request alone can occupy the pool again and again by deferring itself. Five handles at two to a
response are two full parts and a rest, and 5-bit lengths wrap at four handles of eight bytes. Three threads
let the loop serve one processor while two others have asked. In all runs but `update_barrier` each response, client,
message and Ctrl+S occurs a bounded number of times, so every run ends: deadlock is not checked because the systems
stop when the bounded input is used up. `update_barrier` goes on for ever and is checked for deadlock.

The constants that name failures (`OutOfMemory`, `Failures`, `WriteMayFailAtOnce`, `CalmShutdown`, `ListMayFail`) leave out, in
the passing runs, exactly the failures for which the properties do not hold, listed here. `WriteMayFailAtOnce` allows more than
libuv does: on Windows `uv_write` reports an error of the send to its callback (`win/tcp.c:909`) and refuses only
a handle that was closed or shut down (`win/stream.c:129`), which no client of the pool has. The handler at
`LocalClientsManager.cpp:1667` is modelled and kept safe by `response_queues` all the same; `response_delivery` has libuv's behaviour.

### Where code and comments disagree

| Run | What the code does |
|---|---|
| `shutdown_while_disconnecting` | Ctrl+S with an empty pool and a disconnection still queued deletes the processors before that client is closed (`ConnectionsManager.cpp:531` says after). In TLC's shortest trace the disconnection is only queued and its client has no version; if it has one and the disconnection is running, the processor in use is deleted. |
| `late_disconnection_index` | The same Ctrl+S with one disconnection running and another queued: the shutdown goes on to stop the logger, whose thread takes the second disconnection and draws an index out of range (ASSERT at `LocalClientsManager.cpp:370`). |

Others have no run of their own; the configuration to change is named where there is one:

* `PeerServersManager.cpp:435`: a connection that `uv_tcp_connect` refuses at once is counted as in progress for ever, so
  a shutdown never ends (`peer_delivery` with `"connect"` among `Failures`).
* `Pulsar.h:135`: a failed look-up does not set `DisconnectedTime`, so the retry comes at once, and the response that waits starts its
  waiting anew: it can wait for ever while look-ups fail (`peer_delivery` with `"lookup"` among `Failures`).
* `PeerServersManager.cpp:469`: the loop can stop with a look-up, or the connection after it, pending; the shutdown
  waits for connections only.
* `LocalClientsManager.cpp:863`: a peer whose request cannot be allocated stays connected with a buffer that was not given
  back; its next header trips the ASSERT that the buffer is the header or for streaming (`request_buffer` with
  `"peer_request"` in `OutOfMemory`).
* `ClientsPool.cpp:118`: clients that `GetClients` has no memory for are not disconnected, and if all are left out the
  shutdown takes the pool for empty (`server_shutdown` with `"list"` in `OutOfMemory`).
* After the same Ctrl+S a disconnection that is still running can queue a file when the file writer has ended: the file is never
  written (`worker_threads` with `CalmShutdown = FALSE` violates the second part of `QueuedBeforeStopIsWritten` without its `Calm`).
  With `ListMayFail = TRUE` requests do the same, and numbers go out of range as well.
* `RequestProcessor_ForwardedResponses.cpp:37` and `:68` give a handle 4 bytes of index and 8 of registration number; the
  code writes, reads and sizes 8 bytes per handle, the registration number alone.
* `LocalClientsManager.cpp:1121`: the limit is checked per queue, at half of `MaxPendingResponses`; with both queues and a
  batch one and a half times the limit can be pending.
* `CommonComponents.cpp:65` wants room for one response of every thread; a queue takes only half of
  `MaxPendingResponses`, so the smallest value allowed does not give it.
* `LocalClientsManager.cpp:1782` says that a marked client gets no more responses; a thread that looked
  before the mark still adds one. The removal is safe all the same (`DisconnectionSafe`).

### Fairness

The liveness runs assume what libuv and the operating system give: the loop runs on and serves every
callback that is due, however often others come first (strong fairness of callbacks, since a
callback is not enabled while another handler runs); a write, a connection attempt and the closing of a handle
come to an end; the pool takes up work in order; the application's `ProcessRequest` and
`ProcessDisconnection` return. Nothing is assumed of clients, of peers (who may never answer) or of the
operator. A request may defer itself for ever until a shutdown begins, since then it is not processed any more.

`request_buffer` assumes that the loop asks for bytes and that a client goes on sending what it began: there may be nothing to read
now and then but not for ever (strong fairness of `ReadBytes`); threads are not assumed to end. `worker_threads` assumes weak fairness of every thread, of the callbacks of the loop and of the timer once a
shutdown has got to the drains; new work, files and statistics are never forced. `update_barrier` needs strong fairness of
whoever waits for a semaphore, which the other side may take and post again, and of every handle's callback; nothing
makes a thread send an update.

## Proofs

`ResponseQueuesProofs` proves for every finite set of clients, threads and responses, every limit and
every choice of failures, from `ResponseQueuesAssumption` alone:

* `TypeCorrect`: `Spec => []TypeOK`;
* `AccountingCorrect`: the pool's counter of a client is the length of its queues and batch plus the
  threads about to add to it;
* `ReceivingCorrect`: a client is in a receiving set only if that queue holds a response;
* `DisconnectionSafe`: nothing refers to a client that has left the pool.

The argument: `DisconnectionSafe` is not inductive. When the loop removes a client it only knows that the
counter is zero, and it is `AccountingCorrect` that turns this into empty queues, no batch and no
thread under way. That in turn needs to know which thread states occur while the loop is in
`DisconnectAndDelete`, and that a client outside the pool gets no new references. `SafetyInv` is the conjunction
of `TypeInv` (the types, refined by where threads and loop stand), `ResponsesAccounted`, `ReceivingHasResponse`,
`RemovingInv` and `RemovedDrained`; `SafetyInvariant` proves it inductive, one lemma per group of actions, and the
theorems follow. Lengths of queues are abbreviated by `QLen` so that the arithmetic is about numbers
only.

`UpdateBarrierProofs` proves for every set of request threads, from `UpdateBarrierAssumption` alone:

* `TypeCorrect`: the barrier's counter stays within two and its semaphores stay binary;
* `UpdateSeenCorrect`: a thread that is through the barrier has had its update looked at;
* `CallsImplemented`: `Spec => Calls!Spec`, the refinement of `UpdateCalls`.

The argument: per processor there is one token. It is in one of the turnstiles or with whoever came through it
(`BarrierState`), and counter and mutex are determined by where thread and loop stand. While the token is in the first
turnstile both have arrived and not both have left (`Passing`); otherwise at most one has arrived, and the loop may be on its way out of
the round before (`Meeting`): this is where a thread can come back early without being let through. An update that was not looked
at belongs to a call that still waits (`PendingState`). `BarrierWaitEffect` reduces the eight steps of the barrier to their effect on
one processor, `RoundFrame` says that all others are left alone, and `StepRefines` maps every step to one of
`UpdateCalls` or to a stutter.

`ResponseReferencesProofs` goes on from there:

* `ReferencesCorrect`: the loop only sends responses whose reference count is set, the count is exactly the number of
  clients still to be served, and a response is deleted once, when no client holds it;
* `StatCorrect`: `ResponsesInLocalClientsQueues` is the number of responses that are queued and not deleted;
* `NoResponseForgottenCorrect`, under `"loop" \notin OutOfMemory` and `~WriteMayFailAtOnce`: a queue with responses is in its
  receiving set or a batch is being written. Without the first hypothesis a client is not put back into its set
  (`LocalClientsManager.cpp:1173`); the second is what libuv gives on Windows.

The argument: a client holds a response once (`OnceInv`), and only the queue that the threads fill can hold a response whose
count is not set yet (`HeldInv`): the loop's queue changed hands by a toggle, which waits until no thread is in
`SendResponse`. A thread that adds a response knows how many clients hold it (`AddInv`); from then on those
served and those holding it are all its references (`SentInv`).

`ServerShutdownProofs`, from `ServerShutdownAssumption`:

* `DisconnectionsCorrect` and `WorkCorrect` for any number of Ctrl+S at any moment and any failure;
* `ProcessorsCorrect`, under `CalmShutdown` and `"list" \notin OutOfMemory`: the processors are deleted after all clients.
  `shutdown_while_disconnecting` is the counterexample without the first, and a client left out of the list at
  `ClientsPool.cpp:118` without the second.

The first two are inductive together (`LifeInv`): a client that is queued for disconnection has no work left, since it was
taken out of the pool when its counts were zero. `OrderInv` has the order of the stages: once the clients are taken for
disconnected, the pool is empty, no disconnection is under way and the socket accepts nobody any more.

`PeerServersProofs`, from `PeerServersAssumption`:

* `ForwardedAccountedCorrect`, `AcknowledgementsCorrect` and the action property `DisconnectingCorrect`, under every failure;
* `NoForwardForgottenCorrect`, under `"loop" \notin OutOfMemory` (`PeerServersManager.cpp:521`);
* `CountersCorrect`, under `"connect" \notin Failures` and `"setsockopt" \notin Failures`: `after_getaddrinfo` counts a connection
  that `uv_tcp_connect` has refused, and `after_connect` does not count one that it then uses.

The argument: a response that counts is in exactly one queue or batch (`PlaceInv`). The status of a server determines its
handle, and a server without connection owes nothing (`ConnInv`). For the acknowledgements the hard case is `DoPeriodicActivities`
nested in `on_read`: it could close the connection being read, and the acknowledgements left in the buffer would count for a
connection that is gone. `ReaderInv` says why it does not: it is called when no counted response is left, so the acknowledgements still in the
buffer can only be for a batch whose completion has not been called back (`AckInv`, the balance of counted, written and
acknowledged responses); and a server with a batch being written is skipped.

`RequestBufferProofs`, from `RequestBufferAssumption` and `"peer_request" \notin OutOfMemory`: `MemoryCorrect`, `WholeCorrect`,
`WithinCorrect`, `OneRequestCorrect` and `AssertionsCorrect`, for every size of header and limits, every set of versions and
every way to cut the bytes. The hypothesis is needed by all five: after the failure at `LocalClientsManager.cpp:863`
the peer goes on sending into a buffer that still holds its last request, and TLC finds each of the five violated.
One invariant, `BufferInv`, serves all: `ReceiveInv` has the four places where a client can stand in its message (before it, in
the header, at its end with a size found, in the body), `AllocationInv` and `CountersInv` what is allocated for each, and
`SizeFoundInv` that a size is known only between the header and the allocation.

`WorkerThreadsProofs`, from `WorkerThreadsAssumption`, for every number of threads, requests, disconnections and other works:
`WorkInOnePlaceCorrect`, `NoSleepCorrect` and `DrainsCorrect` in every shutdown, and `ThreadIndexCorrect` under `CalmShutdown` and
`~ListMayFail` (`late_disconnection_index` is the counterexample without the first). `QueuedBeforeStopIsWritten` has two parts:
what was queued before the stop is written, always; and the file writer has nothing left at all, if the shutdown is calm. `PlaceInv` counts every work over all queues, threads and
the loop to one, and has that `idle_threads` counts signalled threads too. No index goes out of range
because the two drains are queued before anything else and the queue is a FIFO: they are taken by threads that have no index, and keep
them until, in a calm shutdown, no request or disconnection can come any more (`FirstInv`, with `StopInv`). So at most `MaxRequestProcessingThreads` threads ever draw one
(`RoomForIndex`).

`ForwardedResponseProofs`, from `ForwardedResponseAssumption`: `ReadInsideCorrect`, `PayloadCorrect`, `AtMostOnceCorrect`,
`DeliveredToAllCorrect`, for every set of handles, messages and peers, every limit and every number a peer claims. `Sound` and
`Apart` say what a forwarded response on its way is like: as constructed, with handles that nobody has served and that no
other one carries. `KeptInv` has that a handle is yet to be served, under way or served; `PartsInv` that the parts acknowledged, on the
way and yet to be created add up to the number of parts the handles take (`PartsStep` is the arithmetic of the division). `NeverRefused` and
`NeverTooLong` show that no part constructed within the limits fails a length check on either side. The assumption has
two facts about the format: the numbers are longer than version, handle field and a byte together (8 and 7), and the
length word wraps at a multiple of them (2^32 and 8). `MinimumNeverSmall` needs both: a minimum length that wraps
around is never below that of a response without handles, which is why the check at `RequestProcessor_ForwardedResponses.cpp:82`, though it can
wrap, still keeps the first reads inside the request.

The theorems state every invariant and every action property that the passing runs check, `ImplementsCalls` included. Only
model-checked are the liveness properties, since the proof system supports neither fairness nor ENABLED: `ResponsesDelivered`,
`MarkedClientDeleted`, `ShutdownProceeds`, `ForwardedResponsesFinished`, `ShutdownCompletes`, `MessageReceived`, `WorkIsCalledBack`,
`DrainsStop` and `UpdateReturns`.

## Not modelled

* Start-up: reading and validating parameters, creating request processors, binding and listening. It is sequential and ends
  the program when it fails. Also `uv_accept` failing, after which the size of the client stays in
  `MemoryConsumptionByClients` (`LocalClientsManager.cpp:1319`), and failures of libuv's own allocations.
* Formatting and statistics that nothing depends on; the contents of messages; the console and the disk.
* The `CONNECTION_OVERFLOWED` state, which the code has disabled; the map of peer servers, which only
  grows; `MEMORY_FOOTPRINT_DEBUG` and profiling code; `m_ConnectionCallbackError`, which is never set;
  `uv_cancel`, which the framework does not call.
* libuv, except the thread pool, asynchronous handles and the barrier. It is vendored whole, for all
  platforms, and is about seven times the size of the framework; the framework is built for Windows. Its sockets, timers
  and name resolution appear as the callbacks they cause.
* The profiler and the demo programs.

Data races on plain flags are treated as the ordered reads and writes the supported compilers produce.

## Plan

1. An abstract specification of a client's responses (added, served or dropped, at most once, none after removal), which
   `ResponseQueues` implements, and which `ServerShutdown` could use for its pending responses; its refinement can be proved from
   `SafetyInv` and `RefInv`.
2. The same for `PeerServers`: a response is unborn, queued, then sent or failed, once.
