----------------------------- MODULE ServerShutdown -----------------------------
(***************************************************************************)
(* The life of a client from on_new_client to on_client_closed, the work   *)
(* that libuv's thread pool does for it (requests, disconnections, the     *)
(* keep-alive), and the shutdown of the server up to the deletion of the   *)
(* request processors.  PeerServers models what follows.                   *)
(*                                                                         *)
(* How responses move through the two queues of a client is the subject of *)
(* ResponseQueues; here pending counts them.  The pool of waiting work is  *)
(* a set: libuv serves it in order, the model in any order.  The threads   *)
(* of logger and file writer, which are busy until the processors are      *)
(* gone, are left out.                                                     *)
(*                                                                         *)
(* The event loop runs one handler at a time, one action each; loop is     *)
(* "periodic" when a handler ends with a call of DoPeriodicActivities.     *)
(***************************************************************************)
EXTENDS Integers, FiniteSets

CONSTANTS
    Clients,       \* clients, each connects at most once
    Threads,       \* MaxRequestProcessingThreads
    MaxPending,    \* bound: responses pending for one client
    MaxPresses,    \* bound: how often Ctrl+S is pressed
    CalmShutdown,  \* is Ctrl+S pressed once, and not while the last disconnections are queued?
    KeepAlive,     \* is the keep-alive thread run?
    OutOfMemory    \* where std::bad_alloc may be thrown: in a "thread", adding a "client",
                   \* creating a "request", making the "list" of the clients to disconnect

ASSUME ServerShutdownAssumption ==
    /\ IsFiniteSet(Clients)
    /\ Threads \in Nat \ {0}
    /\ MaxPending \in Nat \ {0}
    /\ MaxPresses \in Nat
    /\ CalmShutdown \in BOOLEAN
    /\ KeepAlive \in BOOLEAN
    /\ OutOfMemory \subseteq {"thread", "client", "request", "list"}

VARIABLES
    life,                 \* "unborn", in the "pool", disconnection "queued", "running" with a
                          \* processor or "processed", handle "closing", "deleted"
    marked,               \* clients with m_bMarkedToDisconnect
    reading,              \* clients being read
    versioned,            \* clients whose m_Version has been set by a request
    request,              \* "none", "queued", "processing", "holding" (a processor only), "done"
    deferred,             \* clients whose request asks to be processed again
    failed,               \* clients whose request met std::bad_alloc
    pending,              \* m_LockRequestsResponses.Responses
    keepAlive,            \* "none", "queued", "sending" or "done"
    recipients,           \* the clients the keep-alive thread has still to send to
    listening,            \* m_tcp_server: "open", "closing" or "stopped"
    shuttingDown,         \* m_bIsServerShuttingDown
    allDisconnected,      \* m_bAllClientsDisconnectedForShutdown
    queuedDisconnections, \* QueuedDisconnections
    clientsClosing,       \* m_ClientsClosing
    processors,           \* "active" or "deleted"
    presses,              \* how often Ctrl+S was pressed
    loop                  \* "idle" or "periodic"

clientVars   == <<life, marked, reading, versioned, pending>>
requestVars  == <<request, deferred, failed>>
aliveVars    == <<keepAlive, recipients>>
shutdownVars == <<listening, shuttingDown, allDisconnected, processors, presses>>
countVars    == <<queuedDisconnections, clientsClosing>>
vars == <<clientVars, requestVars, aliveVars, shutdownVars, countVars, loop>>

\* Every variable has the type of the field it models.
ShutdownTypeOK ==
    /\ life \in [Clients -> {"unborn", "pool", "queued", "running", "processed",
                             "closing", "deleted"}]
    /\ marked \subseteq Clients /\ reading \subseteq Clients
    /\ versioned \subseteq Clients
    /\ request \in [Clients -> {"none", "queued", "processing", "holding", "done"}]
    /\ deferred \subseteq Clients /\ failed \subseteq Clients
    /\ pending \in [Clients -> 0..MaxPending]
    /\ keepAlive \in {"none", "queued", "sending", "done"}
    /\ recipients \subseteq Clients
    /\ listening \in {"open", "closing", "stopped"}
    /\ shuttingDown \in BOOLEAN /\ allDisconnected \in BOOLEAN
    /\ queuedDisconnections \in Nat /\ clientsClosing \in Nat
    /\ processors \in {"active", "deleted"}
    /\ presses \in 0..MaxPresses
    /\ loop \in {"idle", "periodic"}

Init ==
    /\ life = [c \in Clients |-> "unborn"]
    /\ marked = {} /\ reading = {} /\ versioned = {}
    /\ request = [c \in Clients |-> "none"]
    /\ deferred = {} /\ failed = {}
    /\ pending = [c \in Clients |-> 0]
    /\ keepAlive = "none" /\ recipients = {}
    /\ listening = "open"
    /\ shuttingDown = FALSE /\ allDisconnected = FALSE
    /\ queuedDisconnections = 0 /\ clientsClosing = 0
    /\ processors = "active"
    /\ presses = 0
    /\ loop = "idle"

-------------------------------------------------------------------------------
(* The pool and the threads                                                  *)

Pool == {c \in Clients : life[c] = "pool"}

\* The threads of the pool that are busy, and whether there is another one.
Busy ==
    Cardinality({c \in Clients : request[c] \in {"processing", "holding"}})
      + Cardinality({c \in Clients : life[c] = "running"})
      + IF keepAlive = "sending" THEN 1 ELSE 0

ThreadFree == Busy < Threads

\* Mutant: a client with pending responses is removed as well.
NoRequest(c) == request'[c] = "none"

\* RemoveClient erases the client from the pool.
Removable(c) == request'[c] = "none" /\ pending'[c] = 0

\* Mutant: the counter is increased whether or not a disconnection is queued.
CountOneDisconnection(n) == queuedDisconnections' = queuedDisconnections + 1

\* QueuedDisconnections++ for each of n disconnections.
CountDisconnections(n) == queuedDisconnections' = queuedDisconnections + n

\* DisconnectAndDelete for clients S of the pool, after request and pending have changed:
\* those without request or responses leave the pool and their disconnection is queued.
DisconnectAndDelete(S) ==
    LET removed == {c \in S : Removable(c)} IN
    /\ marked' = marked \cup S
    /\ reading' = reading \ S
    /\ life' = [c \in Clients |-> IF c \in removed THEN "queued" ELSE life[c]]
    /\ CountDisconnections(Cardinality(removed))

-------------------------------------------------------------------------------
(* Event loop: clients and requests                                          *)

\* on_new_client: the client is accepted and added to the pool.
OnNewClient(c) ==
    /\ loop = "idle"
    /\ listening = "open" /\ life[c] = "unborn"
    /\ life' = [life EXCEPT ![c] = "pool"]
    /\ reading' = reading \cup {c}
    /\ UNCHANGED <<marked, versioned, pending, requestVars, aliveVars, shutdownVars,
                   countVars, loop>>

\* on_new_client cannot add the client to the pool, or set an option of its socket:
\* its disconnection is queued at once.
RefuseClient(c) ==
    /\ loop = "idle"
    /\ listening = "open" /\ life[c] = "unborn"
    /\ "client" \in OutOfMemory
    /\ life' = [life EXCEPT ![c] = "queued"]
    /\ marked' = marked \cup {c}
    /\ CountDisconnections(1)
    /\ UNCHANGED <<reading, versioned, pending, requestVars, aliveVars, shutdownVars,
                   clientsClosing, loop>>

\* on_read has a complete request: CreateRequestAndQueue.  For a marked client the
\* constructor of Request throws RequestCreationException.
CreateRequestAndQueue(c) ==
    /\ loop = "idle"
    /\ life[c] = "pool" /\ c \in reading /\ request[c] = "none"
    /\ versioned' = versioned \cup {c}
    /\ \/ c \notin marked /\ request' = [request EXCEPT ![c] = "queued"]
       \/ c \in marked /\ request' = request
    /\ loop' = "periodic"
    /\ UNCHANGED <<life, marked, reading, pending, deferred, failed, aliveVars,
                   shutdownVars, countVars>>

\* The request cannot be allocated: the client is disconnected (a peer server is not;
\* for it this is as in CreateRequestAndQueue for a marked client).
RequestOutOfMemory(c) ==
    /\ loop = "idle"
    /\ life[c] = "pool" /\ c \in reading /\ request[c] = "none"
    /\ "request" \in OutOfMemory
    /\ versioned' = versioned \cup {c}
    /\ UNCHANGED <<pending, requestVars>>
    /\ DisconnectAndDelete({c})
    /\ loop' = "periodic"
    /\ UNCHANGED <<aliveVars, shutdownVars, clientsClosing>>

\* on_read reports an error.
OnReadError(c) ==
    /\ loop = "idle"
    /\ life[c] = "pool" /\ c \in reading
    /\ UNCHANGED <<pending, requestVars>>
    /\ DisconnectAndDelete({c})
    /\ UNCHANGED <<versioned, aliveVars, shutdownVars, clientsClosing, loop>>

\* after_request_processing_thread: a deferred request is queued again.
AfterRequestProcessing(c) ==
    /\ loop = "idle"
    /\ request[c] = "done"
    /\ failed' = failed \ {c} /\ deferred' = deferred \ {c}
    /\ request' = [request EXCEPT ![c] = IF c \in deferred THEN "queued" ELSE "none"]
    /\ pending' = pending
    /\ \/ /\ c \in marked \cup failed
          /\ IF c \in deferred
             THEN /\ marked' = marked \cup {c}
                  /\ UNCHANGED <<life, reading, queuedDisconnections>>
             ELSE DisconnectAndDelete({c})
       \/ /\ c \notin marked \cup failed
          /\ UNCHANGED <<marked, life, reading, queuedDisconnections>>
    /\ loop' = "periodic"
    /\ UNCHANGED <<versioned, aliveVars, shutdownVars, clientsClosing>>

\* SendLocalClientsResponses meets a FATAL_ERROR response.
SendFatalResponse(c) ==
    /\ loop = "idle"
    /\ life[c] = "pool" /\ pending[c] > 0 /\ c \notin marked
    /\ marked' = marked \cup {c}
    /\ UNCHANGED <<life, reading, versioned, pending, requestVars, aliveVars,
                   shutdownVars, countVars, loop>>

\* after_send_responses for a batch of n responses, written or not; a client whose
\* write failed is marked.  A marked client is disconnected unless its queues hold
\* more responses (a response that counts may be in neither queue yet).
AfterSendResponses(c, n, ok) ==
    /\ loop = "idle"
    /\ life[c] = "pool" /\ n <= pending[c]
    /\ pending' = [pending EXCEPT ![c] = @ - n]
    /\ UNCHANGED requestVars
    /\ \/ /\ ok /\ c \notin marked
          /\ UNCHANGED <<life, marked, reading, queuedDisconnections>>
       \/ /\ ~ok \/ c \in marked
          /\ DisconnectAndDelete({c})
       \/ /\ ~ok \/ c \in marked
          /\ pending'[c] > 0
          /\ marked' = marked \cup {c}
          /\ UNCHANGED <<life, reading, queuedDisconnections>>
    /\ loop' = "periodic"
    /\ UNCHANGED <<versioned, aliveVars, shutdownVars, clientsClosing>>

\* Mutant: the handle of the last client would have to be closed already.
NoHandleLeft ==
    (\A x \in Clients : life'[x] # "pool") /\ queuedDisconnections' = 0 /\ clientsClosing' = 0

\* No client is in the pool and no disconnection is queued, after this step.
NoClientLeft == (\A x \in Clients : life'[x] # "pool") /\ queuedDisconnections' = 0

\* after_disconnection_processing_thread
AfterDisconnectionProcessing(c) ==
    /\ loop = "idle"
    /\ life[c] = "processed"
    /\ life' = [life EXCEPT ![c] = "closing"]
    /\ clientsClosing' = clientsClosing + 1
    /\ queuedDisconnections' = queuedDisconnections - 1
    /\ allDisconnected' = (allDisconnected \/ (shuttingDown /\ NoClientLeft))
    /\ UNCHANGED <<marked, reading, versioned, pending, requestVars, aliveVars, listening,
                   shuttingDown, processors, presses, loop>>

\* on_client_closed
OnClientClosed(c) ==
    /\ loop = "idle"
    /\ life[c] = "closing"
    /\ life' = [life EXCEPT ![c] = "deleted"]
    /\ clientsClosing' = clientsClosing - 1
    /\ UNCHANGED <<marked, reading, versioned, pending, requestVars, aliveVars,
                   shutdownVars, queuedDisconnections, loop>>

-------------------------------------------------------------------------------
(* Event loop: shutdown                                                      *)

\* GetClients leaves out the clients it has no memory for.
GetClients ==
    IF "list" \in OutOfMemory THEN SUBSET Pool ELSE {Pool}

\* Ctrl+S: InitiateServerShutdown and DisconnectAllClients.
InitiateServerShutdown ==
    /\ loop = "idle"
    /\ presses < MaxPresses
    /\ CalmShutdown => ~shuttingDown /\ (Pool # {} \/ queuedDisconnections = 0)
    /\ presses' = presses + 1
    /\ listening' = IF listening = "open" THEN "closing" ELSE listening
    /\ shuttingDown' = TRUE
    /\ UNCHANGED <<pending, requestVars>>
    /\ \E S \in GetClients :
          /\ DisconnectAndDelete(S)
          /\ allDisconnected' = (allDisconnected \/ S = {})
    /\ UNCHANGED <<versioned, aliveVars, clientsClosing, processors, loop>>

\* on_server_stopped
OnServerStopped ==
    /\ loop = "idle"
    /\ listening = "closing"
    /\ listening' = "stopped"
    /\ UNCHANGED <<clientVars, requestVars, aliveVars, shuttingDown, allDisconnected,
                   processors, presses, countVars, loop>>

\* Mutant: handles that are being closed are not waited for.
NoResponsesLeft ==
    allDisconnected /\ (\A c \in Clients : pending[c] = 0) /\ listening = "stopped"

\* The conditions under which DoPeriodicActivities calls DeleteRequestProcessors.
AllClientsClosed ==
    /\ allDisconnected
    /\ \A c \in Clients : pending[c] = 0
    /\ listening = "stopped" /\ clientsClosing = 0

\* SendKeepAlive queues one keep-alive at a time.
SendKeepAlive == keepAlive' = IF keepAlive = "none" THEN "queued" ELSE keepAlive

\* The processors are gone, that of the keep-alive among them.
DeleteRequestProcessors == processors' = "deleted"

\* DoPeriodicActivities: SendKeepAlive when it is due, then the shutdown.
DoPeriodicActivities ==
    /\ UNCHANGED keepAlive \/ (KeepAlive /\ SendKeepAlive)
    /\ IF AllClientsClosed THEN DeleteRequestProcessors ELSE UNCHANGED processors
    /\ loop' = "idle"
    /\ UNCHANGED <<clientVars, requestVars, recipients, listening, shuttingDown,
                   allDisconnected, presses, countVars>>

AfterSendKeepAlive ==
    /\ loop = "idle"
    /\ keepAlive = "done"
    /\ keepAlive' = "none"
    /\ UNCHANGED <<clientVars, requestVars, recipients, shutdownVars, countVars, loop>>

-------------------------------------------------------------------------------
(* Threads                                                                   *)

\* request_processing_thread looks its processor up; during a shutdown it does not
\* call ProcessRequest.
StartRequest(c) ==
    /\ request[c] = "queued" /\ ThreadFree
    /\ request' = [request EXCEPT ![c] =
          IF processors = "deleted" THEN "done"
          ELSE IF shuttingDown THEN "holding" ELSE "processing"]
    /\ UNCHANGED <<clientVars, deferred, failed, aliveVars, shutdownVars, countVars, loop>>

\* IncreaseCountForClient succeeds, and a queue has room.
AcceptsResponse(c) == life[c] = "pool" /\ c \notin marked /\ pending[c] < MaxPending

\* SendResponse to the client c by the request of the client from, or by its disconnection.
SendResponse(from, c) ==
    /\ request[from] = "processing" \/ life[from] = "running"
    /\ AcceptsResponse(c)
    /\ pending' = [pending EXCEPT ![c] = @ + 1]
    /\ UNCHANGED <<life, marked, reading, versioned, requestVars, aliveVars, shutdownVars,
                   countVars, loop>>

\* The end of request_processing_thread.
FinishRequest(c, defers, oom) ==
    /\ request[c] \in {"processing", "holding"}
    /\ defers \/ oom => request[c] = "processing"
    /\ oom => "thread" \in OutOfMemory
    /\ request' = [request EXCEPT ![c] = "done"]
    /\ deferred' = IF defers THEN deferred \cup {c} ELSE deferred
    /\ failed' = IF oom THEN failed \cup {c} ELSE failed
    /\ UNCHANGED <<clientVars, aliveVars, shutdownVars, countVars, loop>>

\* disconnection_processing_thread: without a version there is nothing to do.
StartDisconnection(c) ==
    /\ life[c] = "queued" /\ ThreadFree
    /\ life' = [life EXCEPT ![c] =
          IF c \in versioned /\ processors = "active" THEN "running" ELSE "processed"]
    /\ UNCHANGED <<marked, reading, versioned, pending, requestVars, aliveVars, shutdownVars,
                   countVars, loop>>

FinishDisconnection(c) ==
    /\ life[c] = "running"
    /\ life' = [life EXCEPT ![c] = "processed"]
    /\ UNCHANGED <<marked, reading, versioned, pending, requestVars, aliveVars, shutdownVars,
                   countVars, loop>>

\* send_keepalive_thread: GetIdleClients ...
StartKeepAlive ==
    /\ keepAlive = "queued" /\ ThreadFree
    /\ \E idle \in SUBSET {c \in Pool : request[c] = "none" /\ pending[c] = 0} :
          recipients' = idle
    /\ keepAlive' = "sending"
    /\ UNCHANGED <<clientVars, requestVars, shutdownVars, countVars, loop>>

\* ... SendResponse to one of them ...
SendKeepAliveTo(c) ==
    /\ keepAlive = "sending" /\ c \in recipients
    /\ recipients' = recipients \ {c}
    /\ pending' = IF AcceptsResponse(c) THEN [pending EXCEPT ![c] = @ + 1] ELSE pending
    /\ UNCHANGED <<life, marked, reading, versioned, requestVars, keepAlive, shutdownVars,
                   countVars, loop>>

\* ... and its end.
FinishKeepAlive ==
    /\ keepAlive = "sending" /\ recipients = {}
    /\ keepAlive' = "done"
    /\ UNCHANGED <<clientVars, requestVars, recipients, shutdownVars, countVars, loop>>

-------------------------------------------------------------------------------
AfterSend(c) == \E n \in 1..MaxPending, ok \in BOOLEAN : AfterSendResponses(c, n, ok)

EndRequest(c) == \E defers, oom \in BOOLEAN : FinishRequest(c, defers, oom)

ClientNext(c) ==
    \/ OnNewClient(c) \/ RefuseClient(c)
    \/ CreateRequestAndQueue(c) \/ RequestOutOfMemory(c) \/ OnReadError(c)
    \/ AfterRequestProcessing(c)
    \/ SendFatalResponse(c) \/ AfterSend(c)
    \/ AfterDisconnectionProcessing(c) \/ OnClientClosed(c)
    \/ StartRequest(c) \/ EndRequest(c)
    \/ \E from \in Clients : SendResponse(from, c)
    \/ StartDisconnection(c) \/ FinishDisconnection(c)
    \/ SendKeepAliveTo(c)

Next ==
    \/ \E c \in Clients : ClientNext(c)
    \/ InitiateServerShutdown \/ OnServerStopped
    \/ DoPeriodicActivities
    \/ AfterSendKeepAlive \/ StartKeepAlive \/ FinishKeepAlive

Spec == Init /\ [][Next]_vars

\* The event loop serves the timer and every callback that is due, libuv's pool takes
\* up work in order, ProcessRequest and ProcessDisconnection return, and uv_write
\* completes.  Clients and the operator need not do anything.
Fairness ==
    /\ WF_vars(DoPeriodicActivities) /\ SF_vars(OnServerStopped)
    /\ \A c \in Clients :
          /\ SF_vars(StartRequest(c)) /\ WF_vars(EndRequest(c))
          /\ SF_vars(AfterRequestProcessing(c))
          /\ SF_vars(AfterSend(c))
          /\ SF_vars(StartDisconnection(c)) /\ WF_vars(FinishDisconnection(c))
          /\ SF_vars(AfterDisconnectionProcessing(c))
          /\ SF_vars(OnClientClosed(c))

FairSpec == Spec /\ Fairness

-------------------------------------------------------------------------------
(* Properties                                                                *)

\* The disconnections a shutdown counts are those queued or being processed, and the
\* handles it waits for those being closed: no disconnection is queued twice.
DisconnectionsAccounted ==
    /\ ShutdownTypeOK
    /\ queuedDisconnections
         = Cardinality({c \in Clients : life[c] \in {"queued", "running", "processed"}})
    /\ clientsClosing = Cardinality({c \in Clients : life[c] = "closing"})

\* A request and a response refer to a client of the pool: none is left behind when
\* RemoveClient lets the client go, so that no thread uses a deleted stClient.
WorkHasClient ==
    \A c \in Clients : request[c] # "none" \/ pending[c] > 0 => life[c] = "pool"

\* The comment in DoPeriodicActivities: "we must delete processors only after we close
\* all clients".  Then no request or disconnection uses a processor either.
ProcessorsDeletedLast ==
    processors = "deleted" =>
        \A c \in Clients : life[c] \in {"unborn", "deleted"} /\ request[c] = "none"

\* A shutdown gets as far as deleting the request processors, whatever requests,
\* responses and disconnections are on their way.
ShutdownProceeds == shuttingDown ~> processors = "deleted"
===============================================================================
