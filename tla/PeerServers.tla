------------------------------ MODULE PeerServers ------------------------------
(***************************************************************************)
(* PeerServersManager: responses forwarded to other servers, the life of   *)
(* the connection to each of them, and the part of a shutdown that closes  *)
(* these connections.                                                      *)
(*                                                                         *)
(* A thread adds a forwarded response to one queue of one server; it does  *)
(* so holding the direction lock and the queue lock, so that for the event *)
(* loop it is one step.  Everything else runs on the event loop: loop is   *)
(* the place where it stands.  DoPeriodicActivities ("periodic", "sending" *)
(* and "checking") also runs in the middle of on_read, after each          *)
(* acknowledgement that sets the status; acks counts those of the buffer   *)
(* that on_read has still to process.                                      *)
(*                                                                         *)
(* On Windows no libuv error code is -1: the branches for a result of -1   *)
(* of uv_getaddrinfo, uv_tcp_connect and uv_read_start are never taken,    *)
(* and such an error goes unnoticed.                                       *)
(***************************************************************************)
EXTENDS Integers, FiniteSets

CONSTANTS
    Servers,      \* peer servers
    Responses,    \* responses that are forwarded, each created at most once
    MaxAcks,      \* bound: acknowledgements one read may bring
    Failures,     \* what may fail: "lookup" (reported to after_getaddrinfo), and at once the
                  \* calls that "resolve", "connect", set an option ("setsockopt") and "write"
    OutOfMemory   \* where std::bad_alloc may be thrown: in a "thread", in the "loop"

ASSUME PeerServersAssumption ==
    /\ IsFiniteSet(Servers) /\ IsFiniteSet(Responses)
    /\ MaxAcks \in Nat \ {0}
    /\ Failures \subseteq {"lookup", "resolve", "connect", "setsockopt", "write"}
    /\ OutOfMemory \subseteq {"thread", "loop"}

VARIABLES
    status,            \* stPeerServer::Status
    handle,            \* "none", "resolving", "connecting", "open" or "closing"
    reads,             \* has uv_read_start been called on the connection?
    connectLate,       \* WAIT_FOR_CONNECTION has passed since ConnectingTime
    retryDue,          \* RETRY_CONNECTION_AFTER has passed since DisconnectedTime
    cooling,           \* 0 when RETRY_CONNECTION_AFTER has really passed since the last failure
    forwarded,         \* ResponsesForwarded
    wire,              \* responses written and not acknowledged by the peer yet
    serversConnecting, \* m_ServersConnecting
    serversConnected,  \* m_ServersConnected
    serversClosing,    \* m_ServersClosing
    direction,         \* the queue the threads fill
    queue,             \* queue[s][d]: m_ResponsesQueue1 and 2 of a server
    receiving,         \* receiving[d]: m_RecevingServersSet1 and 2
    beingSent,         \* m_pResponsesBeingSent
    fate,              \* of a response: "unborn", "queued", "sent" or "failed"
    inQueues,          \* m_stServerStat.ResponsesInPeerServersQueues
    loop,              \* "idle", "reading", "periodic", "sending", "checking" or "stopped"
    visit,             \* the servers SendPeerServersResponses has still to look at
    reader,            \* the servers whose on_read is running
    acks,              \* the acknowledgements it has still to process
    stage              \* of the shutdown: "running", "draining", "closed" or "stopping"

connVars  == <<status, handle, reads, connectLate, retryDue, cooling, forwarded, wire>>
countVars == <<serversConnecting, serversConnected, serversClosing>>
queueVars == <<queue, receiving, beingSent, fate, inQueues>>
loopVars  == <<direction, loop, visit, reader, acks, stage>>
vars      == <<connVars, countVars, queueVars, loopVars>>

Directions == {1, 2}
Other(d)   == 3 - d
Unlocked   == Other(direction)

\* Every variable has the type of the field it models.
PeerTypeOK ==
    /\ status \in [Servers -> {"uninitiated", "connecting", "connected",
                               "disconnecting", "disconnected"}]
    /\ handle \in [Servers -> {"none", "resolving", "connecting", "open", "closing"}]
    /\ reads \in [Servers -> BOOLEAN]
    /\ connectLate \in [Servers -> BOOLEAN]
    /\ retryDue \in [Servers -> BOOLEAN]
    /\ cooling \in [Servers -> 0..3]
    /\ forwarded \in [Servers -> Int]
    /\ wire \in [Servers -> Nat]
    /\ serversConnecting \in Nat /\ serversConnected \in Int /\ serversClosing \in Nat
    /\ direction \in Directions
    /\ queue \in [Servers -> [Directions -> SUBSET Responses]]
    /\ receiving \in [Directions -> SUBSET Servers]
    /\ beingSent \in [Servers -> SUBSET Responses]
    /\ fate \in [Responses -> {"unborn", "queued", "sent", "failed"}]
    /\ inQueues \in Nat
    /\ loop \in {"idle", "reading", "periodic", "sending", "checking", "stopped"}
    /\ visit \in SUBSET Servers
    /\ reader \in SUBSET Servers
    /\ acks \in Nat
    /\ stage \in {"running", "draining", "closed", "stopping"}

Init ==
    /\ status = [s \in Servers |-> "uninitiated"]
    /\ handle = [s \in Servers |-> "none"]
    /\ reads = [s \in Servers |-> FALSE]
    /\ connectLate = [s \in Servers |-> FALSE]
    /\ retryDue = [s \in Servers |-> TRUE]
    /\ cooling = [s \in Servers |-> 0]
    /\ forwarded = [s \in Servers |-> 0]
    /\ wire = [s \in Servers |-> 0]
    /\ serversConnecting = 0 /\ serversConnected = 0 /\ serversClosing = 0
    /\ direction = 1
    /\ queue = [s \in Servers |-> [d \in Directions |-> {}]]
    /\ receiving = [d \in Directions |-> {}]
    /\ beingSent = [s \in Servers |-> {}]
    /\ fate = [r \in Responses |-> "unborn"]
    /\ inQueues = 0
    /\ loop = "idle" /\ visit = {} /\ reader = {} /\ acks = 0
    /\ stage = "running"

-------------------------------------------------------------------------------
(* Threads                                                                   *)

\* AddResponseToQueue, SetReferenceCount and AddResponseDetailsToServerStat.
AddResponseToQueue(r, s) ==
    /\ stage = "running"
    /\ fate[r] = "unborn"
    /\ queue' = [queue EXCEPT ![s][direction] = @ \cup {r}]
    /\ receiving' = [receiving EXCEPT ![direction] = @ \cup {s}]
    /\ fate' = [fate EXCEPT ![r] = "queued"]
    /\ inQueues' = inQueues + 1
    /\ UNCHANGED <<connVars, countVars, beingSent, loopVars>>

\* std::bad_alloc: the response is deleted and counts as not queued.
RefuseResponse(r) ==
    /\ stage = "running"
    /\ fate[r] = "unborn"
    /\ "thread" \in OutOfMemory
    /\ fate' = [fate EXCEPT ![r] = "failed"]
    /\ UNCHANGED <<connVars, countVars, queue, receiving, beingSent, inQueues, loopVars>>

-------------------------------------------------------------------------------
(* Event loop: connections                                                   *)

\* m_connection is set from after_connect to on_server_closed.
HasConnection(s) == handle[s] \in {"open", "closing"}

\* Mutant: the servers being disconnected are not left out.
DisconnectsAny(s) == HasConnection(s)

\* The conditions under which DisconnectServer does something.
Disconnects(s) == HasConnection(s) /\ status[s] \in {"connected", "connecting"}

\* DisconnectServer for the servers of S at once; they were connected.
DisconnectServers(S) ==
    LET D == {s \in S : Disconnects(s)} IN
    /\ status' = [s \in Servers |-> IF s \in D THEN "disconnecting" ELSE status[s]]
    /\ handle' = [s \in Servers |-> IF s \in D THEN "closing" ELSE handle[s]]
    /\ serversConnected' = serversConnected - Cardinality(D)
    /\ serversClosing' = serversClosing + Cardinality(D)

\* after_getaddrinfo: uv_tcp_connect is called.  When that call fails at once,
\* after_connect is never called.
AfterGetAddrInfo(s) ==
    /\ loop = "idle"
    /\ handle[s] = "resolving"
    /\ serversConnecting' = serversConnecting + 1
    /\ \E h \in IF "connect" \in Failures THEN {"connecting", "none"} ELSE {"connecting"} :
          handle' = [handle EXCEPT ![s] = h]
    /\ UNCHANGED <<status, reads, connectLate, retryDue, cooling, forwarded, wire,
                   serversConnected, serversClosing, queueVars, loopVars>>

\* after_getaddrinfo with an error, then DoPeriodicActivities.
GetAddrInfoFails(s) ==
    /\ loop = "idle"
    /\ "lookup" \in Failures
    /\ handle[s] = "resolving"
    /\ handle' = [handle EXCEPT ![s] = "none"]
    /\ status' = [status EXCEPT ![s] = "disconnected"]
    /\ cooling' = [cooling EXCEPT ![s] = 3]
    /\ loop' = "periodic"
    /\ UNCHANGED <<reads, connectLate, retryDue, forwarded, wire, countVars, queueVars,
                   direction, visit, reader, acks, stage>>

\* after_connect: when setsockopt fails, the handler returns at once.
AfterConnect(s) ==
    /\ loop = "idle"
    /\ handle[s] = "connecting"
    /\ handle' = [handle EXCEPT ![s] = "open"]
    /\ status' = [status EXCEPT ![s] = "connected"]
    /\ serversConnecting' = serversConnecting - 1
    /\ \/ /\ serversConnected' = serversConnected + 1
          /\ reads' = [reads EXCEPT ![s] = TRUE]
          /\ loop' = "periodic"
       \/ /\ "setsockopt" \in Failures
          /\ UNCHANGED <<serversConnected, reads, loop>>
    /\ UNCHANGED <<connectLate, retryDue, cooling, forwarded, wire, serversClosing,
                   queueVars, direction, visit, reader, acks, stage>>

\* after_connect with an error: the handle is closed.
ConnectFails(s) ==
    /\ loop = "idle"
    /\ handle[s] = "connecting"
    /\ handle' = [handle EXCEPT ![s] = "closing"]
    /\ status' = [status EXCEPT ![s] = "disconnecting"]
    /\ serversConnecting' = serversConnecting - 1
    /\ serversClosing' = serversClosing + 1
    /\ UNCHANGED <<reads, connectLate, retryDue, cooling, forwarded, wire,
                   serversConnected, queueVars, loopVars>>

\* Mutant: the count of unacknowledged responses survives the connection.
KeepForwarded(s) == UNCHANGED forwarded

\* A new connection starts with nothing to acknowledge.
ResetForwarded(s) == forwarded' = [forwarded EXCEPT ![s] = 0]

\* on_server_closed, then DoPeriodicActivities.  libuv has completed the write by now.
OnServerClosed(s) ==
    /\ loop = "idle"
    /\ handle[s] = "closing" /\ beingSent[s] = {}
    /\ handle' = [handle EXCEPT ![s] = "none"]
    /\ status' = [status EXCEPT ![s] = "disconnected"]
    /\ reads' = [reads EXCEPT ![s] = FALSE]
    /\ retryDue' = [retryDue EXCEPT ![s] = FALSE]
    /\ cooling' = [cooling EXCEPT ![s] = 3]
    /\ ResetForwarded(s)
    /\ wire' = [wire EXCEPT ![s] = 0]
    /\ serversClosing' = serversClosing - 1
    /\ loop' = "periodic"
    /\ UNCHANGED <<connectLate, serversConnecting, serversConnected, queueVars,
                   direction, visit, reader, acks, stage>>

\* on_read reports an error.
OnReadError(s) ==
    /\ loop = "idle"
    /\ handle[s] = "open" /\ reads[s]
    /\ DisconnectServers({s})
    /\ UNCHANGED <<reads, connectLate, retryDue, cooling, forwarded, wire,
                   serversConnecting, queueVars, loopVars>>

\* on_read brings n acknowledgements.
OnRead(s, n) ==
    /\ loop = "idle"
    /\ handle[s] = "open" /\ reads[s]
    /\ n <= wire[s]
    /\ wire' = [wire EXCEPT ![s] = @ - n]
    /\ reader' = {s}
    /\ acks' = n
    /\ loop' = "reading"
    /\ UNCHANGED <<status, handle, reads, connectLate, retryDue, cooling, forwarded,
                   countVars, queueVars, direction, visit, stage>>

\* Mutant: the status is set by every acknowledgement.
AnythingAcknowledged(n) == TRUE

\* n responses are still to be acknowledged: does the status become CONNECTED?
AllAcknowledged(n) == n < 1

\* ProcessResponse for one acknowledgement.
ProcessAcknowledgement(s) ==
    /\ loop = "reading"
    /\ s \in reader
    /\ forwarded' = [forwarded EXCEPT ![s] = @ - 1]
    /\ acks' = acks - 1
    /\ \/ /\ AllAcknowledged(forwarded[s] - 1)
          /\ status' = [status EXCEPT ![s] = "connected"]
          /\ loop' = "periodic"
       \/ /\ ~AllAcknowledged(forwarded[s] - 1)
          /\ loop' = IF acks > 1 THEN "reading" ELSE "idle"
          /\ UNCHANGED status
    /\ UNCHANGED <<handle, reads, connectLate, retryDue, cooling, wire,
                   countVars, queueVars, direction, visit, reader, stage>>

\* Time passes: WAIT_FOR_CONNECTION since ConnectingTime ...
ConnectingTimesOut(s) ==
    /\ loop = "idle"
    /\ status[s] = "connecting" /\ ~connectLate[s]
    /\ connectLate' = [connectLate EXCEPT ![s] = TRUE]
    /\ UNCHANGED <<status, handle, reads, retryDue, cooling, forwarded, wire,
                   countVars, queueVars, loopVars>>

\* ... and RETRY_CONNECTION_AFTER (30 s) since DisconnectedTime, in which the timer
\* (201 ms) has both queues looked at.
RetryBecomesDue(s) ==
    /\ loop = "idle"
    /\ cooling[s] = 1 /\ status[s] = "disconnected"
    /\ retryDue' = [retryDue EXCEPT ![s] = TRUE]
    /\ cooling' = [cooling EXCEPT ![s] = 0]
    /\ UNCHANGED <<status, handle, reads, connectLate, forwarded, wire,
                   countVars, queueVars, loopVars>>

-------------------------------------------------------------------------------
(* Event loop: SendPeerServersResponses                                      *)

\* One more call of DoPeriodicActivities since a connection failed.
Tick ==
    /\ cooling' = [s \in Servers |-> IF cooling[s] > 1 THEN cooling[s] - 1 ELSE cooling[s]]
    /\ UNCHANGED <<status, handle, reads, connectLate, retryDue, forwarded, wire>>

\* DoPeriodicActivities without and with responses to send; those for local clients
\* count as well.
NothingToSend ==
    /\ loop \in {"idle", "periodic"}
    /\ inQueues = 0
    /\ loop' = "checking"
    /\ Tick
    /\ UNCHANGED <<countVars, queueVars, direction, visit, reader, acks, stage>>

ToggleDirection ==
    /\ loop \in {"idle", "periodic"}
    /\ direction' = Other(direction)
    /\ visit' = receiving[direction]
    /\ loop' = "sending"
    /\ Tick
    /\ UNCHANGED <<countVars, queueVars, reader, acks, stage>>

\* GetServerConnection starts a connection for this server.
ConnectionNeeded(s) ==
    status[s] = "uninitiated" \/ (status[s] = "disconnected" /\ retryDue[s])

\* InitiateConnection: the server keeps its place in the set.  An error of
\* uv_getaddrinfo goes unnoticed.
InitiateConnection(s) ==
    /\ loop = "sending" /\ s \in visit
    /\ ConnectionNeeded(s)
    /\ status' = [status EXCEPT ![s] = "connecting"]
    /\ connectLate' = [connectLate EXCEPT ![s] = FALSE]
    /\ \/ handle' = [handle EXCEPT ![s] = "resolving"]
       \/ /\ "resolve" \in Failures
          /\ UNCHANGED handle
    /\ visit' = visit \ {s}
    /\ UNCHANGED <<reads, retryDue, cooling, forwarded, wire, countVars, queueVars,
                   direction, loop, reader, acks, stage>>

\* Mutant: a connection attempt is waited for however long it takes.
Connecting(s) == status[s] = "connecting"

\* GetServerConnection returns CONNECTION_CONNECTING: connecting, but not for too long.
WaitsForConnection(s) == status[s] = "connecting" /\ ~connectLate[s]

\* The responses stay in the queue.
WaitForConnection(s) ==
    /\ loop = "sending" /\ s \in visit
    /\ WaitsForConnection(s)
    /\ visit' = visit \ {s}
    /\ UNCHANGED <<connVars, countVars, queueVars, direction, loop, reader, acks, stage>>

\* GetServerConnection returns a status other than CONNECTION_CONNECTING.
Decided(s) ==
    \/ status[s] \in {"connected", "disconnecting"}
    \/ status[s] = "connecting" /\ ~WaitsForConnection(s)
    \/ status[s] = "disconnected" /\ ~retryDue[s]

\* Mutant: the server is not erased.
StayInUnlockedSet(s) == receiving' = receiving

\* pServersSet->erase(current)
LeaveUnlockedSet(s) == receiving' = [receiving EXCEPT ![Unlocked] = @ \ {s}]

\* The previous batch is still being written: the server leaves the set.
SkipServer(s) ==
    /\ loop = "sending" /\ s \in visit
    /\ Decided(s)
    /\ beingSent[s] # {}
    /\ LeaveUnlockedSet(s)
    /\ visit' = visit \ {s}
    /\ UNCHANGED <<connVars, countVars, queue, beingSent, fate, inQueues,
                   direction, loop, reader, acks, stage>>

\* The batch cannot be reserved: the server keeps its place in the set.
ReserveFails(s) ==
    /\ loop = "sending" /\ s \in visit
    /\ Decided(s)
    /\ beingSent[s] = {} /\ "loop" \in OutOfMemory
    /\ visit' = visit \ {s}
    /\ UNCHANGED <<connVars, countVars, queueVars, direction, loop, reader, acks, stage>>

\* uv_write accepts the whole queue.
WriteBatch(s) ==
    /\ loop = "sending" /\ s \in visit
    /\ status[s] = "connected" /\ handle[s] = "open"
    /\ beingSent[s] = {}
    /\ beingSent' = [beingSent EXCEPT ![s] = queue[s][Unlocked]]
    /\ wire' = [wire EXCEPT ![s] = @ + Cardinality(queue[s][Unlocked])]
    /\ queue' = [queue EXCEPT ![s][Unlocked] = {}]
    /\ LeaveUnlockedSet(s)
    /\ visit' = visit \ {s}
    /\ UNCHANGED <<status, handle, reads, connectLate, retryDue, cooling, forwarded,
                   countVars, fate, inQueues, direction, loop, reader, acks, stage>>

\* Mutant: only responses that were sent are counted down.
FinishSent(batch, result) ==
    /\ fate' = [r \in Responses |-> IF r \in batch THEN result ELSE fate[r]]
    /\ inQueues' = IF result = "sent" THEN inQueues - Cardinality(batch) ELSE inQueues

\* AfterSendingResponse: every response of the batch is deleted.
FinishBatch(batch, result) ==
    /\ fate' = [r \in Responses |-> IF r \in batch THEN result ELSE fate[r]]
    /\ inQueues' = inQueues - Cardinality(batch)

\* Mutant: the server is erased from every set after the batch failed.
LeaveBothSets(s, erased) ==
    receiving' = [d \in Directions |-> receiving[d] \ {s}]

\* After a batch the server goes back to the sets whose queue holds responses for
\* it, memory permitting, and is erased from the sets in erased.
BackToSets(s, erased) ==
    \E failed \in SUBSET Directions :
       /\ failed # {} => "loop" \in OutOfMemory
       /\ receiving' = [d \in Directions |->
              IF d \in erased THEN receiving[d] \ {s}
              ELSE IF queue'[s][d] # {} /\ d \notin failed THEN receiving[d] \cup {s}
              ELSE receiving[d]]

\* The responses of the unlocked queue of s are failed inside SendPeerServersResponses.
FailQueue(s) ==
    /\ FinishBatch(queue[s][Unlocked], "failed")
    /\ queue' = [queue EXCEPT ![s][Unlocked] = {}]
    /\ BackToSets(s, {Unlocked})
    /\ visit' = visit \ {s}
    /\ UNCHANGED <<beingSent, direction, loop, reader, acks, stage>>

\* There is no connection, or uv_write fails at once (as it does on a closing handle).
FailBatch(s) ==
    /\ loop = "sending" /\ s \in visit
    /\ Decided(s)
    /\ beingSent[s] = {}
    /\ status[s] = "connected" => handle[s] = "closing" \/ "write" \in Failures
    /\ FailQueue(s)
    /\ DisconnectServers({s})
    /\ UNCHANGED <<reads, connectLate, retryDue, cooling, forwarded, wire, serversConnecting>>

\* InitiateConnection cannot allocate: the status is CONNECTION_DISCONNECTED.
ConnectionOutOfMemory(s) ==
    /\ loop = "sending" /\ s \in visit
    /\ ConnectionNeeded(s) /\ "loop" \in OutOfMemory
    /\ beingSent[s] = {}
    /\ status' = [status EXCEPT ![s] = "disconnected"]
    /\ cooling' = [cooling EXCEPT ![s] = 3]
    /\ connectLate' = [connectLate EXCEPT ![s] = FALSE]
    /\ FailQueue(s)
    /\ UNCHANGED <<handle, reads, retryDue, forwarded, wire, countVars>>

SendingDone ==
    /\ loop = "sending"
    /\ visit = {}
    /\ loop' = "checking"
    /\ UNCHANGED <<connVars, countVars, queueVars, direction, visit, reader, acks, stage>>

\* IncreaseForwardedResponsesCount for the n responses of a batch.
IncreaseForwardedResponsesCount(s, n) ==
    forwarded' = IF status[s] = "connected" THEN [forwarded EXCEPT ![s] = @ + n] ELSE forwarded

\* after_send_responses as the callback of uv_write, then DoPeriodicActivities.
AfterSendResponses(s, ok) ==
    /\ loop = "idle"
    /\ beingSent[s] # {}
    /\ FinishBatch(beingSent[s], IF ok THEN "sent" ELSE "failed")
    /\ IF ok
       THEN /\ IncreaseForwardedResponsesCount(s, Cardinality(beingSent[s]))
            /\ UNCHANGED <<status, handle, serversConnected, serversClosing>>
       ELSE /\ DisconnectServers({s})
            /\ UNCHANGED forwarded
    /\ beingSent' = [beingSent EXCEPT ![s] = {}]
    /\ queue' = queue
    /\ BackToSets(s, {})
    /\ loop' = "periodic"
    /\ UNCHANGED <<reads, connectLate, retryDue, cooling, wire, serversConnecting,
                   direction, visit, reader, acks, stage>>

-------------------------------------------------------------------------------
(* Event loop: the end of DoPeriodicActivities                               *)

\* DoPeriodicActivities returns, into on_read if that has called it.
Return == loop' = IF acks > 0 THEN "reading" ELSE "idle"

\* Mutant: connections that were made meanwhile are waited for as well.
NoServerConnected == serversClosing = 0 /\ serversConnecting = 0 /\ serversConnected = 0

\* What the shutdown waits for before it stops logger, file writer and loop.
ServersIdle == serversClosing = 0 /\ serversConnecting = 0

\* The shutdown has not come this far, or it waits.
NothingToClose ==
    /\ loop = "checking"
    /\ \/ stage \in {"running", "stopping"}
       \/ inQueues # 0
       \/ stage = "closed" /\ ~ServersIdle
    /\ Return
    /\ UNCHANGED <<connVars, countVars, queueVars, direction, visit, reader, acks, stage>>

\* All clients are gone: the request processors are deleted, so that no thread
\* creates responses any more.
DeleteRequestProcessors ==
    /\ loop = "checking"
    /\ stage = "running" /\ inQueues = 0
    /\ stage' = "draining"
    /\ Return
    /\ UNCHANGED <<connVars, countVars, queueVars, direction, visit, reader, acks>>

DisconnectAndCloseAllConnections ==
    /\ loop = "checking"
    /\ stage = "draining" /\ inQueues = 0
    /\ DisconnectServers(Servers)
    /\ stage' = "closed"
    /\ Return
    /\ UNCHANGED <<reads, connectLate, retryDue, cooling, forwarded, wire,
                   serversConnecting, queueVars, direction, visit, reader, acks>>

\* Logger and file writer have stopped; the console handle is closed ...
StopLogger ==
    /\ loop = "checking"
    /\ stage = "closed" /\ inQueues = 0 /\ ServersIdle
    /\ stage' = "stopping"
    /\ Return
    /\ UNCHANGED <<connVars, countVars, queueVars, direction, visit, reader, acks>>

\* ... and, when the timer is closed too, uv_stop ends the event loop.
Shutdown ==
    /\ loop = "idle"
    /\ stage = "stopping"
    /\ loop' = "stopped"
    /\ UNCHANGED <<connVars, countVars, queueVars, direction, visit, reader, acks, stage>>

-------------------------------------------------------------------------------
SendToServer(s) ==
    \/ InitiateConnection(s) \/ ConnectionOutOfMemory(s) \/ WaitForConnection(s)
    \/ SkipServer(s) \/ ReserveFails(s) \/ WriteBatch(s) \/ FailBatch(s)

ServerNext(s) ==
    \/ AfterGetAddrInfo(s) \/ GetAddrInfoFails(s)
    \/ AfterConnect(s) \/ ConnectFails(s)
    \/ OnServerClosed(s) \/ OnReadError(s)
    \/ \E n \in 1..MaxAcks : OnRead(s, n)
    \/ ProcessAcknowledgement(s)
    \/ ConnectingTimesOut(s) \/ RetryBecomesDue(s)
    \/ SendToServer(s)
    \/ \E ok \in BOOLEAN : AfterSendResponses(s, ok)

Checking ==
    \/ NothingToClose \/ DeleteRequestProcessors
    \/ DisconnectAndCloseAllConnections \/ StopLogger

Next ==
    \/ \E r \in Responses : RefuseResponse(r)
    \/ \E r \in Responses, s \in Servers : AddResponseToQueue(r, s)
    \/ \E s \in Servers : ServerNext(s)
    \/ NothingToSend \/ ToggleDirection \/ SendingDone
    \/ Checking
    \/ Shutdown

Spec == Init /\ [][Next]_vars

\* The event loop keeps running, every callback that is due is served, and time
\* passes.  That a handle closes and that a write and a connection attempt end, one
\* way or the other, is assumed of libuv; an open connection may stay open.
Fairness ==
    /\ SF_vars(ToggleDirection)
    /\ WF_vars(SendingDone) /\ WF_vars(Checking) /\ SF_vars(Shutdown) /\ SF_vars(StopLogger)
    /\ SF_vars(DisconnectAndCloseAllConnections)
    /\ \A s \in Servers :
          /\ WF_vars(SendToServer(s))
          /\ WF_vars(ProcessAcknowledgement(s))
          /\ SF_vars(AfterGetAddrInfo(s) \/ GetAddrInfoFails(s))
          /\ SF_vars(AfterConnect(s) \/ ConnectFails(s))
          /\ SF_vars(\E ok \in BOOLEAN : AfterSendResponses(s, ok))
          /\ SF_vars(OnServerClosed(s))
          /\ SF_vars(ConnectingTimesOut(s))

FairSpec == Spec /\ Fairness

-------------------------------------------------------------------------------
(* Properties                                                                *)

\* The servers whose handle is in the state h.
InState(h) == {s \in Servers : handle[s] = h}

\* The counters a shutdown waits for, and the one that is reported, are the numbers
\* of connection attempts, of handles being closed and of connections that are read;
\* so uv_close is called once for each handle.
ConnectionCountersExact ==
    /\ PeerTypeOK
    /\ serversConnecting = Cardinality(InState("connecting"))
    /\ serversClosing = Cardinality(InState("closing"))
    /\ serversConnected = Cardinality(InState("open"))

\* A response that counts in ResponsesInPeerServersQueues is in exactly one queue or
\* batch; GetResponsesInQueue, which lets a shutdown proceed, is exact.
ForwardedResponsesAccounted ==
    /\ inQueues = Cardinality({r \in Responses : fate[r] = "queued"})
    /\ \A r \in Responses :
          Cardinality({s \in Servers : r \in beingSent[s]})
            + Cardinality({x \in Servers \X Directions : r \in queue[x[1]][x[2]]})
          = IF fate[r] = "queued" THEN 1 ELSE 0

\* Sets and queues belong together.  A server is in a receiving set only while the queue
\* of that set holds a response: ASSERT (ResponseQueueSize > 0) in SendPeerServersResponses.
\* A queue that holds responses is in its receiving set, or a batch is being written whose
\* completion puts the server back.
NoForwardForgotten ==
    /\ \A d \in Directions : \A s \in receiving[d] : queue[s][d] # {}
    /\ visit \subseteq receiving[Unlocked]
    /\ \A s \in Servers, d \in Directions :
          queue[s][d] # {} => s \in receiving[d] \/ beingSent[s] # {}

\* On a connection, ResponsesForwarded and the batch being written are the responses
\* whose acknowledgement has not been processed, however acknowledgements and write
\* callbacks overtake each other.
AcknowledgementsAccounted ==
    \A s \in Servers : status[s] = "connected" /\ handle[s] = "open" =>
        forwarded[s] + Cardinality(beingSent[s])
          = wire[s] + (IF s \in reader /\ loop # "idle" THEN acks ELSE 0)

\* The comment at the head of PeerServersManager.cpp: when a server disconnects, "it
\* should change status to DISCONNECTING and only after closing handle change it to
\* DISCONNECTED".
DisconnectingUntilClosed ==
    [][\A s \in Servers : status[s] = "disconnecting" =>
          status'[s] = "disconnecting" \/ (handle'[s] = "none" /\ status'[s] = "disconnected")]_vars

\* A queued response is eventually sent or failed, even when the peer never answers.
ForwardedResponsesFinished ==
    \A r \in Responses : fate[r] = "queued" ~> fate[r] \in {"sent", "failed"}

\* Once the connections have been told to close, the event loop eventually stops.
ShutdownCompletes == stage = "closed" ~> loop = "stopped"
===============================================================================
