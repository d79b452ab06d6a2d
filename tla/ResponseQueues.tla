---------------------------- MODULE ResponseQueues ----------------------------
(***************************************************************************)
(* How responses travel from the worker threads of the pool to the sockets *)
(* of locally connected clients, and when a client may be disconnected.    *)
(*                                                                         *)
(* Every client owns two response queues.  m_bResponseDirectionFlag says   *)
(* which one the threads fill; the event loop toggles the flag under the   *)
(* write lock m_rwlResponseDirectionFlagLock and then drains the other     *)
(* queue without any lock.  A thread keeps the read side of that lock from *)
(* the first queue it adds a response to until the reference count of the  *)
(* response has been set.  A client leaves the pool only when it has no    *)
(* pending request or response, and the event loop looks at those counters *)
(* only when no thread is between IncreaseCountForClient and the end of    *)
(* AddResponseToQueue (m_rwlWaitTillResponseForClientIsBeingAdded).        *)
(*                                                                         *)
(* The event loop is one thread: loop is the place where it stands inside  *)
(* the handler it runs.  A handler is split only where another thread can  *)
(* tell the difference: at the write lock of the toggle, between the       *)
(* clients of SendLocalClientsResponses, and at the write lock inside      *)
(* DisconnectAndDelete.                                                    *)
(***************************************************************************)
EXTENDS Integers, Sequences, FiniteSets, Functions

CONSTANTS
    Clients,              \* stClient objects, all accepted and in the pool at first
    Threads,              \* pool threads that create responses
    Responses,            \* Response objects, each created at most once
    Fatal,                \* the responses of type RESPONSE_FATAL_ERROR
    MaxPendingResponses,  \* CommonParameters.MaxPendingResponses
    WriteMayFailAtOnce,   \* may uv_write itself return an error?  (never on Windows)
    OutOfMemory,          \* where std::bad_alloc may be thrown: in a "thread", in the "loop"
    None                  \* no client

ASSUME ResponseQueuesAssumption ==
    /\ IsFiniteSet(Clients) /\ IsFiniteSet(Threads) /\ IsFiniteSet(Responses)
    /\ Fatal \subseteq Responses
    /\ MaxPendingResponses \in Nat
    /\ WriteMayFailAtOnce \in BOOLEAN
    /\ OutOfMemory \subseteq {"thread", "loop"}
    /\ None \notin Clients
    /\ None \notin Responses

VARIABLES
    direction,   \* the queue the threads fill: 1 is m_bResponseDirectionFlag TRUE
    queue,       \* queue[c][d]: m_ResponsesQueue1 and 2, oldest response first
    receiving,   \* receiving[d]: m_RecevingClientsSet1 and 2
    beingSent,   \* m_pResponsesBeingSent, the batch handed to uv_write
    count,       \* m_LockRequestsResponses.Responses
    processing,  \* m_bRequestIsBeingProcessed (and m_LockRequestsResponses.Requests = 1)
    marked,      \* m_bToBeDisconnected
    reading,     \* m_bIsReadStarted
    life,        \* "pool", then "disconnecting", "closing" and "deleted"
    state,       \* of a response: "unborn", "adding", "queued" or "deleted"
    refs,        \* Response::SetReferenceCount
    sentCount,   \* Response::ResponseSentCount
    inQueues,    \* m_stServerStat.ResponsesInLocalClientsQueues
    pc,          \* where a thread stands in AddResponseToQueues
    adding,      \* the response it adds
    todo,        \* the clients it has not tried yet
    current,     \* the client it holds the wait lock for
    added,       \* its ResponseReferenceCount so far
    loop,        \* where the event loop stands: "idle", "periodic", "sending", "removing"
    loopClient,  \* the client DisconnectAndDelete runs for
    loopNext     \* where the event loop goes when DisconnectAndDelete returns

clientVars   == <<queue, receiving, beingSent, count, processing, marked, reading, life>>
responseVars == <<state, refs, sentCount, inQueues>>
threadVars   == <<pc, adding, todo, current, added>>
loopVars     == <<direction, loop, loopClient, loopNext>>
vars         == <<clientVars, responseVars, threadVars, loopVars>>

Directions  == {1, 2}
Other(d)    == 3 - d
Unlocked    == Other(direction)   \* the queue the event loop may touch without a lock

ClientTypeOK ==
    /\ queue \in [Clients -> [Directions -> Seq(Responses)]]
    /\ receiving \in [Directions -> SUBSET Clients]
    /\ beingSent \in [Clients -> Seq(Responses)]
    /\ count \in [Clients -> Int]
    /\ processing \in [Clients -> BOOLEAN]
    /\ marked \in [Clients -> BOOLEAN]
    /\ reading \in [Clients -> BOOLEAN]
    /\ life \in [Clients -> {"pool", "disconnecting", "closing", "deleted"}]

ResponseTypeOK ==
    /\ state \in [Responses -> {"unborn", "adding", "queued", "deleted"}]
    /\ refs \in [Responses -> Nat]
    /\ sentCount \in [Responses -> Nat]
    /\ inQueues \in Int

ThreadTypeOK ==
    /\ pc \in [Threads -> {"idle", "next", "queueing", "undoing"}]
    /\ adding \in [Threads -> Responses \cup {None}]
    /\ todo \in [Threads -> SUBSET Clients]
    /\ current \in [Threads -> Clients \cup {None}]
    /\ added \in [Threads -> Nat]

LoopTypeOK ==
    /\ direction \in Directions
    /\ loop \in {"idle", "periodic", "sending", "removing"}
    /\ loopClient \in Clients \cup {None}
    /\ loopNext \in {"idle", "periodic", "sending"}

\* Every variable has the type of the field it models; the counter of responses that
\* SetReferenceCount hands to the response is a natural number.
TypeOK == ClientTypeOK /\ ResponseTypeOK /\ ThreadTypeOK /\ LoopTypeOK

Init ==
    /\ direction = 1
    /\ queue = [c \in Clients |-> [d \in Directions |-> <<>>]]
    /\ receiving = [d \in Directions |-> {}]
    /\ beingSent = [c \in Clients |-> <<>>]
    /\ count = [c \in Clients |-> 0]
    /\ processing = [c \in Clients |-> FALSE]
    /\ marked = [c \in Clients |-> FALSE]
    /\ reading = [c \in Clients |-> TRUE]
    /\ life = [c \in Clients |-> "pool"]
    /\ state = [r \in Responses |-> "unborn"]
    /\ refs = [r \in Responses |-> 0]
    /\ sentCount = [r \in Responses |-> 0]
    /\ inQueues = 0
    /\ pc = [t \in Threads |-> "idle"]
    /\ adding = [t \in Threads |-> None]
    /\ todo = [t \in Threads |-> {}]
    /\ current = [t \in Threads |-> None]
    /\ added = [t \in Threads |-> 0]
    /\ loop = "idle"
    /\ loopClient = None
    /\ loopNext = "idle"

-------------------------------------------------------------------------------
(* Threads: ConnectionsManager::AddResponseToQueues                          *)

\* Mutant: the direction lock is not taken.
NoDirectionLock(t) == FALSE

\* The thread holds m_rwlResponseDirectionFlagLock for reading.
HoldsDirectionLock(t) == pc[t] # "idle"

\* The thread holds m_rwlWaitTillResponseForClientIsBeingAdded for reading.
HoldsWaitLock(t) == pc[t] \in {"queueing", "undoing"}

\* A response is created for some clients and the direction lock is taken.  The
\* handles may name clients that have left the pool since they were obtained.
CreateResponse(t, r, targets) ==
    /\ pc[t] = "idle"
    /\ state[r] = "unborn"
    /\ state' = [state EXCEPT ![r] = "adding"]
    /\ pc' = [pc EXCEPT ![t] = "next"]
    /\ adding' = [adding EXCEPT ![t] = r]
    /\ todo' = [todo EXCEPT ![t] = targets]
    /\ added' = [added EXCEPT ![t] = 0]
    /\ UNCHANGED <<clientVars, refs, sentCount, inQueues, current, loopVars>>

\* The wait lock is taken; a client that is in the pool and not marked gets its
\* counter increased, any other client is skipped and the lock released.
IncreaseCountForClient(t, c) ==
    /\ pc[t] = "next"
    /\ c \in todo[t]
    /\ todo' = [todo EXCEPT ![t] = @ \ {c}]
    /\ \/ /\ life[c] = "pool" /\ ~marked[c]
          /\ count' = [count EXCEPT ![c] = @ + 1]
          /\ pc' = [pc EXCEPT ![t] = "queueing"]
          /\ current' = [current EXCEPT ![t] = c]
       \/ /\ life[c] # "pool" \/ marked[c]
          /\ UNCHANGED <<count, pc, current>>
    /\ UNCHANGED <<queue, receiving, beingSent, processing, marked, reading, life,
                   responseVars, adding, added, loopVars>>

\* Half of the limit is available in one of the two queues.
HasRoom(c, d) == Len(queue[c][d]) < MaxPendingResponses \div 2

\* Under m_rwlResponsesQueueLock of the client: the response goes to the queue and
\* the client to the set, or neither does (queue full, std::bad_alloc).
AddResponseToQueue(t) ==
    /\ pc[t] = "queueing"
    /\ LET c == current[t] IN
       \/ /\ HasRoom(c, direction)
          /\ queue' = [queue EXCEPT ![c][direction] = Append(@, adding[t])]
          /\ receiving' = [receiving EXCEPT ![direction] = @ \cup {c}]
          /\ added' = [added EXCEPT ![t] = @ + 1]
          /\ pc' = [pc EXCEPT ![t] = "next"]
          /\ current' = [current EXCEPT ![t] = None]
       \/ /\ ~HasRoom(c, direction) \/ "thread" \in OutOfMemory
          /\ pc' = [pc EXCEPT ![t] = "undoing"]
          /\ UNCHANGED <<queue, receiving, added, current>>
    /\ UNCHANGED <<beingSent, count, processing, marked, reading, life,
                   responseVars, adding, todo, loopVars>>

\* Mutant: the counter stays increased when the response was refused.
KeepCountForClient(t) ==
    /\ pc[t] = "undoing"
    /\ pc' = [pc EXCEPT ![t] = "next"]
    /\ current' = [current EXCEPT ![t] = None]
    /\ UNCHANGED <<clientVars, responseVars, adding, todo, added, loopVars>>

\* Mutant: the reference count of the response is decreased as well.
DecreaseCountAndReference(t) ==
    /\ pc[t] = "undoing"
    /\ count' = [count EXCEPT ![current[t]] = @ - 1]
    /\ added' = [added EXCEPT ![t] = @ - 1]
    /\ pc' = [pc EXCEPT ![t] = "next"]
    /\ current' = [current EXCEPT ![t] = None]
    /\ UNCHANGED <<queue, receiving, beingSent, processing, marked, reading, life,
                   responseVars, adding, todo, loopVars>>

\* The response was not added: the counter is decreased and the wait lock released.
DecreaseCountForClient(t) ==
    /\ pc[t] = "undoing"
    /\ count' = [count EXCEPT ![current[t]] = @ - 1]
    /\ pc' = [pc EXCEPT ![t] = "next"]
    /\ current' = [current EXCEPT ![t] = None]
    /\ UNCHANGED <<queue, receiving, beingSent, processing, marked, reading, life,
                   responseVars, adding, todo, added, loopVars>>

\* Mutant: a response nobody took is counted too.
AddEveryResponseToServerStat(n) == inQueues' = inQueues + 1

\* AddResponseDetailsToServerStat for a response with n references.
AddResponseDetailsToServerStat(n) ==
    inQueues' = IF n = 0 THEN inQueues ELSE inQueues + 1

\* All clients were tried: the reference count is set, a response nobody took is
\* deleted, any other is counted, and the direction lock is released.
SetReferenceCount(t) ==
    /\ pc[t] = "next"
    /\ todo[t] = {}
    /\ LET r == adding[t] IN
       /\ refs' = [refs EXCEPT ![r] = added[t]]
       /\ state' = [state EXCEPT ![r] = IF added[t] = 0 THEN "deleted" ELSE "queued"]
       /\ AddResponseDetailsToServerStat(added[t])
    /\ pc' = [pc EXCEPT ![t] = "idle"]
    /\ adding' = [adding EXCEPT ![t] = None]
    /\ added' = [added EXCEPT ![t] = 0]
    /\ UNCHANGED <<clientVars, sentCount, todo, current, loopVars>>

-------------------------------------------------------------------------------
(* Event loop: disconnecting a client                                        *)

\* DisconnectAndDelete up to its write lock.  The caller has marked the client;
\* stillProcessing is the value of m_bRequestIsBeingProcessed at the call.
DisconnectAndDelete(c, stillProcessing, next) ==
    IF life[c] # "pool"
    THEN /\ loop' = next
         /\ UNCHANGED <<reading, loopClient, loopNext>>
    ELSE /\ reading' = [reading EXCEPT ![c] = FALSE]
         /\ IF stillProcessing
            THEN /\ loop' = next
                 /\ UNCHANGED <<loopClient, loopNext>>
            ELSE /\ loop' = "removing"
                 /\ loopClient' = c
                 /\ loopNext' = next

\* The handler is over, without any disconnection.
NoDisconnection(next) ==
    /\ loop' = next
    /\ UNCHANGED <<reading, loopClient, loopNext>>

\* Mutant: DisconnectAndDelete does not wait for the threads.
DoNotWaitForThreads == TRUE

\* The write side of m_rwlWaitTillResponseForClientIsBeingAdded can be taken.
NoResponseIsBeingAdded == \A t \in Threads : ~HoldsWaitLock(t)

\* Mutant: pending responses do not keep a client in the pool.
NoRequestPending(c) == ~processing[c]

\* The condition under which ClientsPool::RemoveClient erases a client.
NothingPending(c) == count[c] = 0 /\ ~processing[c]

\* The rest of DisconnectAndDelete, once no thread holds the wait lock: the client
\* leaves the pool if it has neither requests nor responses pending.
RemoveClient ==
    /\ loop = "removing"
    /\ NoResponseIsBeingAdded
    /\ LET c == loopClient IN
       life' = IF NothingPending(c)
               THEN [life EXCEPT ![c] = "disconnecting"]
               ELSE life
    /\ loop' = loopNext
    /\ loopClient' = None
    /\ UNCHANGED <<queue, receiving, beingSent, count, processing, marked, reading,
                   responseVars, threadVars, direction, loopNext>>

\* after_disconnection_processing_thread: the handle is closed ...
AfterDisconnectionProcessing(c) ==
    /\ loop = "idle"
    /\ life[c] = "disconnecting"
    /\ life' = [life EXCEPT ![c] = "closing"]
    /\ UNCHANGED <<queue, receiving, beingSent, count, processing, marked, reading,
                   responseVars, threadVars, loopVars>>

\* ... and on_client_closed deletes the client.
OnClientClosed(c) ==
    /\ loop = "idle"
    /\ life[c] = "closing"
    /\ life' = [life EXCEPT ![c] = "deleted"]
    /\ UNCHANGED <<queue, receiving, beingSent, count, processing, marked, reading,
                   responseVars, threadVars, loopVars>>

-------------------------------------------------------------------------------
(* Event loop: reading and requests                                          *)

\* on_read reports an error: the client has gone.
OnReadError(c) ==
    /\ loop = "idle"
    /\ life[c] = "pool" /\ reading[c]
    /\ marked' = [marked EXCEPT ![c] = TRUE]
    /\ DisconnectAndDelete(c, processing[c], "idle")
    /\ UNCHANGED <<queue, receiving, beingSent, count, processing, life,
                   responseVars, threadVars, direction>>

\* on_read completes a request: CreateRequestAndQueue, then DoPeriodicActivities.
\* No buffer is offered to libuv while a request of the client is processed.
CreateRequestAndQueue(c) ==
    /\ loop = "idle"
    /\ life[c] = "pool" /\ reading[c] /\ ~marked[c] /\ ~processing[c]
    /\ processing' = [processing EXCEPT ![c] = TRUE]
    /\ loop' = "periodic"
    /\ UNCHANGED <<queue, receiving, beingSent, count, marked, reading, life,
                   responseVars, threadVars, direction, loopClient, loopNext>>

\* after_request_processing_thread for a request that is not deferred.  The client
\* is marked when processing it ran out of memory.
AfterRequestProcessing(c) ==
    /\ loop = "idle"
    /\ processing[c]
    /\ processing' = [processing EXCEPT ![c] = FALSE]
    /\ \E outOfMemory \in BOOLEAN :
          /\ outOfMemory => "thread" \in OutOfMemory
          /\ marked' = [marked EXCEPT ![c] = @ \/ outOfMemory]
          /\ IF marked[c] \/ outOfMemory
             THEN DisconnectAndDelete(c, FALSE, "periodic")
             ELSE NoDisconnection("periodic")
    /\ UNCHANGED <<queue, receiving, beingSent, count, life,
                   responseVars, threadVars, direction>>

-------------------------------------------------------------------------------
(* Event loop: sending                                                       *)

\* DoPeriodicActivities when there is nothing to send.
NothingToSend ==
    /\ loop = "periodic"
    /\ inQueues = 0
    /\ loop' = "idle"
    /\ UNCHANGED <<clientVars, responseVars, threadVars, direction, loopClient, loopNext>>

\* DoPeriodicActivities, from the timer or at the end of a handler: SendResponses
\* toggles the direction flag, which needs the write side of the direction lock.
ToggleDirection ==
    /\ loop \in {"idle", "periodic"}
    /\ inQueues # 0
    /\ \A t \in Threads : ~HoldsDirectionLock(t)
    /\ direction' = Other(direction)
    /\ loop' = "sending"
    /\ UNCHANGED <<clientVars, responseVars, threadVars, loopClient, loopNext>>

\* SendLocalClientsResponses has visited every client of the set.
SendingDone ==
    /\ loop = "sending"
    /\ receiving[Unlocked] = {}
    /\ loop' = "idle"
    /\ UNCHANGED <<clientVars, responseVars, threadVars, direction, loopClient, loopNext>>

\* Mutant: the client is not erased from the set.
StayInUnlockedSet(c) == UNCHANGED receiving

\* pClientsSet->erase(current)
LeaveUnlockedSet(c) == receiving' = [receiving EXCEPT ![Unlocked] = @ \ {c}]

\* The previous batch of the client is still being written: it leaves the set.
SkipClient(c) ==
    /\ loop = "sending"
    /\ c \in receiving[Unlocked]
    /\ beingSent[c] # <<>>
    /\ LeaveUnlockedSet(c)
    /\ UNCHANGED <<queue, beingSent, count, processing, marked, reading, life,
                   responseVars, threadVars, loopVars>>

\* A FATAL_ERROR response at the front of the queue marks the client.
HeadIsFatal(c) == queue[c][Unlocked][1] \in Fatal

\* The batch is the first n responses of the unlocked queue: all of them for a
\* client that is marked, otherwise those ahead of the first FATAL_ERROR response.
IsBatchLength(c, n) ==
    LET q == queue[c][Unlocked] IN
    /\ n \in 1..Len(q)
    /\ IF marked[c] \/ HeadIsFatal(c)
       THEN n = Len(q)
       ELSE /\ \A i \in 1..n : q[i] \notin Fatal
            /\ n < Len(q) => q[n + 1] \in Fatal

\* uv_write accepts the batch; the client leaves the set.
WriteBatch(c) ==
    /\ loop = "sending"
    /\ c \in receiving[Unlocked]
    /\ beingSent[c] = <<>>
    /\ ~marked[c] /\ ~HeadIsFatal(c)
    /\ \E n \in 1..Len(queue[c][Unlocked]) :
          /\ IsBatchLength(c, n)
          /\ beingSent' = [beingSent EXCEPT ![c] = SubSeq(queue[c][Unlocked], 1, n)]
          /\ queue' = [queue EXCEPT ![c][Unlocked] = SubSeq(@, n + 1, Len(@))]
    /\ LeaveUnlockedSet(c)
    /\ UNCHANGED <<count, processing, marked, reading, life,
                   responseVars, threadVars, loopVars>>

\* Mutant: the sent count is compared before it is increased.
FinishedTooLate(batch) == {r \in Range(batch) : sentCount[r] = refs[r]}

\* ConnectionsManager::AfterSendingResponse for every response of a batch: it is
\* deleted when all its recipients have been served.
Finished(batch) == {r \in Range(batch) : sentCount[r] + 1 = refs[r]}

CountAsSent(c, batch) ==
    /\ count' = [count EXCEPT ![c] = @ - Len(batch)]
    /\ sentCount' = [r \in Responses |->
                        IF r \in Range(batch) THEN sentCount[r] + 1 ELSE sentCount[r]]
    /\ state' = [r \in Responses |->
                    IF r \in Finished(batch) THEN "deleted" ELSE state[r]]
    /\ inQueues' = inQueues - Cardinality(Finished(batch))

\* A marked client with both queues empty is disconnected after its batch.
DisconnectIfDrained(c, isMarked, next) ==
    IF isMarked /\ \A d \in Directions : queue'[c][d] = <<>>
    THEN DisconnectAndDelete(c, processing[c], next)
    ELSE NoDisconnection(next)

\* Mutant: only the set the event loop owns is looked at.
BackToUnlockedSet(c, erased) ==
    receiving' = [d \in Directions |->
        IF d \in erased THEN receiving[d] \ {c}
        ELSE IF queue'[c][d] # <<>> /\ d = Unlocked THEN receiving[d] \cup {c}
        ELSE receiving[d]]

\* A client goes back to the sets whose queue still holds responses for it, unless
\* AddToClientSet cannot allocate; it is erased from the sets in erased afterwards.
BackToSets(c, erased) ==
    \E failed \in SUBSET Directions :
       /\ failed # {} => "loop" \in OutOfMemory
       /\ receiving' = [d \in Directions |->
              IF d \in erased THEN receiving[d] \ {c}
              ELSE IF queue'[c][d] # <<>> /\ d \notin failed THEN receiving[d] \cup {c}
              ELSE receiving[d]]

\* uv_write is not called because the client is marked, or it fails at once:
\* after_send_responses runs inside SendLocalClientsResponses.  Its AddToClientSet
\* finds the client still in the unlocked set, from which it is erased afterwards.
\* With the Windows libuv uv_write does not fail at once here: it reports errors of the
\* send to its callback (win/tcp.c:909), and refuses only a handle that was closed or shut
\* down (win/stream.c:129), which no client of the pool has.
WriteBatchFails(c) ==
    /\ loop = "sending"
    /\ c \in receiving[Unlocked]
    /\ beingSent[c] = <<>>
    /\ marked[c] \/ HeadIsFatal(c) \/ WriteMayFailAtOnce
    /\ marked' = [marked EXCEPT ![c] = TRUE]
    /\ \E n \in 1..Len(queue[c][Unlocked]) :
          /\ IsBatchLength(c, n)
          /\ CountAsSent(c, SubSeq(queue[c][Unlocked], 1, n))
          /\ queue' = [queue EXCEPT ![c][Unlocked] = SubSeq(@, n + 1, Len(@))]
    /\ BackToSets(c, {Unlocked})
    /\ DisconnectIfDrained(c, TRUE, "sending")
    /\ UNCHANGED <<beingSent, processing, life, refs, threadVars, direction>>

\* after_send_responses as the callback of uv_write, then DoPeriodicActivities.
AfterSendResponses(c, ok) ==
    /\ loop = "idle"
    /\ beingSent[c] # <<>>
    /\ marked' = [marked EXCEPT ![c] = @ \/ ~ok]
    /\ CountAsSent(c, beingSent[c])
    /\ beingSent' = [beingSent EXCEPT ![c] = <<>>]
    /\ queue' = queue
    /\ BackToSets(c, {})
    /\ DisconnectIfDrained(c, marked[c] \/ ~ok, "periodic")
    /\ UNCHANGED <<processing, life, refs, threadVars, direction>>

-------------------------------------------------------------------------------
ThreadNext(t) ==
    \/ \E r \in Responses, targets \in SUBSET Clients \ {{}} : CreateResponse(t, r, targets)
    \/ \E c \in Clients : IncreaseCountForClient(t, c)
    \/ AddResponseToQueue(t)
    \/ DecreaseCountForClient(t)
    \/ SetReferenceCount(t)

SendToClient(c) == SkipClient(c) \/ WriteBatch(c) \/ WriteBatchFails(c)

ClientNext(c) ==
    \/ OnReadError(c)
    \/ CreateRequestAndQueue(c)
    \/ AfterRequestProcessing(c)
    \/ SendToClient(c)
    \/ \E ok \in BOOLEAN : AfterSendResponses(c, ok)
    \/ AfterDisconnectionProcessing(c)
    \/ OnClientClosed(c)

Next ==
    \/ \E t \in Threads : ThreadNext(t)
    \/ \E c \in Clients : ClientNext(c)
    \/ RemoveClient
    \/ NothingToSend
    \/ ToggleDirection
    \/ SendingDone

Spec == Init /\ [][Next]_vars

\* A thread finishes the response it has begun.
FinishResponse(t) ==
    \/ \E c \in Clients : IncreaseCountForClient(t, c)
    \/ AddResponseToQueue(t)
    \/ DecreaseCountForClient(t)
    \/ SetReferenceCount(t)

\* Threads and event loop keep running.  Each iteration of the loop serves the timer
\* and every callback that is due, so none of them is overlooked forever; that a
\* write completes and that a request is finished is assumed of the environment.
Fairness ==
    /\ \A t \in Threads : WF_vars(FinishResponse(t))
    /\ WF_vars(RemoveClient) /\ WF_vars(NothingToSend) /\ WF_vars(SendingDone)
    /\ SF_vars(ToggleDirection)
    /\ \A c \in Clients :
          /\ WF_vars(SendToClient(c))
          /\ SF_vars(\E ok \in BOOLEAN : AfterSendResponses(c, ok))
          /\ SF_vars(AfterRequestProcessing(c))
          /\ SF_vars(AfterDisconnectionProcessing(c))
          /\ SF_vars(OnClientClosed(c))

FairSpec == Spec /\ Fairness

-------------------------------------------------------------------------------
(* Properties                                                                *)

\* The threads that have increased the counter of c and not yet added a response.
InFlight(c) == {t \in Threads : HoldsWaitLock(t) /\ current[t] = c}

\* The clients that still have to be served with r.
Holders(r) == {c \in Clients : \/ \E d \in Directions : r \in Range(queue[c][d])
                               \/ r \in Range(beingSent[c])}

\* ClientsPool's counter of a client is the number of responses in its two queues
\* and in its batch, plus the threads about to add one; so it is never negative
\* (ASSERT in DecreaseCountForClient) and zero exactly when the client owes nothing.
ResponsesAccounted ==
    \A c \in Clients : count[c] = Len(queue[c][1]) + Len(queue[c][2])
                                    + Len(beingSent[c]) + Cardinality(InFlight(c))

\* A client that has left the pool (its disconnection is queued, its handle is being
\* closed or it was deleted) is referred to by no queue set, batch, queued response,
\* pending request or thread: nobody uses the stClient after DEL(pClient).
RemovedClientUnreferenced ==
    \A c \in Clients : life[c] # "pool" =>
        /\ ~processing[c] /\ count[c] = 0
        /\ beingSent[c] = <<>>
        /\ \A d \in Directions : queue[c][d] = <<>> /\ c \notin receiving[d]
        /\ InFlight(c) = {}
        /\ loopClient # c

\* A client is in a receiving set only while the queue of that set holds a response
\* for it: ASSERT (ResponseQueueSize > 0) in SendLocalClientsResponses.
ReceivingHasResponse ==
    \A d \in Directions : \A c \in receiving[d] : queue[c][d] # <<>>

\* What the event loop takes from the unlocked queue, or has handed to uv_write, is
\* a response whose reference count has been set and counts exactly the clients
\* still to be served; a deleted response is held by no client.
\* (ASSERT (pResponse->GetReferenceCount()), and DEL (pResponse) happens once.)
ReferencesAccounted ==
    \A r \in Responses :
        /\ state[r] = "queued" =>
              sentCount[r] + Cardinality(Holders(r)) = refs[r] /\ Holders(r) # {}
        /\ state[r] \in {"unborn", "deleted"} => Holders(r) = {}
        /\ state[r] = "adding" =>
              \A c \in Clients : r \notin Range(queue[c][Unlocked]) /\ r \notin Range(beingSent[c])

\* GetResponsesInQueue, which decides whether the event loop sends at all and whether
\* a shutdown may proceed, is the number of live counted responses.
ServerStatExact == inQueues = Cardinality({r \in Responses : state[r] = "queued"})

\* A queue that holds responses is in its receiving set, or the client has a batch
\* being written whose completion puts it back: no response is forgotten.
NoResponseForgotten ==
    \A c \in Clients, d \in Directions :
        queue[c][d] # <<>> => c \in receiving[d] \/ beingSent[c] # <<>>

\* Every queued response is eventually served to all its clients and deleted.
ResponsesDelivered ==
    \A r \in Responses : state[r] = "queued" ~> state[r] = "deleted"

\* A client marked for disconnection does not dangle in the pool: it is eventually
\* removed, closed and deleted (the comment in AddResponseToClientsQueues).
MarkedClientDeleted ==
    \A c \in Clients : marked[c] ~> life[c] = "deleted"
===============================================================================
