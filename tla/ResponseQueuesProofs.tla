------------------------- MODULE ResponseQueuesProofs -------------------------
(***************************************************************************)
(* Invariance proofs for ResponseQueues, for any number of clients,        *)
(* threads and responses and any limit.                                    *)
(***************************************************************************)
EXTENDS ResponseQueues, FiniteSetTheorems, TLAPS

LEMMA OtherType ==
  ASSUME NEW d \in Directions
  PROVE  Other(d) \in Directions /\ Other(d) # d
  BY DEF Directions, Other

LEMMA UnlockedType == LoopTypeOK => Unlocked \in Directions /\ Unlocked # direction
  BY OtherType DEF LoopTypeOK, Unlocked

\* The batch taken from a queue, and what is left of the queue.
LEMMA Split ==
  ASSUME NEW S, NEW q \in Seq(S), NEW n \in 1..Len(q)
  PROVE  /\ SubSeq(q, 1, n) \in Seq(S)
         /\ SubSeq(q, n + 1, Len(q)) \in Seq(S)
         /\ Len(SubSeq(q, 1, n)) = n
         /\ Len(SubSeq(q, n + 1, Len(q))) = Len(q) - n
         /\ \A i \in 1..n : SubSeq(q, 1, n)[i] = q[i]
         /\ \A i \in 1..(Len(q) - n) : SubSeq(q, n + 1, Len(q))[i] = q[n + i]
  OBVIOUS

\* A batch is a finite set of responses.
LEMMA BatchFinite ==
  ASSUME NEW batch \in Seq(Responses)
  PROVE  /\ Range(batch) \subseteq Responses
         /\ Finished(batch) \subseteq Responses
         /\ IsFiniteSet(Finished(batch))
         /\ Cardinality(Finished(batch)) \in Nat
<1>1. Range(batch) \subseteq Responses
  BY DEF Range
<1>2. Finished(batch) \in SUBSET Responses
  BY <1>1 DEF Finished
<1> QED
  BY <1>1, <1>2, FS_Subset, FS_CardinalityType, ResponseQueuesAssumption

-------------------------------------------------------------------------------
(* Type correctness                                                          *)

\* A thread inside AddResponseToQueues works on a response, and it holds the wait
\* lock for a client exactly between IncreaseCountForClient and AddResponseToQueue.
ThreadInv ==
    \A t \in Threads :
        /\ pc[t] # "idle" => adding[t] \in Responses
        /\ HoldsWaitLock(t) <=> current[t] \in Clients

TypeInv == TypeOK /\ ThreadInv

LEMMA SentType ==
  ASSUME ClientTypeOK, ResponseTypeOK,
         NEW c \in Clients, NEW batch \in Seq(Responses), CountAsSent(c, batch)
  PROVE  /\ count' \in [Clients -> Int]
         /\ sentCount' \in [Responses -> Nat]
         /\ state' \in [Responses -> {"unborn", "adding", "queued", "deleted"}]
         /\ inQueues' \in Int
<1>1. Cardinality(Finished(batch)) \in Nat /\ Len(batch) \in Nat
  BY BatchFinite
<1> QED
  BY <1>1 DEF ClientTypeOK, ResponseTypeOK, CountAsSent

\* The tail of a handler that may call DisconnectAndDelete.
LEMMA DisconnectType ==
  ASSUME ClientTypeOK, LoopTypeOK, direction' = direction,
         NEW c \in Clients, NEW p \in BOOLEAN, NEW next \in {"idle", "periodic", "sending"},
         DisconnectAndDelete(c, p, next) \/ NoDisconnection(next)
  PROVE  reading' \in [Clients -> BOOLEAN] /\ LoopTypeOK'
  BY DEF ClientTypeOK, LoopTypeOK, DisconnectAndDelete, NoDisconnection

LEMMA BackToSetsType ==
  ASSUME ClientTypeOK, NEW c \in Clients, NEW erased, BackToSets(c, erased)
  PROVE  receiving' \in [Directions -> SUBSET Clients]
  BY DEF ClientTypeOK, BackToSets

\* Taking the first n responses off the unlocked queue keeps it a queue.
LEMMA TakeType ==
  ASSUME ClientTypeOK, LoopTypeOK, NEW c \in Clients, NEW n \in 1..Len(queue[c][Unlocked]),
         queue' = [queue EXCEPT ![c][Unlocked] = SubSeq(@, n + 1, Len(@))]
  PROVE  /\ queue[c][Unlocked] \in Seq(Responses)
         /\ SubSeq(queue[c][Unlocked], 1, n) \in Seq(Responses)
         /\ queue' \in [Clients -> [Directions -> Seq(Responses)]]
<1> DEFINE q == queue[c][Unlocked]
           rest == SubSeq(q, n + 1, Len(q))
<1>1. q \in Seq(Responses) /\ Unlocked \in Directions
  BY UnlockedType DEF ClientTypeOK
<1>2. rest \in Seq(Responses) /\ SubSeq(q, 1, n) \in Seq(Responses)
  BY <1>1, Split
<1>3. queue' = [queue EXCEPT ![c] = [queue[c] EXCEPT ![Unlocked] = rest]]
  OBVIOUS
<1>4. [queue[c] EXCEPT ![Unlocked] = rest] \in [Directions -> Seq(Responses)]
  BY <1>1, <1>2 DEF ClientTypeOK
<1> QED
  BY <1>1, <1>2, <1>3, <1>4 DEF ClientTypeOK

\* So does adding a response at the end.
LEMMA AppendType ==
  ASSUME ClientTypeOK, NEW c \in Clients, NEW d \in Directions, NEW r \in Responses,
         queue' = [queue EXCEPT ![c][d] = Append(@, r)]
  PROVE  queue' \in [Clients -> [Directions -> Seq(Responses)]]
<1> DEFINE q == Append(queue[c][d], r)
<1>1. queue' = [queue EXCEPT ![c] = [queue[c] EXCEPT ![d] = q]]
  OBVIOUS
<1>2. q \in Seq(Responses)
  BY DEF ClientTypeOK
<1>3. [queue[c] EXCEPT ![d] = q] \in [Directions -> Seq(Responses)]
  BY <1>2 DEF ClientTypeOK
<1> QED
  BY <1>1, <1>3 DEF ClientTypeOK

LEMMA TypeInit == Init => TypeInv
  BY ResponseQueuesAssumption
  DEF Init, TypeInv, TypeOK, ClientTypeOK, ResponseTypeOK, ThreadTypeOK, LoopTypeOK,
      ThreadInv, HoldsWaitLock, Directions

LEMMA TypeNext == TypeInv /\ [Next]_vars => TypeInv'
<1> SUFFICES ASSUME TypeInv, [Next]_vars PROVE TypeInv'
  OBVIOUS
<1>0. /\ ClientTypeOK /\ ResponseTypeOK /\ ThreadTypeOK /\ LoopTypeOK /\ ThreadInv
      /\ UNCHANGED clientVars => ClientTypeOK'
      /\ UNCHANGED responseVars => ResponseTypeOK'
      /\ UNCHANGED threadVars => ThreadTypeOK' /\ ThreadInv'
      /\ UNCHANGED loopVars => LoopTypeOK'
  BY DEF TypeInv, TypeOK, ClientTypeOK, ResponseTypeOK, ThreadTypeOK, LoopTypeOK, ThreadInv,
         HoldsWaitLock, clientVars, responseVars, threadVars, loopVars
<1> USE <1>0
<1>1. ASSUME NEW t \in Threads, NEW r \in Responses, NEW targets \in SUBSET Clients \ {{}},
             CreateResponse(t, r, targets)
      PROVE TypeInv'
  <2>1. ClientTypeOK' /\ LoopTypeOK'
    BY <1>1 DEF CreateResponse
  <2>2. ResponseTypeOK'
    BY <1>1 DEF CreateResponse, ResponseTypeOK
  <2>3. ThreadTypeOK' /\ ThreadInv'
    BY <1>1, ResponseQueuesAssumption DEF CreateResponse, ThreadTypeOK, ThreadInv, HoldsWaitLock
  <2> QED
    BY <2>1, <2>2, <2>3 DEF TypeInv, TypeOK
<1>2. ASSUME NEW t \in Threads, NEW c \in Clients, IncreaseCountForClient(t, c)
      PROVE TypeInv'
  <2>1. ResponseTypeOK' /\ LoopTypeOK'
    BY <1>2 DEF IncreaseCountForClient
  <2>2. ClientTypeOK'
    BY <1>2 DEF IncreaseCountForClient, ClientTypeOK
  <2>3. ThreadTypeOK' /\ ThreadInv'
    BY <1>2 DEF IncreaseCountForClient, ThreadTypeOK, ThreadInv, HoldsWaitLock
  <2> QED
    BY <2>1, <2>2, <2>3 DEF TypeInv, TypeOK
<1>3. ASSUME NEW t \in Threads, AddResponseToQueue(t)
      PROVE TypeInv'
  <2>0. current[t] \in Clients /\ adding[t] \in Responses
    BY <1>3 DEF AddResponseToQueue, ThreadInv, HoldsWaitLock
  <2>1. ResponseTypeOK' /\ LoopTypeOK'
    BY <1>3 DEF AddResponseToQueue
  <2>2. ClientTypeOK'
    <3>1. CASE UNCHANGED <<queue, receiving>>
      BY <1>3, <3>1 DEF AddResponseToQueue, ClientTypeOK
    <3>2. CASE /\ queue' = [queue EXCEPT ![current[t]][direction] = Append(@, adding[t])]
               /\ receiving' = [receiving EXCEPT ![direction] = @ \cup {current[t]}]
      <4>1. queue' \in [Clients -> [Directions -> Seq(Responses)]]
        BY <2>0, <3>2, AppendType DEF LoopTypeOK
      <4>2. receiving' \in [Directions -> SUBSET Clients]
        BY <2>0, <3>2 DEF ClientTypeOK, LoopTypeOK
      <4> QED
        BY <1>3, <4>1, <4>2 DEF AddResponseToQueue, ClientTypeOK
    <3> QED
      BY <1>3, <3>1, <3>2 DEF AddResponseToQueue
  <2>3. ThreadTypeOK'
    <3>1. /\ pc' \in [Threads -> {"idle", "next", "queueing", "undoing"}]
          /\ current' \in [Threads -> Clients \cup {None}]
      BY <1>3 DEF AddResponseToQueue, ThreadTypeOK
    <3>2. added' \in [Threads -> Nat]
      BY <1>3, SMTT(30) DEF AddResponseToQueue, ThreadTypeOK
    <3> QED
      BY <1>3, <3>1, <3>2 DEF AddResponseToQueue, ThreadTypeOK
  <2>4. ThreadInv'
    BY <1>3, ResponseQueuesAssumption DEF AddResponseToQueue, ThreadTypeOK, ThreadInv, HoldsWaitLock
  <2> QED
    BY <2>1, <2>2, <2>3, <2>4 DEF TypeInv, TypeOK
<1>4. ASSUME NEW t \in Threads, DecreaseCountForClient(t)
      PROVE TypeInv'
  <2>1. ResponseTypeOK' /\ LoopTypeOK'
    BY <1>4 DEF DecreaseCountForClient
  <2>2. ClientTypeOK'
    <3>0. current[t] \in Clients
      BY <1>4 DEF DecreaseCountForClient, ThreadInv, HoldsWaitLock
    <3>1. count' \in [Clients -> Int]
      BY <1>4, <3>0 DEF DecreaseCountForClient, ClientTypeOK
    <3> QED
      BY <1>4, <3>1 DEF DecreaseCountForClient, ClientTypeOK
  <2>3. ThreadTypeOK' /\ ThreadInv'
    BY <1>4, ResponseQueuesAssumption DEF DecreaseCountForClient, ThreadTypeOK, ThreadInv, HoldsWaitLock
  <2> QED
    BY <2>1, <2>2, <2>3 DEF TypeInv, TypeOK
<1>5. ASSUME NEW t \in Threads, SetReferenceCount(t)
      PROVE TypeInv'
  <2>1. ClientTypeOK' /\ LoopTypeOK'
    BY <1>5 DEF SetReferenceCount
  <2>2. ResponseTypeOK'
    <3>0. added[t] \in Nat
      BY DEF ThreadTypeOK
    <3>1. refs' \in [Responses -> Nat]
      BY <1>5, <3>0 DEF SetReferenceCount, ResponseTypeOK
    <3>3. inQueues' \in Int
      BY <1>5, <3>0 DEF SetReferenceCount, AddResponseDetailsToServerStat, ResponseTypeOK
    <3>2. state' \in [Responses -> {"unborn", "adding", "queued", "deleted"}]
      BY <1>5 DEF SetReferenceCount, ResponseTypeOK
    <3> QED
      BY <1>5, <3>1, <3>2, <3>3 DEF SetReferenceCount, ResponseTypeOK
  <2>3. ThreadTypeOK' /\ ThreadInv'
    BY <1>5 DEF SetReferenceCount, ThreadTypeOK, ThreadInv, HoldsWaitLock
  <2> QED
    BY <2>1, <2>2, <2>3 DEF TypeInv, TypeOK
<1>6. CASE RemoveClient \/ NothingToSend \/ ToggleDirection \/ SendingDone
  <2>1. UNCHANGED responseVars /\ UNCHANGED threadVars
    BY <1>6 DEF RemoveClient, NothingToSend, ToggleDirection, SendingDone
  <2>2. ClientTypeOK'
    BY <1>6 DEF RemoveClient, NothingToSend, ToggleDirection, SendingDone, ClientTypeOK, clientVars
  <2>3. LoopTypeOK'
    BY <1>6, OtherType DEF RemoveClient, NothingToSend, ToggleDirection, SendingDone, LoopTypeOK
  <2> QED
    BY <2>1, <2>2, <2>3 DEF TypeInv, TypeOK
<1>7. ASSUME NEW c \in Clients,
             OnReadError(c) \/ CreateRequestAndQueue(c) \/ AfterRequestProcessing(c)
      PROVE TypeInv'
  <2>1. UNCHANGED responseVars /\ UNCHANGED threadVars
    BY <1>7 DEF OnReadError, CreateRequestAndQueue, AfterRequestProcessing
  <2>2. reading' \in [Clients -> BOOLEAN] /\ LoopTypeOK'
    <3>1. processing[c] \in BOOLEAN
      BY DEF ClientTypeOK
    <3>2. CASE CreateRequestAndQueue(c)
      BY <3>2 DEF CreateRequestAndQueue, ClientTypeOK, LoopTypeOK
    <3>3. CASE OnReadError(c)
      BY <3>1, <3>3, DisconnectType DEF OnReadError
    <3>4. CASE AfterRequestProcessing(c)
      BY <3>4, DisconnectType DEF AfterRequestProcessing
    <3> QED
      BY <1>7, <3>2, <3>3, <3>4
  <2>3. ClientTypeOK'
    BY <1>7, <2>2 DEF OnReadError, CreateRequestAndQueue, AfterRequestProcessing, ClientTypeOK
  <2> QED
    BY <2>1, <2>2, <2>3 DEF TypeInv, TypeOK
<1>8. ASSUME NEW c \in Clients, SkipClient(c)
      PROVE TypeInv'
  <2>1. ClientTypeOK'
    BY <1>8, UnlockedType DEF SkipClient, LeaveUnlockedSet, ClientTypeOK
  <2> QED
    BY <1>8, <2>1 DEF SkipClient, TypeInv, TypeOK
<1>9. ASSUME NEW c \in Clients, WriteBatch(c)
      PROVE TypeInv'
  <2>1. PICK n \in 1..Len(queue[c][Unlocked]) :
           /\ beingSent' = [beingSent EXCEPT ![c] = SubSeq(queue[c][Unlocked], 1, n)]
           /\ queue' = [queue EXCEPT ![c][Unlocked] = SubSeq(@, n + 1, Len(@))]
    BY <1>9 DEF WriteBatch
  <2>2. /\ queue' \in [Clients -> [Directions -> Seq(Responses)]]
        /\ SubSeq(queue[c][Unlocked], 1, n) \in Seq(Responses)
    BY <2>1, TakeType
  <2>3. beingSent' \in [Clients -> Seq(Responses)]
    BY <2>1, <2>2 DEF ClientTypeOK
  <2>4. receiving' \in [Directions -> SUBSET Clients]
    BY <1>9, UnlockedType DEF WriteBatch, LeaveUnlockedSet, ClientTypeOK
  <2>5. ClientTypeOK'
    BY <1>9, <2>2, <2>3, <2>4 DEF WriteBatch, ClientTypeOK
  <2> QED
    BY <1>9, <2>5 DEF WriteBatch, TypeInv, TypeOK
<1>10. ASSUME NEW c \in Clients, WriteBatchFails(c)
       PROVE TypeInv'
  <2>1. PICK n \in 1..Len(queue[c][Unlocked]) :
           /\ CountAsSent(c, SubSeq(queue[c][Unlocked], 1, n))
           /\ queue' = [queue EXCEPT ![c][Unlocked] = SubSeq(@, n + 1, Len(@))]
    BY <1>10 DEF WriteBatchFails
  <2>2. /\ queue' \in [Clients -> [Directions -> Seq(Responses)]]
        /\ SubSeq(queue[c][Unlocked], 1, n) \in Seq(Responses)
    BY <2>1, TakeType
  <2>3. count' \in [Clients -> Int] /\ ResponseTypeOK'
    BY <1>10, <2>1, <2>2, SentType DEF WriteBatchFails, ResponseTypeOK
  <2>4. receiving' \in [Directions -> SUBSET Clients]
    BY <1>10, BackToSetsType DEF WriteBatchFails
  <2>5. reading' \in [Clients -> BOOLEAN] /\ LoopTypeOK'
    <3>1. processing[c] \in BOOLEAN /\ direction' = direction
      BY <1>10 DEF ClientTypeOK, WriteBatchFails
    <3>2. DisconnectAndDelete(c, processing[c], "sending") \/ NoDisconnection("sending")
      BY <1>10 DEF WriteBatchFails, DisconnectIfDrained
    <3> QED
      BY <3>1, <3>2, DisconnectType
  <2>6. ClientTypeOK'
    BY <1>10, <2>2, <2>3, <2>4, <2>5 DEF WriteBatchFails, ClientTypeOK
  <2> QED
    BY <1>10, <2>3, <2>5, <2>6 DEF WriteBatchFails, TypeInv, TypeOK
<1>11. ASSUME NEW c \in Clients, NEW ok \in BOOLEAN, AfterSendResponses(c, ok)
       PROVE TypeInv'
  <2>1. beingSent[c] \in Seq(Responses)
    BY DEF ClientTypeOK
  <2>2. count' \in [Clients -> Int] /\ ResponseTypeOK'
    BY <1>11, <2>1, SentType DEF AfterSendResponses, ResponseTypeOK
  <2>3. receiving' \in [Directions -> SUBSET Clients]
    BY <1>11, BackToSetsType DEF AfterSendResponses
  <2>4. reading' \in [Clients -> BOOLEAN] /\ LoopTypeOK'
    <3>1. processing[c] \in BOOLEAN /\ direction' = direction
      BY <1>11 DEF ClientTypeOK, AfterSendResponses
    <3>2. DisconnectAndDelete(c, processing[c], "periodic") \/ NoDisconnection("periodic")
      BY <1>11 DEF AfterSendResponses, DisconnectIfDrained
    <3> QED
      BY <3>1, <3>2, DisconnectType
  <2>5. ClientTypeOK'
    <3>1. /\ beingSent' \in [Clients -> Seq(Responses)]
          /\ marked' \in [Clients -> BOOLEAN]
      BY <1>11 DEF AfterSendResponses, ClientTypeOK
    <3> QED
      BY <1>11, <2>2, <2>3, <2>4, <3>1 DEF AfterSendResponses, ClientTypeOK
  <2> QED
    BY <1>11, <2>2, <2>4, <2>5 DEF AfterSendResponses, TypeInv, TypeOK
<1>12. ASSUME NEW c \in Clients, AfterDisconnectionProcessing(c) \/ OnClientClosed(c)
       PROVE TypeInv'
  <2>1. ClientTypeOK'
    BY <1>12 DEF AfterDisconnectionProcessing, OnClientClosed, ClientTypeOK
  <2> QED
    BY <1>12, <2>1 DEF AfterDisconnectionProcessing, OnClientClosed, TypeInv, TypeOK
<1>13. CASE UNCHANGED vars
  BY <1>13 DEF vars, TypeInv, TypeOK
<1> QED
  BY <1>1, <1>2, <1>3, <1>4, <1>5, <1>6, <1>7, <1>8, <1>9, <1>10, <1>11, <1>12, <1>13
  DEF Next, ThreadNext, ClientNext, SendToClient

\* Every reachable state is well typed, and a thread holds the wait lock exactly
\* while it works on a client.
THEOREM TypeInvariant == Spec => []TypeInv
  BY TypeInit, TypeNext, PTL DEF Spec

\* Every reachable state of ResponseQueues is well typed.
THEOREM TypeCorrect == Spec => []TypeOK
<1>1. TypeInv => TypeOK
  BY DEF TypeInv
<1> QED
  BY <1>1, TypeInvariant, PTL

-------------------------------------------------------------------------------
(* Accounting, and safe disconnection                                        *)

\* The responses in the two queues of a client.
QLen(c, d) == Len(queue[c][d])
Pending(c) == QLen(c, 1) + QLen(c, 2)

\* While DisconnectAndDelete waits for its write lock, its client is in the pool.
RemovingInv ==
    IF loop = "removing" THEN loopClient \in Clients /\ life[loopClient] = "pool"
                         ELSE loopClient = None

\* Once out of the pool a client owes nothing, and nothing is added to it again.
RemovedDrained ==
    \A c \in Clients : life[c] # "pool" => ~processing[c] /\ count[c] = 0

\* The inductive invariant behind RemovedClientUnreferenced.
SafetyInv ==
    /\ TypeInv
    /\ ResponsesAccounted
    /\ ReceivingHasResponse
    /\ RemovingInv
    /\ RemovedDrained

LEMMA AppendPending ==
  ASSUME ClientTypeOK, NEW c \in Clients, NEW d \in Directions, NEW r \in Responses,
         queue' = [queue EXCEPT ![c][d] = Append(@, r)]
  PROVE  /\ \A k \in Clients : Pending(k)' = IF k = c THEN Pending(k) + 1 ELSE Pending(k)
         /\ \A k \in Clients, e \in Directions :
               (k # c \/ e # d) => queue'[k][e] = queue[k][e]
         /\ queue'[c][d] # <<>>
<1> DEFINE q == queue[c][d]
<1>1. q \in Seq(Responses) /\ Append(q, r) \in Seq(Responses) /\ Len(Append(q, r)) = Len(q) + 1
  BY DEF ClientTypeOK
<1>2. queue'[c][d] = Append(q, r)
  BY DEF ClientTypeOK
<1>3. \A k \in Clients, e \in Directions : (k # c \/ e # d) => queue'[k][e] = queue[k][e]
  BY DEF ClientTypeOK
<1>4. \A k \in Clients, e \in Directions : QLen(k, e) \in Nat
  BY DEF ClientTypeOK, QLen
<1>5. \A k \in Clients, e \in Directions :
         QLen(k, e)' = IF k = c /\ e = d THEN QLen(k, e) + 1 ELSE QLen(k, e)
  BY <1>1, <1>2, <1>3 DEF QLen
<1>6. \A k \in Clients : Pending(k)' = IF k = c THEN Pending(k) + 1 ELSE Pending(k)
  BY <1>4, <1>5 DEF Pending, Directions
<1>7. queue'[c][d] # <<>>
  BY <1>1, <1>2
<1> QED
  BY <1>3, <1>6, <1>7

LEMMA TakePending ==
  ASSUME ClientTypeOK, LoopTypeOK, NEW c \in Clients, NEW n \in 1..Len(queue[c][Unlocked]),
         queue' = [queue EXCEPT ![c][Unlocked] = SubSeq(@, n + 1, Len(@))]
  PROVE  /\ \A k \in Clients : Pending(k)' = IF k = c THEN Pending(k) - n ELSE Pending(k)
         /\ \A k \in Clients, e \in Directions :
               (k # c \/ e # Unlocked) => queue'[k][e] = queue[k][e]
         /\ Len(SubSeq(queue[c][Unlocked], 1, n)) = n
         /\ n \in Nat
<1> DEFINE q == queue[c][Unlocked]
           rest == SubSeq(q, n + 1, Len(q))
<1>0. Unlocked \in Directions
  BY UnlockedType
<1>1. q \in Seq(Responses)
  BY <1>0 DEF ClientTypeOK
<1>2. Len(SubSeq(q, 1, n)) = n /\ Len(rest) = Len(q) - n
  BY <1>1, Split
<1>3. queue'[c][Unlocked] = rest
  BY <1>0 DEF ClientTypeOK
<1>4. \A k \in Clients, e \in Directions :
         (k # c \/ e # Unlocked) => queue'[k][e] = queue[k][e]
  BY <1>0 DEF ClientTypeOK
<1>5. \A k \in Clients, e \in Directions : QLen(k, e) \in Nat
  BY DEF ClientTypeOK, QLen
<1>6. n \in Nat
  BY <1>1
<1>7. \A k \in Clients, e \in Directions :
         QLen(k, e)' = IF k = c /\ e = Unlocked THEN QLen(k, e) - n ELSE QLen(k, e)
  BY <1>2, <1>3, <1>4 DEF QLen
<1>8. \A k \in Clients : Pending(k)' = IF k = c THEN Pending(k) - n ELSE Pending(k)
  BY <1>0, <1>5, <1>6, <1>7 DEF Pending, Directions
<1> QED
  BY <1>2, <1>4, <1>6, <1>8

LEMMA InFlightFinite ==
  ASSUME NEW c \in Clients
  PROVE  IsFiniteSet(InFlight(c)) /\ Cardinality(InFlight(c)) \in Nat
<1>1. InFlight(c) \in SUBSET Threads
  BY DEF InFlight
<1> QED
  BY <1>1, FS_Subset, FS_CardinalityType, ResponseQueuesAssumption

LEMMA InFlightSame ==
  ASSUME UNCHANGED threadVars, NEW c \in Clients
  PROVE  InFlight(c)' = InFlight(c)
  BY DEF threadVars, InFlight, HoldsWaitLock

\* A thread enters InFlight in IncreaseCountForClient ...
LEMMA InFlightEnter ==
  ASSUME ThreadTypeOK, ThreadInv, NEW t \in Threads, NEW c \in Clients, pc[t] = "next",
         pc' = [pc EXCEPT ![t] = "queueing"],
         current' = [current EXCEPT ![t] = c],
         NEW k \in Clients
  PROVE  Cardinality(InFlight(k)') = IF k = c THEN Cardinality(InFlight(k)) + 1
                                              ELSE Cardinality(InFlight(k))
<1>1. t \notin InFlight(k)
  BY DEF InFlight, HoldsWaitLock
<1>2. CASE k = c
  <2>1. InFlight(k)' = InFlight(k) \cup {t}
    BY <1>2 DEF InFlight, HoldsWaitLock, ThreadTypeOK
  <2> QED
    BY <1>1, <1>2, <2>1, InFlightFinite, FS_AddElement
<1>3. CASE k # c
  <2>1. InFlight(k)' = InFlight(k)
    BY <1>3 DEF InFlight, HoldsWaitLock, ThreadTypeOK
  <2> QED
    BY <1>3, <2>1
<1> QED
  BY <1>2, <1>3

\* ... and leaves it when the response was added or its refusal undone.
LEMMA InFlightLeave ==
  ASSUME ThreadTypeOK, NEW t \in Threads, HoldsWaitLock(t),
         pc' = [pc EXCEPT ![t] = "next"],
         current' = [current EXCEPT ![t] = None],
         NEW k \in Clients
  PROVE  Cardinality(InFlight(k)') = IF k = current[t] THEN Cardinality(InFlight(k)) - 1
                                                       ELSE Cardinality(InFlight(k))
<1>1. CASE k = current[t]
  <2>1. t \in InFlight(k)
    BY <1>1 DEF InFlight
  <2>2. InFlight(k)' = InFlight(k) \ {t}
    BY <1>1 DEF InFlight, HoldsWaitLock, ThreadTypeOK
  <2> QED
    BY <1>1, <2>1, <2>2, InFlightFinite, FS_RemoveElement
<1>2. CASE k # current[t]
  <2>1. InFlight(k)' = InFlight(k)
    BY <1>2 DEF InFlight, HoldsWaitLock, ThreadTypeOK
  <2> QED
    BY <1>2, <2>1
<1> QED
  BY <1>1, <1>2

\* The lengths and counters that ResponsesAccounted adds up are numbers.
LEMMA Numbers ==
  ASSUME ClientTypeOK, NEW c \in Clients
  PROVE  /\ Pending(c) \in Nat
         /\ Len(beingSent[c]) \in Nat
         /\ count[c] \in Int
         /\ Cardinality(InFlight(c)) \in Nat
<1>1. \A e \in Directions : QLen(c, e) \in Nat
  BY DEF ClientTypeOK, QLen
<1>2. beingSent[c] \in Seq(Responses) /\ count[c] \in Int
  BY DEF ClientTypeOK
<1>3. Len(beingSent[c]) \in Nat
  BY <1>2
<1>4. Pending(c) \in Nat
  BY <1>1 DEF Pending, Directions
<1> QED
  BY <1>2, <1>3, <1>4, InFlightFinite

LEMMA AccountedNext ==
  ASSUME TypeInv, ResponsesAccounted, [Next]_vars
  PROVE  ResponsesAccounted'
<1> DEFINE Total(k) == Pending(k) + Len(beingSent[k]) + Cardinality(InFlight(k))
<1>0. ClientTypeOK /\ ResponseTypeOK /\ ThreadTypeOK /\ LoopTypeOK /\ ThreadInv
  BY DEF TypeInv, TypeOK
<1> SUFFICES ASSUME NEW k \in Clients PROVE count'[k] = Total(k)'
  BY DEF ResponsesAccounted, Pending, QLen
<1>a. count[k] = Total(k)
  BY DEF ResponsesAccounted, Pending, QLen
<1>b. /\ Pending(k) \in Nat /\ Len(beingSent[k]) \in Nat
      /\ Cardinality(InFlight(k)) \in Nat /\ count[k] \in Int
  BY <1>0, Numbers
<1>c. UNCHANGED queue => Pending(k)' = Pending(k)
  BY DEF Pending, QLen
<1>d. UNCHANGED threadVars => InFlight(k)' = InFlight(k)
  BY InFlightSame
<1>e. UNCHANGED <<queue, beingSent, count>> /\ InFlight(k)' = InFlight(k) => count'[k] = Total(k)'
  BY <1>a, <1>c
<1>1. ASSUME NEW t \in Threads, NEW r \in Responses, NEW targets \in SUBSET Clients \ {{}},
             CreateResponse(t, r, targets)
      PROVE  count'[k] = Total(k)'
  <2>1. InFlight(k)' = InFlight(k)
    BY <1>0, <1>1 DEF CreateResponse, InFlight, HoldsWaitLock, ThreadTypeOK
  <2> QED
    BY <1>1, <1>e, <2>1 DEF CreateResponse, clientVars
<1>2. ASSUME NEW t \in Threads, NEW c \in Clients, IncreaseCountForClient(t, c)
      PROVE  count'[k] = Total(k)'
  <2>1. CASE UNCHANGED <<count, pc, current>>
    <3>1. InFlight(k)' = InFlight(k)
      BY <2>1 DEF InFlight, HoldsWaitLock
    <3> QED
      BY <1>2, <1>e, <2>1, <3>1 DEF IncreaseCountForClient
  <2>2. CASE /\ count' = [count EXCEPT ![c] = @ + 1]
             /\ pc' = [pc EXCEPT ![t] = "queueing"]
             /\ current' = [current EXCEPT ![t] = c]
    <3>1. Cardinality(InFlight(k)') = IF k = c THEN Cardinality(InFlight(k)) + 1
                                               ELSE Cardinality(InFlight(k))
      BY <1>0, <1>2, <2>2, InFlightEnter DEF IncreaseCountForClient
    <3>2. Pending(k)' = Pending(k) /\ beingSent' = beingSent
      BY <1>2, <1>c DEF IncreaseCountForClient
    <3>3. count'[k] = IF k = c THEN count[k] + 1 ELSE count[k]
      BY <1>0, <2>2 DEF ClientTypeOK
    <3> QED
      BY <1>a, <1>b, <3>1, <3>2, <3>3
  <2> QED
    BY <1>2, <2>1, <2>2 DEF IncreaseCountForClient
<1>3. ASSUME NEW t \in Threads, AddResponseToQueue(t)
      PROVE  count'[k] = Total(k)'
  <2>1. CASE pc' = [pc EXCEPT ![t] = "undoing"] /\ UNCHANGED <<queue, current>>
    <3>1. InFlight(k)' = InFlight(k)
      BY <1>0, <1>3, <2>1 DEF AddResponseToQueue, InFlight, HoldsWaitLock, ThreadTypeOK
    <3> QED
      BY <1>3, <1>e, <2>1, <3>1 DEF AddResponseToQueue
  <2>2. CASE /\ queue' = [queue EXCEPT ![current[t]][direction] = Append(@, adding[t])]
             /\ pc' = [pc EXCEPT ![t] = "next"]
             /\ current' = [current EXCEPT ![t] = None]
    <3>1. HoldsWaitLock(t) /\ current[t] \in Clients /\ adding[t] \in Responses
      BY <1>0, <1>3 DEF AddResponseToQueue, ThreadInv, HoldsWaitLock
    <3>2. Cardinality(InFlight(k)') = IF k = current[t] THEN Cardinality(InFlight(k)) - 1
                                                        ELSE Cardinality(InFlight(k))
      BY <1>0, <2>2, <3>1, InFlightLeave
    <3>3. Pending(k)' = IF k = current[t] THEN Pending(k) + 1 ELSE Pending(k)
      BY <1>0, <2>2, <3>1, AppendPending DEF LoopTypeOK
    <3>4. UNCHANGED <<beingSent, count>>
      BY <1>3 DEF AddResponseToQueue
    <3> QED
      BY <1>a, <1>b, <3>2, <3>3, <3>4
  <2> QED
    BY <1>3, <2>1, <2>2 DEF AddResponseToQueue
<1>4. ASSUME NEW t \in Threads, DecreaseCountForClient(t)
      PROVE  count'[k] = Total(k)'
  <2>1. HoldsWaitLock(t) /\ current[t] \in Clients
    BY <1>0, <1>4 DEF DecreaseCountForClient, ThreadInv, HoldsWaitLock
  <2>2. Cardinality(InFlight(k)') = IF k = current[t] THEN Cardinality(InFlight(k)) - 1
                                                      ELSE Cardinality(InFlight(k))
    BY <1>0, <1>4, <2>1, InFlightLeave DEF DecreaseCountForClient
  <2>3. Pending(k)' = Pending(k) /\ beingSent' = beingSent
    BY <1>4, <1>c DEF DecreaseCountForClient
  <2>4. count'[k] = IF k = current[t] THEN count[k] - 1 ELSE count[k]
    BY <1>0, <1>4, <2>1 DEF DecreaseCountForClient, ClientTypeOK
  <2> QED
    BY <1>a, <1>b, <2>2, <2>3, <2>4
<1>5. ASSUME NEW t \in Threads, SetReferenceCount(t)
      PROVE  count'[k] = Total(k)'
  <2>1. InFlight(k)' = InFlight(k)
    BY <1>0, <1>5 DEF SetReferenceCount, InFlight, HoldsWaitLock, ThreadTypeOK
  <2> QED
    BY <1>5, <1>e, <2>1 DEF SetReferenceCount, clientVars
<1>6. ASSUME NEW c \in Clients, WriteBatch(c)
      PROVE  count'[k] = Total(k)'
  <2>1. PICK n \in 1..Len(queue[c][Unlocked]) :
           /\ beingSent' = [beingSent EXCEPT ![c] = SubSeq(queue[c][Unlocked], 1, n)]
           /\ queue' = [queue EXCEPT ![c][Unlocked] = SubSeq(@, n + 1, Len(@))]
    BY <1>6 DEF WriteBatch
  <2>2. /\ Pending(k)' = IF k = c THEN Pending(k) - n ELSE Pending(k)
        /\ Len(SubSeq(queue[c][Unlocked], 1, n)) = n /\ n \in Nat
    BY <1>0, <2>1, TakePending
  <2>3. Len(beingSent'[k]) = IF k = c THEN n ELSE Len(beingSent[k])
    BY <1>0, <2>1, <2>2 DEF ClientTypeOK
  <2>4. beingSent[c] = <<>> /\ InFlight(k)' = InFlight(k) /\ count' = count
    BY <1>6, <1>d DEF WriteBatch
  <2>5. k = c => Len(beingSent[k]) = 0
    BY <2>4
  <2> QED
    BY <1>a, <1>b, <2>2, <2>3, <2>4, <2>5
<1>7. ASSUME NEW c \in Clients, WriteBatchFails(c)
      PROVE  count'[k] = Total(k)'
  <2>1. PICK n \in 1..Len(queue[c][Unlocked]) :
           /\ CountAsSent(c, SubSeq(queue[c][Unlocked], 1, n))
           /\ queue' = [queue EXCEPT ![c][Unlocked] = SubSeq(@, n + 1, Len(@))]
    BY <1>7 DEF WriteBatchFails
  <2>2. /\ Pending(k)' = IF k = c THEN Pending(k) - n ELSE Pending(k)
        /\ Len(SubSeq(queue[c][Unlocked], 1, n)) = n /\ n \in Nat
    BY <1>0, <2>1, TakePending
  <2>3. count'[k] = IF k = c THEN count[k] - n ELSE count[k]
    BY <1>0, <2>1, <2>2 DEF CountAsSent, ClientTypeOK
  <2>4. beingSent' = beingSent /\ InFlight(k)' = InFlight(k)
    BY <1>7, <1>d DEF WriteBatchFails
  <2> QED
    BY <1>a, <1>b, <2>2, <2>3, <2>4
<1>8. ASSUME NEW c \in Clients, NEW ok \in BOOLEAN, AfterSendResponses(c, ok)
      PROVE  count'[k] = Total(k)'
  <2>1. count'[k] = IF k = c THEN count[k] - Len(beingSent[k]) ELSE count[k]
    BY <1>0, <1>8 DEF AfterSendResponses, CountAsSent, ClientTypeOK
  <2>2. beingSent'[k] = IF k = c THEN <<>> ELSE beingSent[k]
    BY <1>0, <1>8 DEF AfterSendResponses, ClientTypeOK
  <2>3. Len(beingSent'[k]) = IF k = c THEN 0 ELSE Len(beingSent[k])
    BY <2>2
  <2>4. Pending(k)' = Pending(k) /\ InFlight(k)' = InFlight(k)
    BY <1>8, <1>c, <1>d DEF AfterSendResponses
  <2> QED
    BY <1>a, <1>b, <2>1, <2>3, <2>4
<1>9. CASE RemoveClient \/ NothingToSend \/ ToggleDirection \/ SendingDone \/ UNCHANGED vars
  BY <1>9, <1>d, <1>e
  DEF RemoveClient, NothingToSend, ToggleDirection, SendingDone, vars, clientVars
<1>10. ASSUME NEW c \in Clients,
              \/ OnReadError(c) \/ CreateRequestAndQueue(c) \/ AfterRequestProcessing(c)
              \/ SkipClient(c) \/ AfterDisconnectionProcessing(c) \/ OnClientClosed(c)
       PROVE  count'[k] = Total(k)'
  BY <1>10, <1>d, <1>e
  DEF OnReadError, CreateRequestAndQueue, AfterRequestProcessing, SkipClient,
      AfterDisconnectionProcessing, OnClientClosed
<1> QED
  BY <1>1, <1>2, <1>3, <1>4, <1>5, <1>6, <1>7, <1>8, <1>9, <1>10
  DEF Next, ThreadNext, ClientNext, SendToClient

LEMMA ReceivingNext ==
  ASSUME TypeInv, ReceivingHasResponse, [Next]_vars
  PROVE  ReceivingHasResponse'
<1>0. ClientTypeOK /\ ResponseTypeOK /\ ThreadTypeOK /\ LoopTypeOK /\ ThreadInv
  BY DEF TypeInv, TypeOK
<1> SUFFICES ASSUME NEW d \in Directions, NEW k \in receiving'[d] PROVE queue'[k][d] # <<>>
  BY DEF ReceivingHasResponse
<1>a. k \in receiving[d] => queue[k][d] # <<>>
  BY DEF ReceivingHasResponse
<1>b. \A e \in Directions : receiving[e] \in SUBSET Clients
  BY <1>0 DEF ClientTypeOK
<1>c. Unlocked \in Directions
  BY <1>0, UnlockedType
<1>1. CASE UNCHANGED <<queue, receiving>>
  BY <1>1, <1>a
<1>2. ASSUME NEW t \in Threads, AddResponseToQueue(t)
      PROVE  queue'[k][d] # <<>>
  <2>1. current[t] \in Clients /\ adding[t] \in Responses /\ direction \in Directions
    BY <1>0, <1>2 DEF AddResponseToQueue, ThreadInv, HoldsWaitLock, LoopTypeOK
  <2>2. CASE /\ queue' = [queue EXCEPT ![current[t]][direction] = Append(@, adding[t])]
             /\ receiving' = [receiving EXCEPT ![direction] = @ \cup {current[t]}]
    <3>1. /\ \A c \in Clients, e \in Directions :
                (c # current[t] \/ e # direction) => queue'[c][e] = queue[c][e]
          /\ queue'[current[t]][direction] # <<>>
      BY <1>0, <2>1, <2>2, AppendPending
    <3>2. k \in receiving[d] \/ (k = current[t] /\ d = direction)
      BY <1>0, <2>1, <2>2 DEF ClientTypeOK
    <3> QED
      BY <1>a, <1>b, <3>1, <3>2
  <2> QED
    BY <1>1, <1>2, <2>2 DEF AddResponseToQueue
<1>3. ASSUME NEW c \in Clients, SkipClient(c)
      PROVE  queue'[k][d] # <<>>
  BY <1>0, <1>3, <1>a, <1>c DEF SkipClient, LeaveUnlockedSet, ClientTypeOK
<1>4. ASSUME NEW c \in Clients, WriteBatch(c)
      PROVE  queue'[k][d] # <<>>
  <2>1. PICK n \in 1..Len(queue[c][Unlocked]) :
           queue' = [queue EXCEPT ![c][Unlocked] = SubSeq(@, n + 1, Len(@))]
    BY <1>4 DEF WriteBatch
  <2>2. \A j \in Clients, e \in Directions :
           (j # c \/ e # Unlocked) => queue'[j][e] = queue[j][e]
    BY <1>0, <2>1, TakePending
  <2>3. k \in receiving[d] /\ (d = Unlocked => k # c)
    BY <1>0, <1>4, <1>c DEF WriteBatch, LeaveUnlockedSet, ClientTypeOK
  <2> QED
    BY <1>a, <1>b, <2>2, <2>3
<1>5. ASSUME NEW c \in Clients, WriteBatchFails(c)
      PROVE  queue'[k][d] # <<>>
  <2>1. PICK n \in 1..Len(queue[c][Unlocked]) :
           queue' = [queue EXCEPT ![c][Unlocked] = SubSeq(@, n + 1, Len(@))]
    BY <1>5 DEF WriteBatchFails
  <2>2. \A j \in Clients, e \in Directions :
           (j # c \/ e # Unlocked) => queue'[j][e] = queue[j][e]
    BY <1>0, <2>1, TakePending
  <2>3. \/ k \in receiving[d] /\ (d = Unlocked => k # c)
        \/ k = c /\ queue'[c][d] # <<>>
    BY <1>5, <1>c DEF WriteBatchFails, BackToSets
  <2> QED
    BY <1>a, <1>b, <2>2, <2>3
<1>6. ASSUME NEW c \in Clients, NEW ok \in BOOLEAN, AfterSendResponses(c, ok)
      PROVE  queue'[k][d] # <<>>
  <2>1. k \in receiving[d] \/ (k = c /\ queue'[c][d] # <<>>)
    BY <1>6 DEF AfterSendResponses, BackToSets
  <2>2. queue' = queue
    BY <1>6 DEF AfterSendResponses
  <2> QED
    BY <1>a, <2>1, <2>2
<1>7. ASSUME NEW t \in Threads,
             \/ \E r \in Responses, targets \in SUBSET Clients \ {{}} : CreateResponse(t, r, targets)
             \/ \E c \in Clients : IncreaseCountForClient(t, c)
             \/ DecreaseCountForClient(t)
             \/ SetReferenceCount(t)
      PROVE  UNCHANGED <<queue, receiving>>
  BY <1>7
  DEF CreateResponse, IncreaseCountForClient, DecreaseCountForClient, SetReferenceCount, clientVars
<1>8. ASSUME NEW c \in Clients,
             \/ OnReadError(c) \/ CreateRequestAndQueue(c) \/ AfterRequestProcessing(c)
             \/ AfterDisconnectionProcessing(c) \/ OnClientClosed(c)
      PROVE  UNCHANGED <<queue, receiving>>
  BY <1>8
  DEF OnReadError, CreateRequestAndQueue, AfterRequestProcessing,
      AfterDisconnectionProcessing, OnClientClosed
<1>9. RemoveClient \/ NothingToSend \/ ToggleDirection \/ SendingDone \/ UNCHANGED vars
      => UNCHANGED <<queue, receiving>>
  BY DEF RemoveClient, NothingToSend, ToggleDirection, SendingDone, vars, clientVars
<1> QED
  BY <1>1, <1>2, <1>3, <1>4, <1>5, <1>6, <1>7, <1>8, <1>9
  DEF Next, ThreadNext, ClientNext, SendToClient

\* A handler that may end in DisconnectAndDelete keeps RemovingInv.
LEMMA DisconnectRemoving ==
  ASSUME LoopTypeOK, RemovingInv, loop # "removing", UNCHANGED life,
         NEW c \in Clients, NEW p, NEW next \in {"idle", "periodic", "sending"},
         DisconnectAndDelete(c, p, next) \/ NoDisconnection(next)
  PROVE  RemovingInv'
  BY DEF RemovingInv, DisconnectAndDelete, NoDisconnection

LEMMA RemovingNext ==
  ASSUME TypeInv, RemovingInv, [Next]_vars
  PROVE  RemovingInv'
<1>0. ClientTypeOK /\ LoopTypeOK
  BY DEF TypeInv, TypeOK
<1>1. CASE UNCHANGED <<life, loop, loopClient>>
  BY <1>1 DEF RemovingInv
<1>2. ASSUME NEW t \in Threads, ThreadNext(t)
      PROVE  UNCHANGED <<life, loop, loopClient>>
  BY <1>2
  DEF ThreadNext, CreateResponse, IncreaseCountForClient, AddResponseToQueue,
      DecreaseCountForClient, SetReferenceCount, clientVars, loopVars
<1>3. CASE RemoveClient
  BY <1>0, <1>3 DEF RemoveClient, RemovingInv, LoopTypeOK
<1>4. CASE NothingToSend \/ ToggleDirection \/ SendingDone
  BY <1>4 DEF NothingToSend, ToggleDirection, SendingDone, RemovingInv
<1>5. ASSUME NEW c \in Clients, OnReadError(c)
      PROVE  RemovingInv'
  BY <1>0, <1>5, DisconnectRemoving DEF OnReadError
<1>6. ASSUME NEW c \in Clients, AfterRequestProcessing(c)
      PROVE  RemovingInv'
  BY <1>0, <1>6, DisconnectRemoving DEF AfterRequestProcessing
<1>7. ASSUME NEW c \in Clients, WriteBatchFails(c)
      PROVE  RemovingInv'
  BY <1>0, <1>7, DisconnectRemoving DEF WriteBatchFails, DisconnectIfDrained
<1>8. ASSUME NEW c \in Clients, NEW ok \in BOOLEAN, AfterSendResponses(c, ok)
      PROVE  RemovingInv'
  BY <1>0, <1>8, DisconnectRemoving DEF AfterSendResponses, DisconnectIfDrained
<1>9. ASSUME NEW c \in Clients,
             CreateRequestAndQueue(c) \/ AfterDisconnectionProcessing(c) \/ OnClientClosed(c)
      PROVE  RemovingInv'
  BY <1>9
  DEF CreateRequestAndQueue, AfterDisconnectionProcessing, OnClientClosed, RemovingInv, loopVars
<1>10. ASSUME NEW c \in Clients, SkipClient(c) \/ WriteBatch(c)
       PROVE  UNCHANGED <<life, loop, loopClient>>
  BY <1>10 DEF SkipClient, WriteBatch, loopVars
<1>11. UNCHANGED vars => UNCHANGED <<life, loop, loopClient>>
  BY DEF vars, clientVars, loopVars
<1> QED
  BY <1>1, <1>2, <1>3, <1>4, <1>5, <1>6, <1>7, <1>8, <1>9, <1>10, <1>11
  DEF Next, ClientNext, SendToClient

\* Nothing is counted for a client outside the pool, and no batch of its is left:
\* a client with responses pending is still in the pool.
LEMMA DrainedNext ==
  ASSUME TypeInv, ResponsesAccounted, RemovingInv, RemovedDrained, [Next]_vars
  PROVE  RemovedDrained'
<1>0. ClientTypeOK /\ ThreadTypeOK /\ LoopTypeOK /\ ThreadInv
  BY DEF TypeInv, TypeOK
<1> SUFFICES ASSUME NEW k \in Clients, life'[k] # "pool"
             PROVE  ~processing'[k] /\ count'[k] = 0
  BY DEF RemovedDrained
<1>a. life[k] # "pool" => ~processing[k] /\ count[k] = 0
  BY DEF RemovedDrained
<1>b. count[k] = Pending(k) + Len(beingSent[k]) + Cardinality(InFlight(k))
  BY DEF ResponsesAccounted, Pending, QLen
<1>c. /\ Pending(k) \in Nat /\ Len(beingSent[k]) \in Nat
      /\ Cardinality(InFlight(k)) \in Nat /\ count[k] \in Int
  BY <1>0, Numbers
<1>1. CASE UNCHANGED <<processing, count, life>>
  BY <1>1, <1>a
<1>2. ASSUME NEW t \in Threads, NEW c \in Clients, IncreaseCountForClient(t, c)
      PROVE  ~processing'[k] /\ count'[k] = 0
  BY <1>0, <1>2, <1>a DEF IncreaseCountForClient, ClientTypeOK
<1>3. ASSUME NEW t \in Threads, DecreaseCountForClient(t)
      PROVE  ~processing'[k] /\ count'[k] = 0
  <2>1. life[k] # "pool"
    BY <1>3 DEF DecreaseCountForClient
  <2>2. k # current[t]
    <3>1. SUFFICES ASSUME k = current[t] PROVE FALSE
      OBVIOUS
    <3>2. t \in InFlight(k)
      BY <1>3, <3>1 DEF DecreaseCountForClient, InFlight, HoldsWaitLock
    <3>3. Cardinality(InFlight(k)) # 0
      BY <3>2, InFlightFinite, FS_EmptySet
    <3> QED
      BY <1>a, <1>b, <1>c, <2>1, <3>3
  <2> QED
    BY <1>0, <1>3, <1>a, <2>1, <2>2 DEF DecreaseCountForClient, ClientTypeOK
<1>4. CASE RemoveClient
  BY <1>0, <1>4, <1>a DEF RemoveClient, NothingPending, RemovingInv, ClientTypeOK
<1>5. ASSUME NEW c \in Clients, CreateRequestAndQueue(c) \/ AfterRequestProcessing(c)
      PROVE  ~processing'[k] /\ count'[k] = 0
  BY <1>0, <1>5, <1>a DEF CreateRequestAndQueue, AfterRequestProcessing, ClientTypeOK
<1>6. ASSUME NEW c \in Clients, WriteBatchFails(c)
      PROVE  ~processing'[k] /\ count'[k] = 0
  <2>1. PICK n \in 1..Len(queue[c][Unlocked]) :
           CountAsSent(c, SubSeq(queue[c][Unlocked], 1, n))
    BY <1>6 DEF WriteBatchFails
  <2>2. UNCHANGED <<life, processing>>
    BY <1>6 DEF WriteBatchFails
  <2>3. k # c
    <3>1. SUFFICES ASSUME k = c PROVE FALSE
      OBVIOUS
    <3>2. Unlocked \in Directions
      BY <1>0, UnlockedType
    <3>3. \A e \in Directions : QLen(c, e) \in Nat
      BY <1>0 DEF ClientTypeOK, QLen
    <3>4. QLen(c, Unlocked) > 0
      BY <2>1, <3>2, <3>3 DEF QLen
    <3>5. Pending(k) > 0
      BY <3>1, <3>2, <3>3, <3>4 DEF Pending, Directions
    <3> QED
      BY <1>a, <1>b, <1>c, <2>2, <3>5
  <2> QED
    BY <1>0, <1>a, <2>1, <2>2, <2>3 DEF CountAsSent, ClientTypeOK
<1>7. ASSUME NEW c \in Clients, NEW ok \in BOOLEAN, AfterSendResponses(c, ok)
      PROVE  ~processing'[k] /\ count'[k] = 0
  <2>1. UNCHANGED <<life, processing>> /\ beingSent[c] # <<>>
        /\ count' = [count EXCEPT ![c] = @ - Len(beingSent[c])]
    BY <1>7 DEF AfterSendResponses, CountAsSent
  <2>2. k # c
    <3>1. SUFFICES ASSUME k = c PROVE FALSE
      OBVIOUS
    <3>2. Len(beingSent[k]) > 0
      BY <1>0, <2>1, <3>1 DEF ClientTypeOK
    <3> QED
      BY <1>a, <1>b, <1>c, <2>1, <3>2
  <2> QED
    BY <1>0, <1>a, <2>1, <2>2 DEF ClientTypeOK
<1>8. ASSUME NEW c \in Clients, AfterDisconnectionProcessing(c) \/ OnClientClosed(c)
      PROVE  ~processing'[k] /\ count'[k] = 0
  BY <1>0, <1>8, <1>a DEF AfterDisconnectionProcessing, OnClientClosed, ClientTypeOK
<1>9. ASSUME NEW t \in Threads,
             \/ \E r \in Responses, targets \in SUBSET Clients \ {{}} : CreateResponse(t, r, targets)
             \/ AddResponseToQueue(t)
             \/ SetReferenceCount(t)
      PROVE  UNCHANGED <<processing, count, life>>
  BY <1>9 DEF CreateResponse, AddResponseToQueue, SetReferenceCount, clientVars
<1>10. ASSUME NEW c \in Clients, OnReadError(c) \/ SkipClient(c) \/ WriteBatch(c)
       PROVE  UNCHANGED <<processing, count, life>>
  BY <1>10 DEF OnReadError, SkipClient, WriteBatch
<1>11. NothingToSend \/ ToggleDirection \/ SendingDone \/ UNCHANGED vars
       => UNCHANGED <<processing, count, life>>
  BY DEF NothingToSend, ToggleDirection, SendingDone, vars, clientVars
<1> QED
  BY <1>1, <1>2, <1>3, <1>4, <1>5, <1>6, <1>7, <1>8, <1>9, <1>10, <1>11
  DEF Next, ThreadNext, ClientNext, SendToClient

LEMMA SafetyInit == Init => SafetyInv
<1> SUFFICES ASSUME Init PROVE SafetyInv
  OBVIOUS
<1>1. TypeInv
  BY TypeInit
<1>2. ResponsesAccounted
  <2> SUFFICES ASSUME NEW c \in Clients
               PROVE  count[c] = Len(queue[c][1]) + Len(queue[c][2])
                                   + Len(beingSent[c]) + Cardinality(InFlight(c))
    BY DEF ResponsesAccounted
  <2>1. InFlight(c) = {}
    BY DEF Init, InFlight, HoldsWaitLock
  <2>2. queue[c][1] = <<>> /\ queue[c][2] = <<>> /\ beingSent[c] = <<>> /\ count[c] = 0
    BY DEF Init, Directions
  <2> QED
    BY <2>1, <2>2, FS_EmptySet
<1>3. ReceivingHasResponse /\ RemovingInv /\ RemovedDrained
  BY DEF Init, ReceivingHasResponse, RemovingInv, RemovedDrained
<1> QED
  BY <1>1, <1>2, <1>3 DEF SafetyInv

LEMMA SafetyNext == SafetyInv /\ [Next]_vars => SafetyInv'
  BY TypeNext, AccountedNext, ReceivingNext, RemovingNext, DrainedNext DEF SafetyInv

\* The inductive invariant holds of every reachable state.
THEOREM SafetyInvariant == Spec => []SafetyInv
  BY SafetyInit, SafetyNext, PTL DEF Spec

\* ClientsPool's counter of responses is exact, whatever the interleaving of threads
\* and event loop.
THEOREM AccountingCorrect == Spec => []ResponsesAccounted
<1>1. SafetyInv => ResponsesAccounted
  BY DEF SafetyInv
<1> QED
  BY <1>1, SafetyInvariant, PTL

\* SendLocalClientsResponses never finds an empty queue for a client of its set.
THEOREM ReceivingCorrect == Spec => []ReceivingHasResponse
<1>1. SafetyInv => ReceivingHasResponse
  BY DEF SafetyInv
<1> QED
  BY <1>1, SafetyInvariant, PTL

\* No thread, queue, set, batch or request refers to a client that has left the pool,
\* so the stClient that on_client_closed deletes is never used again.
THEOREM DisconnectionSafe == Spec => []RemovedClientUnreferenced
<1>1. ASSUME SafetyInv PROVE RemovedClientUnreferenced
  <2>0. ClientTypeOK /\ TypeInv
    BY <1>1 DEF SafetyInv, TypeInv, TypeOK
  <2> SUFFICES ASSUME NEW c \in Clients, life[c] # "pool"
               PROVE  /\ ~processing[c] /\ count[c] = 0
                      /\ beingSent[c] = <<>>
                      /\ \A d \in Directions : queue[c][d] = <<>> /\ c \notin receiving[d]
                      /\ InFlight(c) = {}
                      /\ loopClient # c
    BY DEF RemovedClientUnreferenced
  <2>1. ~processing[c] /\ count[c] = 0
    BY <1>1 DEF SafetyInv, RemovedDrained
  <2>2. count[c] = Pending(c) + Len(beingSent[c]) + Cardinality(InFlight(c))
    BY <1>1 DEF SafetyInv, ResponsesAccounted, Pending, QLen
  <2>3. \A d \in Directions : QLen(c, d) \in Nat
    BY <2>0 DEF ClientTypeOK, QLen
  <2>4. Len(beingSent[c]) = 0 /\ Cardinality(InFlight(c)) = 0 /\ Pending(c) = 0
    BY <2>0, <2>1, <2>2, Numbers
  <2>5. \A d \in Directions : QLen(c, d) = 0
    BY <2>3, <2>4 DEF Pending, Directions
  <2>6. \A d \in Directions : queue[c][d] = <<>>
    BY <2>0, <2>5 DEF QLen, ClientTypeOK
  <2>7. beingSent[c] = <<>>
    BY <2>0, <2>4 DEF ClientTypeOK
  <2>8. InFlight(c) = {}
    BY <2>4, InFlightFinite, FS_EmptySet
  <2>9. \A d \in Directions : c \notin receiving[d]
    BY <1>1, <2>6 DEF SafetyInv, ReceivingHasResponse
  <2>10. loopClient # c
    BY <1>1, ResponseQueuesAssumption DEF SafetyInv, RemovingInv
  <2> QED
    BY <2>1, <2>6, <2>7, <2>8, <2>9, <2>10
<1> QED
  BY <1>1, SafetyInvariant, PTL
===============================================================================
