---------------------------- MODULE PeerServersProofs ----------------------------
(***************************************************************************)
(* The connections to peers and the responses forwarded over them, for     *)
(* every number of servers and responses: responses are in one place, the  *)
(* counters are exact, acknowledgements are accounted for, no queue is     *)
(* forgotten, and a server that disconnects does so until it is closed.    *)
(***************************************************************************)
EXTENDS PeerServers, FiniteSetTheorems, TLAPS

-------------------------------------------------------------------------------
(* The inductive invariant                                                   *)

Statuses == {"uninitiated", "connecting", "connected", "disconnecting", "disconnected"}
HandleStates == {"none", "resolving", "connecting", "open", "closing"}
Fates == {"unborn", "queued", "sent", "failed"}

\* The type invariant, in parts; the counters of connections have one of their own.
Flags ==
    /\ reads \in [Servers -> BOOLEAN]
    /\ connectLate \in [Servers -> BOOLEAN]
    /\ retryDue \in [Servers -> BOOLEAN]

ConnValues ==
    /\ status \in [Servers -> Statuses]
    /\ handle \in [Servers -> HandleStates]
    /\ cooling \in [Servers -> 0..3]
    /\ forwarded \in [Servers -> Int]
    /\ wire \in [Servers -> Nat]

QueueValues ==
    /\ direction \in Directions
    /\ queue \in [Servers -> [Directions -> SUBSET Responses]]
    /\ receiving \in [Directions -> SUBSET Servers]
    /\ beingSent \in [Servers -> SUBSET Responses]
    /\ fate \in [Responses -> Fates]
    /\ inQueues \in Nat

LoopValues ==
    /\ loop \in {"idle", "reading", "periodic", "sending", "checking", "stopped"}
    /\ visit \in SUBSET Servers
    /\ reader \in SUBSET Servers
    /\ acks \in Nat
    /\ stage \in {"running", "draining", "closed", "stopping"}

\* A response that counts is in one queue or batch, and no other is in any.
Queued == {r \in Responses : fate[r] = "queued"}

PlaceInv ==
    /\ inQueues = Cardinality(Queued)
    /\ \A s \in Servers : beingSent[s] \subseteq Queued /\ \A d \in Directions : queue[s][d] \subseteq Queued
    /\ \A r \in Queued : \E s \in Servers : r \in beingSent[s] \/ \E d \in Directions : r \in queue[s][d]
    /\ \A s, t \in Servers : beingSent[s] \cap beingSent[t] # {} => s = t
    /\ \A s, t \in Servers : \A d, e \in Directions :
          queue[s][d] \cap queue[t][e] # {} => s = t /\ d = e
    /\ \A s, t \in Servers : \A d \in Directions : beingSent[s] \cap queue[t][d] = {}

\* What the status says of the handle, and that a server without connection has nothing
\* under way.
Conn(s) ==
    /\ handle[s] = "open" <=> status[s] = "connected"
    /\ handle[s] = "closing" <=> status[s] = "disconnecting"
    /\ handle[s] \in {"resolving", "connecting"} => status[s] = "connecting"
    /\ handle[s] \in {"none", "resolving", "connecting"} =>
          forwarded[s] = 0 /\ wire[s] = 0 /\ beingSent[s] = {}

ConnInv == \A s \in Servers : Conn(s)

\* on_read: acknowledgements that are still to be processed belong to one connected server;
\* while DoPeriodicActivities runs between two of them, a batch for it is being written.
ReaderInv ==
    /\ loop \in {"idle", "stopped"} => acks = 0
    /\ loop = "reading" => acks > 0
    /\ acks > 0 => \E s \in Servers :
          reader = {s} /\ status[s] = "connected" /\ (loop # "reading" => beingSent[s] # {})

\* The acknowledgements of a connected server.
Pending(s) == IF s \in reader THEN acks ELSE 0
AckInv ==
    \A s \in Servers : status[s] = "connected" =>
        forwarded[s] + Cardinality(beingSent[s]) = wire[s] + Pending(s)

\* The counters, when no call fails behind their back.
CounterInv ==
    /\ serversConnecting = Cardinality(InState("connecting"))
    /\ serversClosing = Cardinality(InState("closing"))
    /\ serversConnected = Cardinality(InState("open"))

SetInv ==
    /\ \A d \in Directions : \A s \in receiving[d] : queue[s][d] # {}
    /\ visit \subseteq receiving[Unlocked]

-------------------------------------------------------------------------------
(* Sets and functions                                                        *)

LEMMA ResponseSets ==
    ASSUME NEW S \in SUBSET Responses
    PROVE  IsFiniteSet(S) /\ Cardinality(S) \in Nat /\ (Cardinality(S) = 0 <=> S = {})
<1>1. IsFiniteSet(S)
  BY PeerServersAssumption, FS_Subset
<1> QED
  BY <1>1, FS_CardinalityType, FS_EmptySet

LEMMA ServerSets ==
    ASSUME NEW S \in SUBSET Servers
    PROVE  /\ IsFiniteSet(S) /\ Cardinality(S) \in Nat /\ (Cardinality(S) = 0 <=> S = {})
           /\ \A s \in Servers : /\ s \notin S => Cardinality(S \cup {s}) = Cardinality(S) + 1
                                 /\ s \in S => Cardinality(S \ {s}) = Cardinality(S) - 1
<1>1. IsFiniteSet(S)
  BY PeerServersAssumption, FS_Subset
<1> QED
  BY <1>1, FS_CardinalityType, FS_EmptySet, FS_AddElement, FS_RemoveElement

LEMMA TwoDirections ==
    ASSUME direction \in Directions
    PROVE  /\ Unlocked \in Directions /\ Unlocked # direction
           /\ \A d \in Directions : d = direction \/ d = Unlocked
BY DEF Directions, Unlocked, Other

\* A change of one queue.
LEMMA OneQueue ==
    ASSUME QueueValues, NEW s \in Servers, NEW d \in Directions, NEW X \in SUBSET Responses,
           queue' = [queue EXCEPT ![s][d] = X]
    PROVE  /\ queue' \in [Servers -> [Directions -> SUBSET Responses]]
           /\ \A t \in Servers : \A e \in Directions :
                 queue'[t][e] = IF t = s /\ e = d THEN X ELSE queue[t][e]
BY DEF QueueValues

\* The end of a batch of responses that count.
LEMMA BatchEnds ==
    ASSUME QueueValues, inQueues = Cardinality(Queued), NEW B \in SUBSET Queued,
           NEW result \in {"sent", "failed"}, FinishBatch(B, result)
    PROVE  /\ fate' \in [Responses -> Fates] /\ inQueues' \in Nat
           /\ Queued' = Queued \ B /\ inQueues' = Cardinality(Queued')
<1>1. fate' = [r \in Responses |-> IF r \in B THEN result ELSE fate[r]]
  BY DEF FinishBatch
<1>2. fate' \in [Responses -> Fates] /\ Queued' = Queued \ B
  BY <1>1 DEF QueueValues, Fates, Queued
<1>3. Queued \in SUBSET Responses /\ Queued \ B \in SUBSET Responses /\ B \in SUBSET Responses
  BY DEF Queued
<1>4. /\ IsFiniteSet(Queued) /\ Cardinality(Queued \ B) \in Nat /\ Queued \cap B = B
      /\ Cardinality(Queued) \in Nat /\ Cardinality(B) \in Nat
  BY <1>3, ResponseSets
<1>5. Cardinality(Queued \ B) = Cardinality(Queued) - Cardinality(B)
  BY <1>4, FS_Difference
<1>6. inQueues' = Cardinality(Queued \ B)
  BY <1>5 DEF FinishBatch
<1> QED
  BY <1>2, <1>4, <1>6

\* The sets a server is put back to.
LEMMA Back ==
    ASSUME QueueValues, NEW s \in Servers, NEW erased, BackToSets(s, erased)
    PROVE  /\ receiving' \in [Directions -> SUBSET Servers]
           /\ \A d \in Directions : \A t \in Servers :
                 \/ t # s /\ (t \in receiving'[d] <=> t \in receiving[d])
                 \/ t = s /\ d \in erased /\ t \notin receiving'[d]
                 \/ /\ t = s /\ d \notin erased
                    /\ t \in receiving'[d] => t \in receiving[d] \/ queue'[t][d] # {}
                    /\ t \in receiving[d] => t \in receiving'[d]
                    /\ "loop" \notin OutOfMemory /\ queue'[t][d] # {} => t \in receiving'[d]
<1>1. PICK failed \in SUBSET Directions :
         /\ failed # {} => "loop" \in OutOfMemory
         /\ receiving' = [d \in Directions |->
                IF d \in erased THEN receiving[d] \ {s}
                ELSE IF queue'[s][d] # {} /\ d \notin failed THEN receiving[d] \cup {s}
                ELSE receiving[d]]
  BY DEF BackToSets
<1> QED
  BY <1>1 DEF QueueValues

LEMMA InitQueues == Init => QueueValues /\ PlaceInv
<1> SUFFICES ASSUME Init PROVE QueueValues /\ PlaceInv
  OBVIOUS
<1>1. QueueValues
  BY DEF Init, QueueValues, Directions, Fates
<1>2. Queued = {}
  BY DEF Init, Queued
<1>3. inQueues = Cardinality(Queued)
  BY <1>2, FS_EmptySet DEF Init
<1> QED
  BY <1>1, <1>2, <1>3 DEF Init, PlaceInv

-------------------------------------------------------------------------------
(* Responses are in one place                                                *)

\* The actions that leave queues, batches and fates alone.
LEMMA QueuesKept ==
    ASSUME QueueValues, PlaceInv, direction' \in Directions,
           receiving' \in [Directions -> SUBSET Servers],
           UNCHANGED <<queue, beingSent, fate, inQueues>>
    PROVE  QueueValues' /\ PlaceInv'
<1>1. Queued' = Queued
  BY DEF Queued
<1>2. QueueValues'
  BY DEF QueueValues
<1>3. PlaceInv'
  BY <1>1 DEF PlaceInv
<1> QED
  BY <1>2, <1>3

LEMMA AddPlace ==
    ASSUME QueueValues, PlaceInv, NEW r \in Responses, NEW s \in Servers, AddResponseToQueue(r, s)
    PROVE  QueueValues' /\ PlaceInv'
<1>1. /\ queue' = [queue EXCEPT ![s][direction] = queue[s][direction] \cup {r}]
      /\ direction \in Directions /\ queue[s][direction] \cup {r} \in SUBSET Responses
  BY DEF AddResponseToQueue, QueueValues
<1>2. /\ queue' \in [Servers -> [Directions -> SUBSET Responses]]
      /\ \A t \in Servers : \A e \in Directions :
            queue'[t][e] = IF t = s /\ e = direction THEN queue[s][direction] \cup {r} ELSE queue[t][e]
  BY <1>1, OneQueue
<1>3. fate[r] = "unborn" /\ fate' = [fate EXCEPT ![r] = "queued"] /\ inQueues' = inQueues + 1
  BY DEF AddResponseToQueue
<1>4. fate' \in [Responses -> Fates] /\ Queued' = Queued \cup {r} /\ r \notin Queued
  BY <1>3 DEF QueueValues, Fates, Queued
<1>5. inQueues' = Cardinality(Queued')
  <2>1. Queued \in SUBSET Responses
    BY DEF Queued
  <2>2. IsFiniteSet(Queued)
    BY <2>1, ResponseSets
  <2>3. Cardinality(Queued \cup {r}) = Cardinality(Queued) + 1
    BY <1>4, <2>2, FS_AddElement
  <2> QED
    BY <1>3, <1>4, <2>3 DEF PlaceInv
<1>6. UNCHANGED <<beingSent, direction>>
  BY DEF AddResponseToQueue, loopVars
<1>7. QueueValues'
  <2>1. receiving' \in [Directions -> SUBSET Servers]
    BY DEF AddResponseToQueue, QueueValues
  <2>2. inQueues' \in Nat
    BY <1>3 DEF QueueValues
  <2> QED
    BY <1>2, <1>4, <1>6, <2>1, <2>2 DEF QueueValues
<1>8. PlaceInv'
  <2>1. \A t \in Servers : beingSent[t] \subseteq Queued' /\ \A d \in Directions : queue'[t][d] \subseteq Queued'
    BY <1>2, <1>4 DEF PlaceInv
  <2>2. \A q \in Queued' : \E t \in Servers : q \in beingSent[t] \/ \E d \in Directions : q \in queue'[t][d]
    BY <1>1, <1>2, <1>4 DEF PlaceInv
  <2>3. \A t, u \in Servers : \A d, e \in Directions :
          queue'[t][d] \cap queue'[u][e] # {} => t = u /\ d = e
    BY <1>2, <1>4, SMTT(30) DEF PlaceInv
  <2>4. \A t, u \in Servers : \A d \in Directions : beingSent[t] \cap queue'[u][d] = {}
    BY <1>2, <1>4, SMTT(30) DEF PlaceInv
  <2> QED
    BY <1>5, <1>6, <2>1, <2>2, <2>3, <2>4 DEF PlaceInv
<1> QED
  BY <1>7, <1>8

LEMMA RefusePlace ==
    ASSUME QueueValues, PlaceInv, NEW r \in Responses, RefuseResponse(r)
    PROVE  QueueValues' /\ PlaceInv'
<1>1. /\ fate[r] = "unborn" /\ fate' = [fate EXCEPT ![r] = "failed"]
      /\ UNCHANGED <<queue, receiving, beingSent, inQueues, direction>>
  BY DEF RefuseResponse, loopVars
<1>2. fate' \in [Responses -> Fates] /\ Queued' = Queued
  BY <1>1 DEF QueueValues, Fates, Queued
<1> QED
  BY <1>1, <1>2 DEF QueueValues, PlaceInv

LEMMA WritePlace ==
    ASSUME QueueValues, PlaceInv, NEW s \in Servers, WriteBatch(s)
    PROVE  QueueValues' /\ PlaceInv'
<1>1. Unlocked \in Directions
  BY TwoDirections DEF QueueValues
<1>2. /\ queue' = [queue EXCEPT ![s][Unlocked] = {}] /\ beingSent[s] = {}
      /\ beingSent' = [beingSent EXCEPT ![s] = queue[s][Unlocked]]
      /\ receiving' = [receiving EXCEPT ![Unlocked] = @ \ {s}]
      /\ UNCHANGED <<fate, inQueues, direction>>
  BY DEF WriteBatch, LeaveUnlockedSet
<1>3. /\ queue' \in [Servers -> [Directions -> SUBSET Responses]]
      /\ \A t \in Servers : \A e \in Directions :
            queue'[t][e] = IF t = s /\ e = Unlocked THEN {} ELSE queue[t][e]
  BY <1>1, <1>2, OneQueue
<1>4. /\ beingSent' \in [Servers -> SUBSET Responses]
      /\ \A t \in Servers : beingSent'[t] = IF t = s THEN queue[s][Unlocked] ELSE beingSent[t]
  BY <1>1, <1>2 DEF QueueValues
<1>5. Queued' = Queued
  BY <1>2 DEF Queued
<1>6. QueueValues'
  BY <1>1, <1>2, <1>3, <1>4 DEF QueueValues
<1>7. PlaceInv'
  <2>1. \A t \in Servers : beingSent'[t] \subseteq Queued' /\ \A d \in Directions : queue'[t][d] \subseteq Queued'
    BY <1>1, <1>3, <1>4, <1>5, ZenonT(40) DEF PlaceInv
  <2>2. \A q \in Queued' : \E t \in Servers : q \in beingSent'[t] \/ \E d \in Directions : q \in queue'[t][d]
    <3> SUFFICES ASSUME NEW q \in Queued
                 PROVE  \E t \in Servers : q \in beingSent'[t] \/ \E d \in Directions : q \in queue'[t][d]
      BY <1>5
    <3>1. PICK t \in Servers : q \in beingSent[t] \/ \E d \in Directions : q \in queue[t][d]
      BY DEF PlaceInv
    <3> QED
      BY <1>2, <1>3, <1>4, <3>1
  <2>3. \A t, u \in Servers : beingSent'[t] \cap beingSent'[u] # {} => t = u
    BY <1>1, <1>4 DEF PlaceInv
  <2>4. \A t, u \in Servers : \A d, e \in Directions :
          queue'[t][d] \cap queue'[u][e] # {} => t = u /\ d = e
    BY <1>3 DEF PlaceInv
  <2>5. \A t, u \in Servers : \A d \in Directions : beingSent'[t] \cap queue'[u][d] = {}
    BY <1>1, <1>3, <1>4 DEF PlaceInv
  <2> QED
    BY <1>2, <1>5, <2>1, <2>2, <2>3, <2>4, <2>5 DEF PlaceInv
<1> QED
  BY <1>6, <1>7

LEMMA FailPlace ==
    ASSUME QueueValues, PlaceInv, NEW s \in Servers, FailQueue(s)
    PROVE  QueueValues' /\ PlaceInv'
<1> DEFINE B == queue[s][Unlocked]
<1>1. Unlocked \in Directions
  BY TwoDirections DEF QueueValues
<1>2. /\ queue' = [queue EXCEPT ![s][Unlocked] = {}] /\ FinishBatch(B, "failed")
      /\ BackToSets(s, {Unlocked}) /\ UNCHANGED <<beingSent, direction>>
  BY DEF FailQueue
<1>3. /\ queue' \in [Servers -> [Directions -> SUBSET Responses]]
      /\ \A t \in Servers : \A e \in Directions :
            queue'[t][e] = IF t = s /\ e = Unlocked THEN {} ELSE queue[t][e]
  BY <1>1, <1>2, OneQueue
<1>4. B \in SUBSET Queued
  BY <1>1 DEF PlaceInv
<1>5. /\ fate' \in [Responses -> Fates] /\ inQueues' \in Nat
      /\ Queued' = Queued \ B /\ inQueues' = Cardinality(Queued')
  BY <1>2, <1>4, BatchEnds DEF PlaceInv
<1>6. QueueValues'
  <2>1. receiving' \in [Directions -> SUBSET Servers]
    BY <1>2, Back
  <2> QED
    BY <1>2, <1>3, <1>5, <2>1 DEF QueueValues
<1>7. PlaceInv'
  <2>1. \A t \in Servers : beingSent[t] \subseteq Queued' /\ \A d \in Directions : queue'[t][d] \subseteq Queued'
    BY <1>1, <1>3, <1>5 DEF PlaceInv
  <2>2. \A q \in Queued' : \E t \in Servers : q \in beingSent[t] \/ \E d \in Directions : q \in queue'[t][d]
    <3> SUFFICES ASSUME NEW q \in Queued, q \notin B
                 PROVE  \E t \in Servers : q \in beingSent[t] \/ \E d \in Directions : q \in queue'[t][d]
      BY <1>5
    <3>1. PICK t \in Servers : q \in beingSent[t] \/ \E d \in Directions : q \in queue[t][d]
      BY DEF PlaceInv
    <3> QED
      BY <1>3, <3>1
  <2>3. \A t, u \in Servers : \A d, e \in Directions :
          queue'[t][d] \cap queue'[u][e] # {} => t = u /\ d = e
    BY <1>3 DEF PlaceInv
  <2>4. \A t, u \in Servers : \A d \in Directions : beingSent[t] \cap queue'[u][d] = {}
    BY <1>3 DEF PlaceInv
  <2> QED
    BY <1>2, <1>5, <2>1, <2>2, <2>3, <2>4 DEF PlaceInv
<1> QED
  BY <1>6, <1>7

LEMMA AfterPlace ==
    ASSUME QueueValues, PlaceInv, NEW s \in Servers, NEW ok \in BOOLEAN, AfterSendResponses(s, ok)
    PROVE  QueueValues' /\ PlaceInv'
<1> DEFINE B == beingSent[s]
<1>1. /\ queue' = queue /\ BackToSets(s, {}) /\ UNCHANGED direction
      /\ beingSent' = [beingSent EXCEPT ![s] = {}]
      /\ FinishBatch(B, "sent") \/ FinishBatch(B, "failed")
  BY DEF AfterSendResponses
<1>2. /\ beingSent' \in [Servers -> SUBSET Responses]
      /\ \A t \in Servers : beingSent'[t] = IF t = s THEN {} ELSE beingSent[t]
  BY <1>1 DEF QueueValues
<1>3. B \in SUBSET Queued
  BY DEF PlaceInv
<1>4. /\ fate' \in [Responses -> Fates] /\ inQueues' \in Nat
      /\ Queued' = Queued \ B /\ inQueues' = Cardinality(Queued')
  BY <1>1, <1>3, BatchEnds DEF PlaceInv
<1>5. QueueValues'
  <2>1. receiving' \in [Directions -> SUBSET Servers]
    BY <1>1, Back
  <2> QED
    BY <1>1, <1>2, <1>4, <2>1 DEF QueueValues
<1>6. PlaceInv'
  <2>1. \A t \in Servers : beingSent'[t] \subseteq Queued' /\ \A d \in Directions : queue[t][d] \subseteq Queued'
    BY <1>2, <1>4 DEF PlaceInv
  <2>2. \A q \in Queued' : \E t \in Servers : q \in beingSent'[t] \/ \E d \in Directions : q \in queue[t][d]
    <3> SUFFICES ASSUME NEW q \in Queued, q \notin B
                 PROVE  \E t \in Servers : q \in beingSent'[t] \/ \E d \in Directions : q \in queue[t][d]
      BY <1>4
    <3>1. PICK t \in Servers : q \in beingSent[t] \/ \E d \in Directions : q \in queue[t][d]
      BY DEF PlaceInv
    <3> QED
      BY <1>2, <3>1
  <2>3. \A t, u \in Servers : beingSent'[t] \cap beingSent'[u] # {} => t = u
    BY <1>2 DEF PlaceInv
  <2>4. \A t, u \in Servers : \A d \in Directions : beingSent'[t] \cap queue[u][d] = {}
    BY <1>2 DEF PlaceInv
  <2> QED
    BY <1>1, <1>4, <2>1, <2>2, <2>3, <2>4 DEF PlaceInv
<1> QED
  BY <1>5, <1>6

LEMMA NextPlace == QueueValues /\ PlaceInv /\ [Next]_vars => QueueValues' /\ PlaceInv'
<1> SUFFICES ASSUME QueueValues, PlaceInv, [Next]_vars PROVE QueueValues' /\ PlaceInv'
  OBVIOUS
<1>1. ASSUME UNCHANGED <<queueVars, direction>> PROVE QueueValues' /\ PlaceInv'
  <2>1. UNCHANGED <<queue, receiving, beingSent, fate, inQueues, direction>>
    BY <1>1 DEF queueVars
  <2> QED
    BY <2>1, QueuesKept DEF QueueValues
<1>2. ASSUME NEW s \in Servers,
             \/ AfterGetAddrInfo(s) \/ GetAddrInfoFails(s) \/ AfterConnect(s) \/ ConnectFails(s)
             \/ OnServerClosed(s) \/ OnReadError(s) \/ ProcessAcknowledgement(s)
             \/ ConnectingTimesOut(s) \/ RetryBecomesDue(s) \/ InitiateConnection(s)
             \/ WaitForConnection(s) \/ ReserveFails(s)
      PROVE  QueueValues' /\ PlaceInv'
  BY <1>1, <1>2 DEF AfterGetAddrInfo, GetAddrInfoFails, AfterConnect, ConnectFails, OnServerClosed,
     OnReadError, ProcessAcknowledgement, ConnectingTimesOut, RetryBecomesDue, InitiateConnection,
     WaitForConnection, ReserveFails, loopVars
<1>3. ASSUME NEW s \in Servers, NEW n, OnRead(s, n) PROVE QueueValues' /\ PlaceInv'
  BY <1>1, <1>3 DEF OnRead
<1>4. CASE NothingToSend \/ SendingDone \/ Checking \/ Shutdown
  BY <1>1, <1>4 DEF NothingToSend, SendingDone, Checking, NothingToClose, DeleteRequestProcessors,
     DisconnectAndCloseAllConnections, StopLogger, Shutdown
<1>5. CASE ToggleDirection
  <2>1. direction' \in Directions /\ UNCHANGED <<queue, receiving, beingSent, fate, inQueues>>
    BY <1>5, TwoDirections DEF ToggleDirection, QueueValues, queueVars, Unlocked
  <2> QED
    BY <2>1, QueuesKept DEF QueueValues
<1>6. ASSUME NEW s \in Servers, SkipServer(s) PROVE QueueValues' /\ PlaceInv'
  <2>1. /\ receiving' = [receiving EXCEPT ![Unlocked] = @ \ {s}]
        /\ UNCHANGED <<queue, beingSent, fate, inQueues, direction>>
    BY <1>6 DEF SkipServer, LeaveUnlockedSet
  <2>2. receiving' \in [Directions -> SUBSET Servers]
    BY <2>1 DEF QueueValues
  <2> QED
    BY <2>1, <2>2, QueuesKept DEF QueueValues
<1>7. ASSUME NEW s \in Servers, ConnectionOutOfMemory(s) \/ FailBatch(s) PROVE QueueValues' /\ PlaceInv'
  BY <1>7, FailPlace DEF ConnectionOutOfMemory, FailBatch
<1>8. CASE UNCHANGED vars
  BY <1>1, <1>8 DEF vars, loopVars
<1>9. ASSUME NEW s \in Servers, ServerNext(s) PROVE QueueValues' /\ PlaceInv'
  BY <1>2, <1>3, <1>6, <1>7, <1>9, WritePlace, AfterPlace DEF ServerNext, SendToServer
<1> QED
  BY <1>4, <1>5, <1>8, <1>9, AddPlace, RefusePlace DEF Next

\* A response that counts is in exactly one queue or batch, and no other is in any: the
\* number GetResponsesInQueue lets a shutdown wait for is exact.
THEOREM ForwardedAccountedCorrect == Spec => []ForwardedResponsesAccounted
<1>1. QueueValues /\ PlaceInv => ForwardedResponsesAccounted
  <2> SUFFICES ASSUME QueueValues, PlaceInv, NEW r \in Responses
               PROVE  Cardinality({s \in Servers : r \in beingSent[s]})
                        + Cardinality({x \in Servers \X Directions : r \in queue[x[1]][x[2]]})
                      = IF fate[r] = "queued" THEN 1 ELSE 0
    BY DEF ForwardedResponsesAccounted, PlaceInv, Queued
  <2> DEFINE A == {s \in Servers : r \in beingSent[s]}
             Q == {x \in Servers \X Directions : r \in queue[x[1]][x[2]]}
  <2>0. Cardinality({}) = 0 /\ \A x : Cardinality({x}) = 1
    BY FS_EmptySet, FS_Singleton
  <2>1. CASE r \notin Queued
    <3>1. A = {}
      BY <2>1 DEF PlaceInv
    <3>2. Q = {}
      BY <2>1 DEF PlaceInv
    <3>3. fate[r] # "queued"
      BY <2>1 DEF Queued
    <3> HIDE DEF A, Q
    <3>4. Cardinality(A) = 0 /\ Cardinality(Q) = 0
      BY <2>0, <3>1, <3>2
    <3>5. Cardinality(A) + Cardinality(Q) = 0
      BY <3>4
    <3> QED
      BY <3>3, <3>5 DEF A, Q
  <2>2. ASSUME r \in Queued, NEW s \in Servers, r \in beingSent[s]
        PROVE  Cardinality(A) + Cardinality(Q) = 1
    <3>1. A = {s}
      BY <2>2 DEF PlaceInv
    <3>2. Q = {}
      BY <2>2 DEF PlaceInv
    <3> HIDE DEF A, Q
    <3>3. Cardinality(A) = 1
      BY <2>0, <3>1, Zenon
    <3>4. Cardinality(Q) = 0
      BY <2>0, <3>2, Zenon
    <3> QED
      BY <3>3, <3>4
  <2>3. ASSUME r \in Queued, NEW s \in Servers, NEW d \in Directions, r \in queue[s][d]
        PROVE  Cardinality(A) + Cardinality(Q) = 1
    <3>1. A = {}
      BY <2>3 DEF PlaceInv
    <3>2. \A t \in Servers : \A e \in Directions : r \in queue[t][e] => t = s /\ e = d
      BY <2>3 DEF PlaceInv
    <3>3. Q = {<<s, d>>}
      BY <2>3, <3>2
    <3> HIDE DEF A, Q
    <3>4. Cardinality(A) = 0
      BY <2>0, <3>1, Zenon
    <3>5. Cardinality(Q) = 1
      BY <2>0, <3>3, Zenon
    <3> QED
      BY <3>4, <3>5
  <2>4. r \in Queued => \E s \in Servers : r \in beingSent[s] \/ \E d \in Directions : r \in queue[s][d]
    BY DEF PlaceInv
  <2>5. r \in Queued => Cardinality(A) + Cardinality(Q) = 1
    BY <2>2, <2>3, <2>4
  <2> QED
    BY <2>1, <2>5 DEF Queued
<1> QED
  BY InitQueues, NextPlace, <1>1, PTL DEF Spec

-------------------------------------------------------------------------------
(* Sets and queues                                                           *)

\* A queue that holds responses is in its set, or a batch is being written.
KnownInv ==
    \A s \in Servers, d \in Directions :
        queue[s][d] # {} => s \in receiving[d] \/ beingSent[s] # {}

LEMMA NextSets ==
    ASSUME QueueValues, LoopValues, SetInv, [Next]_vars
    PROVE  SetInv' /\ ("loop" \notin OutOfMemory /\ KnownInv => KnownInv')
<1> DEFINE Goal == SetInv' /\ ("loop" \notin OutOfMemory /\ KnownInv => KnownInv')
<1>0. Unlocked \in Directions /\ Unlocked # direction
  BY TwoDirections DEF QueueValues
<1>1. ASSUME UNCHANGED <<queueVars, direction>>, visit' \subseteq visit PROVE Goal
  BY <1>1 DEF queueVars, SetInv, KnownInv, Unlocked
<1>2. ASSUME NEW s \in Servers,
             \/ AfterGetAddrInfo(s) \/ GetAddrInfoFails(s) \/ AfterConnect(s) \/ ConnectFails(s)
             \/ OnServerClosed(s) \/ OnReadError(s) \/ ProcessAcknowledgement(s)
             \/ ConnectingTimesOut(s) \/ RetryBecomesDue(s) \/ InitiateConnection(s)
             \/ WaitForConnection(s) \/ ReserveFails(s)
      PROVE  Goal
  <2>1. UNCHANGED <<queueVars, direction>> /\ visit' \subseteq visit
    BY <1>2 DEF AfterGetAddrInfo, GetAddrInfoFails, AfterConnect, ConnectFails, OnServerClosed,
       OnReadError, ProcessAcknowledgement, ConnectingTimesOut, RetryBecomesDue, InitiateConnection,
       WaitForConnection, ReserveFails, loopVars
  <2> QED
    BY <1>1, <2>1
<1>3. ASSUME NEW s \in Servers, NEW n, OnRead(s, n) PROVE Goal
  BY <1>1, <1>3 DEF OnRead
<1>4. CASE NothingToSend \/ SendingDone \/ Checking \/ Shutdown
  BY <1>1, <1>4 DEF NothingToSend, SendingDone, Checking, NothingToClose, DeleteRequestProcessors,
     DisconnectAndCloseAllConnections, StopLogger, Shutdown
<1>5. CASE ToggleDirection
  <2>1. /\ UNCHANGED <<queue, receiving, beingSent>> /\ visit' = receiving[direction]
        /\ Unlocked' = direction
    BY <1>5 DEF ToggleDirection, queueVars, Unlocked, Other, QueueValues, Directions
  <2> QED
    BY <2>1 DEF SetInv, KnownInv
<1>6. ASSUME NEW r \in Responses, NEW s \in Servers, AddResponseToQueue(r, s) PROVE Goal
  <2>1. /\ queue' = [queue EXCEPT ![s][direction] = queue[s][direction] \cup {r}]
        /\ direction \in Directions /\ queue[s][direction] \cup {r} \in SUBSET Responses
        /\ receiving' = [receiving EXCEPT ![direction] = @ \cup {s}]
        /\ UNCHANGED <<beingSent, direction, visit>>
    BY <1>6 DEF AddResponseToQueue, QueueValues, loopVars
  <2>2. \A t \in Servers : \A e \in Directions :
          queue'[t][e] = IF t = s /\ e = direction THEN queue[s][direction] \cup {r} ELSE queue[t][e]
    BY <2>1, OneQueue
  <2>3. \A e \in Directions : receiving'[e] = IF e = direction THEN receiving[e] \cup {s} ELSE receiving[e]
    BY <2>1 DEF QueueValues
  <2>4. \A e \in Directions : receiving'[e] \subseteq Servers
    BY <2>3 DEF QueueValues
  <2>5. \A e \in Directions : \A t \in receiving'[e] : queue'[t][e] # {}
    <3> SUFFICES ASSUME NEW e \in Directions, NEW t \in receiving'[e] PROVE queue'[t][e] # {}
      OBVIOUS
    <3>1. t \in Servers
      BY <2>4
    <3>2. CASE t = s /\ e = direction
      BY <2>2, <3>1, <3>2
    <3>3. CASE ~(t = s /\ e = direction)
      BY <2>2, <2>3, <3>1, <3>3 DEF SetInv
    <3> QED
      BY <3>2, <3>3
  <2>6. Unlocked' = Unlocked /\ visit' \subseteq receiving'[Unlocked]
    BY <1>0, <2>1, <2>3 DEF SetInv, Unlocked
  <2>7. KnownInv => KnownInv'
    BY <2>1, <2>2, <2>3 DEF KnownInv
  <2> QED
    BY <2>5, <2>6, <2>7 DEF SetInv
<1>7. ASSUME NEW r \in Responses, RefuseResponse(r) PROVE Goal
  <2>1. UNCHANGED <<queue, receiving, beingSent, direction, visit>>
    BY <1>7 DEF RefuseResponse, loopVars
  <2> QED
    BY <2>1 DEF SetInv, KnownInv, Unlocked
<1>8. ASSUME NEW s \in Servers, SkipServer(s) PROVE Goal
  <2>1. /\ receiving' = [receiving EXCEPT ![Unlocked] = @ \ {s}] /\ beingSent[s] # {}
        /\ visit' = visit \ {s} /\ UNCHANGED <<queue, beingSent, direction>>
    BY <1>8 DEF SkipServer, LeaveUnlockedSet
  <2>2. \A e \in Directions : receiving'[e] = IF e = Unlocked THEN receiving[e] \ {s} ELSE receiving[e]
    BY <2>1 DEF QueueValues
  <2>3. SetInv'
    BY <1>0, <2>1, <2>2 DEF SetInv, Unlocked
  <2>4. KnownInv => KnownInv'
    BY <2>1, <2>2 DEF KnownInv
  <2> QED
    BY <2>3, <2>4
<1>9. ASSUME NEW s \in Servers, WriteBatch(s) PROVE Goal
  <2>1. /\ queue' = [queue EXCEPT ![s][Unlocked] = {}] /\ beingSent[s] = {}
        /\ beingSent' = [beingSent EXCEPT ![s] = queue[s][Unlocked]]
        /\ receiving' = [receiving EXCEPT ![Unlocked] = @ \ {s}]
        /\ visit' = visit \ {s} /\ s \in visit /\ UNCHANGED direction
    BY <1>9 DEF WriteBatch, LeaveUnlockedSet
  <2>2. \A t \in Servers : \A e \in Directions :
          queue'[t][e] = IF t = s /\ e = Unlocked THEN {} ELSE queue[t][e]
    BY <1>0, <2>1, OneQueue
  <2>3. \A e \in Directions : /\ receiving'[e] = IF e = Unlocked THEN receiving[e] \ {s} ELSE receiving[e]
                              /\ receiving'[e] \subseteq Servers
    BY <2>1 DEF QueueValues
  <2>4. \A t \in Servers : beingSent'[t] = IF t = s THEN queue[s][Unlocked] ELSE beingSent[t]
    BY <2>1 DEF QueueValues
  <2>5. queue[s][Unlocked] # {}
    BY <1>0, <2>1 DEF SetInv
  <2>6. SetInv'
    <3>1. \A e \in Directions : \A t \in receiving'[e] : queue'[t][e] # {}
      BY <2>2, <2>3 DEF SetInv
    <3>2. Unlocked' = Unlocked /\ visit' \subseteq receiving'[Unlocked]
      BY <1>0, <2>1, <2>3 DEF SetInv, Unlocked
    <3> QED
      BY <3>1, <3>2 DEF SetInv
  <2>7. KnownInv => KnownInv'
    BY <2>2, <2>3, <2>4, <2>5 DEF KnownInv
  <2> QED
    BY <2>6, <2>7
<1>10. ASSUME NEW s \in Servers, ConnectionOutOfMemory(s) \/ FailBatch(s) PROVE Goal
  <2>1. FailQueue(s)
    BY <1>10 DEF ConnectionOutOfMemory, FailBatch
  <2>2. /\ queue' = [queue EXCEPT ![s][Unlocked] = {}]
        /\ BackToSets(s, {Unlocked}) /\ visit' = visit \ {s} /\ UNCHANGED <<beingSent, direction>>
    BY <2>1 DEF FailQueue
  <2>3. \A t \in Servers : \A e \in Directions :
          queue'[t][e] = IF t = s /\ e = Unlocked THEN {} ELSE queue[t][e]
    BY <1>0, <2>2, OneQueue
  <2>4. /\ receiving' \in [Directions -> SUBSET Servers]
        /\ \A d \in Directions : \A t \in Servers :
              \/ t # s /\ (t \in receiving'[d] <=> t \in receiving[d])
              \/ t = s /\ d = Unlocked /\ t \notin receiving'[d]
              \/ /\ t = s /\ d # Unlocked
                 /\ t \in receiving'[d] => t \in receiving[d] \/ queue'[t][d] # {}
                 /\ "loop" \notin OutOfMemory /\ queue'[t][d] # {} => t \in receiving'[d]
    BY <2>2, Back
  <2>5. SetInv'
    <3>1. \A e \in Directions : \A t \in receiving'[e] : queue'[t][e] # {}
      BY <2>3, <2>4 DEF SetInv
    <3>2. Unlocked' = Unlocked /\ visit' \subseteq receiving'[Unlocked]
      BY <1>0, <2>2, <2>4 DEF SetInv, Unlocked, LoopValues
    <3> QED
      BY <3>1, <3>2 DEF SetInv
  <2>6. "loop" \notin OutOfMemory /\ KnownInv => KnownInv'
    BY <2>2, <2>3, <2>4 DEF KnownInv
  <2> QED
    BY <2>5, <2>6
<1>11. ASSUME NEW s \in Servers, NEW ok \in BOOLEAN, AfterSendResponses(s, ok) PROVE Goal
  <2>1. /\ queue' = queue /\ BackToSets(s, {}) /\ UNCHANGED <<direction, visit>>
        /\ beingSent' = [beingSent EXCEPT ![s] = {}]
    BY <1>11 DEF AfterSendResponses
  <2>2. /\ receiving' \in [Directions -> SUBSET Servers]
        /\ \A d \in Directions : \A t \in Servers :
              /\ t \in receiving'[d] => t \in receiving[d] \/ queue'[t][d] # {}
              /\ t \in receiving[d] => t \in receiving'[d]
              /\ t = s /\ "loop" \notin OutOfMemory /\ queue'[t][d] # {} => t \in receiving'[d]
    BY <2>1, Back
  <2>3. SetInv'
    <3>1. \A e \in Directions : \A t \in receiving'[e] : queue'[t][e] # {}
      BY <2>1, <2>2 DEF SetInv
    <3>2. Unlocked' = Unlocked /\ visit' \subseteq receiving'[Unlocked]
      BY <1>0, <2>1, <2>2 DEF SetInv, Unlocked, LoopValues
    <3> QED
      BY <3>1, <3>2 DEF SetInv
  <2>4. \A t \in Servers : t # s => beingSent'[t] = beingSent[t]
    BY <2>1 DEF QueueValues
  <2>5. "loop" \notin OutOfMemory /\ KnownInv => KnownInv'
    BY <2>1, <2>2, <2>4 DEF KnownInv
  <2> QED
    BY <2>3, <2>5
<1>12. CASE UNCHANGED vars
  BY <1>1, <1>12 DEF vars, loopVars
<1>13. ASSUME NEW s \in Servers, ServerNext(s) PROVE Goal
  BY <1>2, <1>3, <1>8, <1>9, <1>10, <1>11, <1>13 DEF ServerNext, SendToServer
<1> QED
  BY <1>4, <1>5, <1>6, <1>7, <1>12, <1>13 DEF Next
-------------------------------------------------------------------------------
(* Connections and acknowledgements                                          *)

\* What DisconnectServer changes: it does something for connected servers only.
LEMMA Disconnected ==
    ASSUME ConnValues, ConnInv, NEW S \in SUBSET Servers, DisconnectServers(S)
    PROVE  /\ {s \in S : Disconnects(s)} = {s \in S : status[s] = "connected"}
           /\ status' \in [Servers -> Statuses] /\ handle' \in [Servers -> HandleStates]
           /\ \A s \in Servers :
                 IF s \in S /\ status[s] = "connected"
                 THEN handle[s] = "open" /\ status'[s] = "disconnecting" /\ handle'[s] = "closing"
                 ELSE status'[s] = status[s] /\ handle'[s] = handle[s]
<1>1. {s \in S : Disconnects(s)} = {s \in S : status[s] = "connected"}
  BY DEF ConnValues, ConnInv, Conn, Disconnects, HasConnection
<1>2. \A s \in Servers : status[s] = "connected" => handle[s] = "open"
  BY DEF ConnInv, Conn
<1> QED
  BY <1>1, <1>2 DEF DisconnectServers, ConnValues, Statuses, HandleStates

ConnGoal == ConnValues /\ LoopValues /\ ConnInv /\ ReaderInv /\ AckInv

LEMMA InitConn == Init => ConnGoal
<1> SUFFICES ASSUME Init PROVE ConnGoal
  OBVIOUS
<1>1. ConnValues /\ LoopValues /\ ConnInv /\ ReaderInv
  BY DEF Init, ConnValues, LoopValues, ConnInv, Conn, ReaderInv, Statuses, HandleStates
<1>2. AckInv
  BY DEF Init, AckInv
<1> QED
  BY <1>1, <1>2 DEF ConnGoal

\* The actions that leave connections and batches alone.
LEMMA ConnKept ==
    ASSUME ConnGoal, cooling' \in [Servers -> 0..3], visit' \in SUBSET Servers,
           stage' \in {"running", "draining", "closed", "stopping"},
           UNCHANGED <<status, handle, forwarded, wire, beingSent, reader, acks>>,
           \/ loop' = loop
           \/ loop \in {"idle", "periodic"} /\ loop' \in {"checking", "sending"}
           \/ loop = "sending" /\ loop' = "checking"
           \/ loop = "checking" /\ Return
           \/ loop = "idle" /\ loop' = "stopped"
    PROVE  ConnGoal'
<1>1. ConnValues' /\ LoopValues'
  BY DEF ConnGoal, ConnValues, LoopValues, Return
<1>2. ConnInv' /\ AckInv'
  BY DEF ConnGoal, ConnInv, Conn, AckInv, Pending
<1>3. ReaderInv'
  BY DEF ConnGoal, LoopValues, ReaderInv, Return
<1> QED
  BY <1>1, <1>2, <1>3 DEF ConnGoal
\* The event loop outside of on_read owes no acknowledgement.
LEMMA IdleOwesNothing ==
    ASSUME ConnGoal, loop = "idle"
    PROVE  acks = 0 /\ \A s \in Servers : Pending(s) = 0
BY DEF ConnGoal, ReaderInv, Pending

\* A callback of the idle loop that changes one connection and no batch.
LEMMA OneConn ==
    ASSUME ConnGoal, QueueValues, NEW s \in Servers, loop = "idle",
           loop' \in {"idle", "periodic"},
           status' \in [Servers -> Statuses], handle' \in [Servers -> HandleStates],
           cooling' \in [Servers -> 0..3], forwarded' \in [Servers -> Int],
           wire' \in [Servers -> Nat],
           \A t \in Servers : t # s =>
              /\ status'[t] = status[t] /\ handle'[t] = handle[t]
              /\ forwarded'[t] = forwarded[t] /\ wire'[t] = wire[t],
           Conn(s)', status'[s] = "connected" => forwarded'[s] = 0 /\ wire'[s] = 0 /\ beingSent[s] = {},
           UNCHANGED <<beingSent, visit, reader, acks, stage>>
    PROVE  ConnGoal'
<1>1. ConnValues' /\ LoopValues'
  BY DEF ConnGoal, ConnValues, LoopValues
<1>2. ConnInv'
  BY DEF ConnGoal, ConnInv, Conn
<1>3. acks = 0 /\ ReaderInv'
  BY IdleOwesNothing DEF ConnGoal, ReaderInv
<1>4. AckInv'
  <2>0. beingSent' = beingSent /\ \A t \in Servers : Pending(t)' = 0
    BY <1>3 DEF Pending
  <2> SUFFICES ASSUME NEW t \in Servers, status'[t] = "connected"
               PROVE  forwarded'[t] + Cardinality(beingSent[t]) = wire'[t] + 0
    BY <2>0 DEF AckInv
  <2>1. CASE t = s
    BY <2>1, FS_EmptySet
  <2>2. CASE t # s
    <3>1. forwarded[t] + Cardinality(beingSent[t]) = wire[t] + Pending(t) /\ Pending(t) = 0
      BY <2>2, IdleOwesNothing DEF ConnGoal, AckInv
    <3> QED
      BY <2>2, <3>1 DEF ConnGoal, ConnValues
  <2> QED
    BY <2>1, <2>2
<1> QED
  BY <1>1, <1>2, <1>3, <1>4 DEF ConnGoal

LEMMA ConnectionStep ==
    ASSUME ConnGoal, QueueValues, NEW s \in Servers,
           \/ AfterGetAddrInfo(s) \/ GetAddrInfoFails(s) \/ AfterConnect(s) \/ ConnectFails(s)
           \/ OnServerClosed(s)
    PROVE  ConnGoal'
<1> USE DEF Statuses, HandleStates
<1>0. Conn(s) /\ ConnValues
  BY DEF ConnGoal, ConnInv
<1>1. loop = "idle" /\ loop' \in {"idle", "periodic"} /\ UNCHANGED <<beingSent, visit, reader, acks, stage>>
  BY DEF AfterGetAddrInfo, GetAddrInfoFails, AfterConnect, ConnectFails, OnServerClosed, queueVars, loopVars
<1>2. CASE AfterGetAddrInfo(s)
  <2>1. /\ handle[s] = "resolving" /\ UNCHANGED <<status, cooling, forwarded, wire>>
        /\ \E h \in {"connecting", "none"} : handle' = [handle EXCEPT ![s] = h]
    BY <1>2 DEF AfterGetAddrInfo
  <2> QED
    BY <1>0, <1>1, <2>1, OneConn DEF Conn, ConnValues
<1>3. CASE GetAddrInfoFails(s)
  <2>1. /\ handle[s] = "resolving" /\ UNCHANGED <<forwarded, wire>>
        /\ handle' = [handle EXCEPT ![s] = "none"] /\ status' = [status EXCEPT ![s] = "disconnected"]
        /\ cooling' = [cooling EXCEPT ![s] = 3]
    BY <1>3 DEF GetAddrInfoFails
  <2> QED
    BY <1>0, <1>1, <2>1, OneConn DEF Conn, ConnValues
<1>4. CASE AfterConnect(s)
  <2>1. /\ handle[s] = "connecting" /\ UNCHANGED <<cooling, forwarded, wire>>
        /\ handle' = [handle EXCEPT ![s] = "open"] /\ status' = [status EXCEPT ![s] = "connected"]
    BY <1>4 DEF AfterConnect
  <2> QED
    BY <1>0, <1>1, <2>1, OneConn DEF Conn, ConnValues
<1>5. CASE ConnectFails(s)
  <2>1. /\ handle[s] = "connecting" /\ UNCHANGED <<cooling, forwarded, wire>>
        /\ handle' = [handle EXCEPT ![s] = "closing"] /\ status' = [status EXCEPT ![s] = "disconnecting"]
    BY <1>5 DEF ConnectFails
  <2> QED
    BY <1>0, <1>1, <2>1, OneConn DEF Conn, ConnValues
<1>6. CASE OnServerClosed(s)
  <2>1. /\ handle[s] = "closing" /\ beingSent[s] = {}
        /\ handle' = [handle EXCEPT ![s] = "none"] /\ status' = [status EXCEPT ![s] = "disconnected"]
        /\ cooling' = [cooling EXCEPT ![s] = 3]
        /\ forwarded' = [forwarded EXCEPT ![s] = 0] /\ wire' = [wire EXCEPT ![s] = 0]
    BY <1>6 DEF OnServerClosed, ResetForwarded
  <2> QED
    BY <1>0, <1>1, <2>1, OneConn DEF Conn, ConnValues
<1> QED
  BY <1>2, <1>3, <1>4, <1>5, <1>6

\* Servers are disconnected, none of which the event loop is reading from.
LEMMA DisconnectConn ==
    ASSUME ConnGoal, QueueValues, NEW S \in SUBSET Servers, DisconnectServers(S),
           acks > 0 => S \cap reader = {}, LoopValues',
           loop' \in {"idle", "stopped"} => acks = 0, loop' = "reading" => acks > 0,
           loop \in {"idle", "reading"} => acks = 0,
           UNCHANGED <<cooling, forwarded, wire, beingSent, reader, acks>>
    PROVE  ConnGoal'
<1>1. \A s \in Servers :
         IF s \in S /\ status[s] = "connected"
         THEN handle[s] = "open" /\ status'[s] = "disconnecting" /\ handle'[s] = "closing"
         ELSE status'[s] = status[s] /\ handle'[s] = handle[s]
  BY Disconnected DEF ConnGoal
<1>2. ConnValues'
  BY Disconnected DEF ConnGoal, ConnValues
<1>3. ConnInv'
  BY <1>1 DEF ConnGoal, ConnInv, Conn
<1>4. AckInv'
  BY <1>1 DEF ConnGoal, AckInv, Pending
<1>5. ReaderInv'
  BY <1>1 DEF ConnGoal, ReaderInv
<1> QED
  BY <1>2, <1>3, <1>4, <1>5 DEF ConnGoal
LEMMA DisconnectStep ==
    ASSUME ConnGoal, QueueValues, PlaceInv,
           \/ DisconnectAndCloseAllConnections
           \/ \E s \in Servers : OnReadError(s) \/ FailBatch(s)
    PROVE  ConnGoal'
<1>1. ASSUME NEW s \in Servers, OnReadError(s) PROVE ConnGoal'
  <2>1. /\ loop = "idle" /\ DisconnectServers({s})
        /\ UNCHANGED <<cooling, forwarded, wire, beingSent, reader, acks, loop, visit, stage>>
    BY <1>1 DEF OnReadError, queueVars, loopVars
  <2>2. acks = 0
    BY <2>1, IdleOwesNothing
  <2>3. LoopValues'
    BY <2>1 DEF ConnGoal, LoopValues
  <2> QED
    BY <2>1, <2>2, <2>3, DisconnectConn
<1>2. ASSUME NEW s \in Servers, FailBatch(s) PROVE ConnGoal'
  <2>1. /\ loop = "sending" /\ DisconnectServers({s}) /\ beingSent[s] = {} /\ visit' = visit \ {s}
        /\ UNCHANGED <<cooling, forwarded, wire, beingSent, reader, acks, loop, stage>>
    BY <1>2 DEF FailBatch, FailQueue
  <2>2. acks > 0 => {s} \cap reader = {}
    BY <2>1 DEF ConnGoal, ReaderInv
  <2>3. LoopValues'
    BY <2>1 DEF ConnGoal, LoopValues
  <2> QED
    BY <2>1, <2>2, <2>3, DisconnectConn
<1>3. ASSUME DisconnectAndCloseAllConnections PROVE ConnGoal'
  <2>1. /\ loop = "checking" /\ DisconnectServers(Servers) /\ inQueues = 0 /\ stage' = "closed" /\ Return
        /\ UNCHANGED <<cooling, forwarded, wire, beingSent, reader, acks, visit>>
    BY <1>3 DEF DisconnectAndCloseAllConnections, queueVars
  <2>2. Queued = {}
    <3>1. Queued \in SUBSET Responses
      BY DEF Queued
    <3> QED
      BY <2>1, <3>1, ResponseSets DEF PlaceInv
  <2>3. \A s \in Servers : beingSent[s] = {}
    BY <2>2 DEF PlaceInv
  <2>4. acks \in Nat /\ ~(acks > 0)
    BY <2>1, <2>3 DEF ConnGoal, ReaderInv, LoopValues
  <2>5. LoopValues'
    BY <2>1 DEF ConnGoal, LoopValues, Return
  <2>6. acks = 0 /\ loop' = "idle"
    BY <2>1, <2>4 DEF Return
  <2> QED
    BY <2>1, <2>5, <2>6, DisconnectConn
<1> QED
  BY <1>1, <1>2, <1>3

LEMMA ReadStep ==
    ASSUME ConnGoal, QueueValues, NEW s \in Servers, NEW n \in 1..MaxAcks, OnRead(s, n)
    PROVE  ConnGoal'
<1>0. MaxAcks \in Nat
  BY PeerServersAssumption
<1>1. /\ loop = "idle" /\ handle[s] = "open" /\ n <= wire[s] /\ wire' = [wire EXCEPT ![s] = @ - n]
      /\ reader' = {s} /\ acks' = n /\ loop' = "reading"
      /\ UNCHANGED <<status, handle, cooling, forwarded, beingSent, visit, stage>>
  BY DEF OnRead, queueVars
<1>2. n \in Nat /\ n > 0
  BY <1>0
<1>3. /\ wire' \in [Servers -> Nat] /\ wire'[s] = wire[s] - n
      /\ \A t \in Servers : t # s => wire'[t] = wire[t]
  BY <1>1, <1>2 DEF ConnGoal, ConnValues
<1>4. ConnValues' /\ LoopValues'
  BY <1>1, <1>2, <1>3 DEF ConnGoal, ConnValues, LoopValues
<1>5. status[s] = "connected"
  BY <1>1 DEF ConnGoal, ConnInv, Conn
<1>6. ConnInv' /\ ReaderInv'
  BY <1>1, <1>2, <1>3, <1>5 DEF ConnGoal, ConnInv, Conn, ReaderInv
<1>7. AckInv'
  <2> SUFFICES ASSUME NEW t \in Servers, status[t] = "connected"
               PROVE  forwarded[t] + Cardinality(beingSent[t]) = wire'[t] + (IF t = s THEN n ELSE 0)
    BY <1>1 DEF AckInv, Pending
  <2>1. forwarded[t] + Cardinality(beingSent[t]) = wire[t] + Pending(t) /\ Pending(t) = 0
    BY <1>1, IdleOwesNothing DEF ConnGoal, AckInv
  <2>2. wire[t] \in Nat
    BY DEF ConnGoal, ConnValues
  <2> QED
    BY <1>2, <1>3, <2>1, <2>2
<1> QED
  BY <1>4, <1>6, <1>7 DEF ConnGoal

\* When the status becomes CONNECTED while acknowledgements are left, they are those of the
\* batch being written.
LEMMA AckStep ==
    ASSUME ConnGoal, QueueValues, NEW s \in Servers, ProcessAcknowledgement(s)
    PROVE  ConnGoal'
<1>1. /\ loop = "reading" /\ s \in reader /\ forwarded' = [forwarded EXCEPT ![s] = @ - 1]
      /\ acks' = acks - 1
      /\ UNCHANGED <<handle, cooling, wire, beingSent, visit, reader, stage>>
  BY DEF ProcessAcknowledgement, queueVars
<1>2. acks \in Nat /\ acks > 0 /\ reader = {s} /\ status[s] = "connected"
  BY <1>1 DEF ConnGoal, ReaderInv, LoopValues
<1>3. /\ status' = status
      /\ \/ forwarded[s] - 1 < 1 /\ loop' = "periodic"
         \/ ~(forwarded[s] - 1 < 1) /\ loop' = IF acks > 1 THEN "reading" ELSE "idle"
  <2>1. [status EXCEPT ![s] = "connected"] = status
    BY <1>2 DEF ConnGoal, ConnValues
  <2> QED
    BY <2>1 DEF ProcessAcknowledgement, AllAcknowledged
<1>4. /\ forwarded' \in [Servers -> Int] /\ forwarded'[s] = forwarded[s] - 1 /\ forwarded[s] \in Int
      /\ \A t \in Servers : t # s => forwarded'[t] = forwarded[t]
  BY <1>1 DEF ConnGoal, ConnValues
<1>5. acks' \in Nat
  BY <1>1, <1>2
<1>6. ConnValues' /\ LoopValues'
  BY <1>1, <1>3, <1>4, <1>5 DEF ConnGoal, ConnValues, LoopValues
<1>7. wire[s] \in Nat /\ Cardinality(beingSent[s]) \in Nat /\ (Cardinality(beingSent[s]) = 0 => beingSent[s] = {})
  BY ResponseSets DEF ConnGoal, ConnValues, QueueValues
<1>8. forwarded'[s] + Cardinality(beingSent[s]) = wire[s] + acks'
  <2>1. forwarded[s] + Cardinality(beingSent[s]) = wire[s] + acks
    BY <1>1, <1>2 DEF ConnGoal, AckInv, Pending
  <2> QED
    BY <1>1, <1>2, <1>4, <1>7, <2>1
<1>9. AckInv'
  BY <1>1, <1>2, <1>3, <1>4, <1>8 DEF ConnGoal, AckInv, Pending
<1>10. ConnInv'
  BY <1>1, <1>2, <1>3, <1>4 DEF ConnGoal, ConnInv, Conn
<1>11. ReaderInv'
  <2>1. CASE forwarded[s] - 1 < 1 /\ loop' = "periodic"
    <3>1. acks' > 0 => beingSent[s] # {}
      <4> SUFFICES ASSUME acks' > 0 PROVE Cardinality(beingSent[s]) # 0
        BY FS_EmptySet
      <4>1. forwarded'[s] <= 0
        BY <1>4, <2>1
      <4> QED
        BY <1>4, <1>5, <1>7, <1>8, <4>1
    <3> QED
      BY <1>1, <1>2, <1>3, <2>1, <3>1 DEF ReaderInv
  <2>2. CASE loop' = IF acks > 1 THEN "reading" ELSE "idle"
    BY <1>1, <1>2, <1>3, <2>2 DEF ReaderInv
  <2> QED
    BY <1>3, <2>1, <2>2
<1> QED
  BY <1>6, <1>9, <1>10, <1>11 DEF ConnGoal

LEMMA WriteStep ==
    ASSUME ConnGoal, QueueValues, NEW s \in Servers, WriteBatch(s)
    PROVE  ConnGoal'
<1> DEFINE B == queue[s][Unlocked]
<1>1. /\ loop = "sending" /\ status[s] = "connected" /\ handle[s] = "open" /\ beingSent[s] = {}
      /\ beingSent' = [beingSent EXCEPT ![s] = B] /\ wire' = [wire EXCEPT ![s] = @ + Cardinality(B)]
      /\ visit' = visit \ {s}
      /\ UNCHANGED <<status, handle, cooling, forwarded, loop, reader, acks, stage>>
  BY DEF WriteBatch
<1>2. B \in SUBSET Responses
  BY TwoDirections DEF QueueValues
<1>3. Cardinality(B) \in Nat
  BY <1>2, ResponseSets
<1> HIDE DEF B
<1>4. /\ wire' \in [Servers -> Nat] /\ wire'[s] = wire[s] + Cardinality(B) /\ wire[s] \in Nat
      /\ \A t \in Servers : t # s => wire'[t] = wire[t]
  BY <1>1, <1>3 DEF ConnGoal, ConnValues
<1>5. beingSent'[s] = B /\ \A t \in Servers : t # s => beingSent'[t] = beingSent[t]
  BY <1>1 DEF QueueValues
<1>6. ConnValues' /\ LoopValues'
  BY <1>1, <1>4 DEF ConnGoal, ConnValues, LoopValues
<1>7. ConnInv'
  BY <1>1, <1>4, <1>5 DEF ConnGoal, ConnInv, Conn
<1>8. acks > 0 => s \notin reader
  BY <1>1 DEF ConnGoal, ReaderInv
<1>9. ReaderInv'
  BY <1>1, <1>5, <1>8 DEF ConnGoal, ReaderInv
<1>10. AckInv'
  <2> SUFFICES ASSUME NEW t \in Servers, status[t] = "connected"
               PROVE  forwarded[t] + Cardinality(beingSent'[t]) = wire'[t] + Pending(t)
    BY <1>1 DEF AckInv, Pending
  <2>1. forwarded[t] + Cardinality(beingSent[t]) = wire[t] + Pending(t)
    BY DEF ConnGoal, AckInv
  <2>2. CASE t # s
    BY <1>4, <1>5, <2>1, <2>2
  <2>3. CASE t = s
    <3>1. Cardinality(beingSent[s]) = 0 /\ forwarded[s] \in Int
      BY <1>1, FS_EmptySet DEF ConnGoal, ConnValues
    <3>2. Pending(s) = 0
      BY <1>8 DEF Pending, ConnGoal, LoopValues
    <3>3. forwarded[s] = wire[s]
      BY <1>4, <2>1, <2>3, <3>1, <3>2
    <3>4. Cardinality(beingSent'[s]) = Cardinality(B)
      BY <1>5
    <3> QED
      BY <1>3, <1>4, <2>3, <3>1, <3>2, <3>3, <3>4
  <2> QED
    BY <2>2, <2>3
<1> QED
  BY <1>6, <1>7, <1>9, <1>10 DEF ConnGoal

LEMMA SentStep ==
    ASSUME ConnGoal, QueueValues, NEW s \in Servers, NEW ok \in BOOLEAN, AfterSendResponses(s, ok)
    PROVE  ConnGoal'
<1> DEFINE k == Cardinality(beingSent[s])
<1>1. /\ loop = "idle" /\ loop' = "periodic" /\ beingSent[s] # {}
      /\ beingSent' = [beingSent EXCEPT ![s] = {}]
      /\ UNCHANGED <<cooling, wire, visit, reader, acks, stage>>
  BY DEF AfterSendResponses
<1>2. \/ IncreaseForwardedResponsesCount(s, k) /\ UNCHANGED <<status, handle>>
      \/ DisconnectServers({s}) /\ UNCHANGED forwarded
  BY DEF AfterSendResponses
<1>3. k \in Nat
  BY ResponseSets DEF QueueValues
<1>4. beingSent'[s] = {} /\ \A t \in Servers : t # s => beingSent'[t] = beingSent[t]
  BY <1>1 DEF QueueValues
<1>5. acks = 0 /\ \A t \in Servers : Pending(t) = 0
  BY <1>1, IdleOwesNothing
<1>6. LoopValues' /\ ReaderInv'
  BY <1>1, <1>5 DEF ConnGoal, LoopValues, ReaderInv
<1>7. \A t \in Servers : Pending(t)' = 0
  BY <1>1, <1>5 DEF Pending
<1>8. \A t \in Servers : wire[t] \in Nat /\ forwarded[t] \in Int
  BY DEF ConnGoal, ConnValues
<1> HIDE DEF k
<1>9. CASE IncreaseForwardedResponsesCount(s, k) /\ UNCHANGED <<status, handle>>
  <2>1. /\ forwarded' \in [Servers -> Int] /\ \A t \in Servers : t # s => forwarded'[t] = forwarded[t]
        /\ forwarded'[s] = IF status[s] = "connected" THEN forwarded[s] + k ELSE forwarded[s]
    BY <1>3, <1>9 DEF IncreaseForwardedResponsesCount, ConnGoal, ConnValues
  <2>2. ConnValues'
    BY <1>1, <1>9, <2>1 DEF ConnGoal, ConnValues
  <2>3. ConnInv'
    BY <1>1, <1>4, <1>9, <2>1 DEF ConnGoal, ConnInv, Conn
  <2>4. AckInv'
    <3> SUFFICES ASSUME NEW t \in Servers, status[t] = "connected"
                 PROVE  forwarded'[t] + Cardinality(beingSent'[t]) = wire[t] + 0
      BY <1>1, <1>7, <1>9 DEF AckInv
    <3>1. forwarded[t] + Cardinality(beingSent[t]) = wire[t] + 0
      BY <1>5 DEF ConnGoal, AckInv
    <3>2. CASE t # s
      BY <1>4, <2>1, <3>1, <3>2
    <3>3. CASE t = s
      <4>1. forwarded'[s] = forwarded[s] + k /\ forwarded[s] + k = wire[s] + 0
        BY <2>1, <3>1, <3>3 DEF k
      <4>2. Cardinality(beingSent'[s]) = 0
        BY <1>4, FS_EmptySet
      <4> QED
        BY <1>3, <1>8, <3>3, <4>1, <4>2
    <3> QED
      BY <3>2, <3>3
  <2> QED
    BY <1>6, <2>2, <2>3, <2>4 DEF ConnGoal
<1>10. CASE DisconnectServers({s}) /\ UNCHANGED forwarded
  <2>1. /\ status' \in [Servers -> Statuses] /\ handle' \in [Servers -> HandleStates]
        /\ \A t \in Servers :
              IF t = s /\ status[t] = "connected"
              THEN handle[t] = "open" /\ status'[t] = "disconnecting" /\ handle'[t] = "closing"
              ELSE status'[t] = status[t] /\ handle'[t] = handle[t]
    BY <1>10, Disconnected DEF ConnGoal
  <2>2. ConnValues'
    BY <1>1, <1>10, <2>1 DEF ConnGoal, ConnValues
  <2>3. ConnInv'
    BY <1>1, <1>4, <1>10, <2>1 DEF ConnGoal, ConnInv, Conn
  <2>4. AckInv'
    <3> SUFFICES ASSUME NEW t \in Servers, status'[t] = "connected"
                 PROVE  forwarded[t] + Cardinality(beingSent'[t]) = wire[t] + 0
      BY <1>1, <1>7, <1>10 DEF AckInv
    <3>1. t # s /\ status[t] = "connected"
      BY <2>1
    <3> QED
      BY <1>4, <1>5, <3>1 DEF ConnGoal, AckInv
  <2> QED
    BY <1>6, <2>2, <2>3, <2>4 DEF ConnGoal
<1> QED
  BY <1>2, <1>9, <1>10
LEMMA InitiateStep ==
    ASSUME ConnGoal, QueueValues, NEW s \in Servers, InitiateConnection(s) \/ ConnectionOutOfMemory(s)
    PROVE  ConnGoal'
<1>1. /\ loop = "sending" /\ status[s] \in {"uninitiated", "disconnected"} /\ visit' = visit \ {s}
      /\ \E x \in {"connecting", "disconnected"} : status' = [status EXCEPT ![s] = x]
      /\ cooling' = cooling \/ cooling' = [cooling EXCEPT ![s] = 3]
      /\ UNCHANGED <<forwarded, wire, beingSent, loop, reader, acks, stage>>
  BY DEF InitiateConnection, ConnectionOutOfMemory, FailQueue, ConnectionNeeded, queueVars
<1>2. \/ handle' = handle
      \/ handle' = [handle EXCEPT ![s] = "resolving"] /\ status' = [status EXCEPT ![s] = "connecting"]
  BY DEF InitiateConnection, ConnectionOutOfMemory
<1>3. handle[s] = "none"
  BY <1>1 DEF ConnGoal, ConnInv, Conn, ConnValues, HandleStates
<1>4. ConnValues'
  <2>1. status' \in [Servers -> Statuses]
    BY <1>1 DEF ConnGoal, ConnValues, Statuses
  <2>2. handle' \in [Servers -> HandleStates]
    BY <1>2 DEF ConnGoal, ConnValues, HandleStates
  <2>3. cooling' \in [Servers -> 0..3]
    BY <1>1 DEF ConnGoal, ConnValues
  <2> QED
    BY <1>1, <2>1, <2>2, <2>3 DEF ConnGoal, ConnValues
<1>5. LoopValues'
  BY <1>1 DEF ConnGoal, LoopValues
<1>6. /\ \A t \in Servers : t # s => status'[t] = status[t] /\ handle'[t] = handle[t]
      /\ status'[s] \in {"connecting", "disconnected"}
      /\ handle'[s] = "none" \/ (handle'[s] = "resolving" /\ status'[s] = "connecting")
  <2>0. status \in [Servers -> Statuses] /\ handle \in [Servers -> HandleStates]
    BY DEF ConnGoal, ConnValues
  <2>1. status'[s] \in {"connecting", "disconnected"} /\ \A t \in Servers : t # s => status'[t] = status[t]
    BY <1>1, <2>0
  <2>2. CASE handle' = handle
    BY <1>3, <2>1, <2>2
  <2>3. CASE handle' = [handle EXCEPT ![s] = "resolving"] /\ status' = [status EXCEPT ![s] = "connecting"]
    BY <2>0, <2>1, <2>3
  <2> QED
    BY <1>2, <2>2, <2>3
<1>7. ConnInv'
  BY <1>1, <1>3, <1>6 DEF ConnGoal, ConnInv, Conn
<1>8. ReaderInv' /\ AckInv'
  BY <1>1, <1>6 DEF ConnGoal, ReaderInv, AckInv, Pending
<1> QED
  BY <1>4, <1>5, <1>7, <1>8 DEF ConnGoal

LEMMA NextConn ==
    ASSUME ConnGoal, QueueValues, PlaceInv, [Next]_vars
    PROVE  ConnGoal'
<1>1. ConnValues /\ LoopValues
  BY DEF ConnGoal
<1>2. ASSUME NEW r \in Responses, RefuseResponse(r) \/ \E s \in Servers : AddResponseToQueue(r, s)
      PROVE  ConnGoal'
  BY <1>1, <1>2, ConnKept DEF RefuseResponse, AddResponseToQueue, connVars, loopVars, ConnValues, LoopValues
<1>3. ASSUME NEW s \in Servers,
             \/ ConnectingTimesOut(s) \/ RetryBecomesDue(s) \/ WaitForConnection(s)
             \/ SkipServer(s) \/ ReserveFails(s)
      PROVE  ConnGoal'
  <2>1. /\ UNCHANGED <<status, handle, forwarded, wire, beingSent, reader, acks, loop, stage>>
        /\ visit' = visit \/ visit' = visit \ {s}
        /\ cooling' = cooling \/ cooling' = [cooling EXCEPT ![s] = 0]
    BY <1>3 DEF ConnectingTimesOut, RetryBecomesDue, WaitForConnection, SkipServer, ReserveFails,
       connVars, queueVars, loopVars
  <2>2. cooling' \in [Servers -> 0..3]
    BY <1>1, <2>1 DEF ConnValues
  <2> QED
    BY <1>1, <2>1, <2>2, ConnKept DEF LoopValues
<1>4. CASE NothingToSend \/ ToggleDirection
  <2>1. /\ UNCHANGED <<status, handle, forwarded, wire, beingSent, reader, acks, stage>>
        /\ loop \in {"idle", "periodic"} /\ loop' \in {"checking", "sending"} /\ Tick
        /\ visit' = visit \/ visit' = receiving[direction]
    BY <1>4 DEF NothingToSend, ToggleDirection, Tick, queueVars
  <2>2. cooling' \in [Servers -> 0..3]
    BY <1>1, <2>1 DEF ConnValues, Tick
  <2>3. visit' \in SUBSET Servers
    BY <1>1, <2>1 DEF LoopValues, QueueValues
  <2> QED
    BY <1>1, <2>1, <2>2, <2>3, ConnKept DEF LoopValues
<1>5. CASE SendingDone \/ NothingToClose \/ DeleteRequestProcessors \/ StopLogger \/ Shutdown
  <2>1. /\ UNCHANGED <<status, handle, cooling, forwarded, wire, beingSent, reader, acks, visit>>
        /\ stage' \in {stage, "draining", "stopping"}
        /\ \/ loop = "sending" /\ loop' = "checking"
           \/ loop = "checking" /\ Return
           \/ loop = "idle" /\ loop' = "stopped"
    BY <1>5 DEF SendingDone, NothingToClose, DeleteRequestProcessors, StopLogger, Shutdown,
       connVars, queueVars
  <2> QED
    BY <1>1, <2>1, ConnKept DEF ConnValues, LoopValues
<1>6. CASE UNCHANGED vars
  BY <1>1, <1>6, ConnKept DEF vars, connVars, queueVars, loopVars, ConnValues, LoopValues
<1>7. ASSUME NEW s \in Servers, ServerNext(s) PROVE ConnGoal'
  BY <1>3, <1>7, ConnectionStep, DisconnectStep, ReadStep, AckStep, WriteStep, SentStep, InitiateStep
     DEF ServerNext, SendToServer
<1> QED
  BY <1>2, <1>4, <1>5, <1>6, <1>7, DisconnectStep DEF Next, Checking

\* On every connection, ResponsesForwarded and the batch being written are the responses
\* whose acknowledgement has not been processed.
THEOREM AcknowledgementsCorrect == Spec => []AcknowledgementsAccounted
<1>1. ConnGoal => AcknowledgementsAccounted
  <2> SUFFICES ASSUME ConnGoal, NEW s \in Servers, status[s] = "connected"
               PROVE  forwarded[s] + Cardinality(beingSent[s])
                        = wire[s] + (IF s \in reader /\ loop # "idle" THEN acks ELSE 0)
    BY DEF AcknowledgementsAccounted
  <2>1. Pending(s) = IF s \in reader /\ loop # "idle" THEN acks ELSE 0
    BY DEF ConnGoal, ReaderInv, Pending
  <2> QED
    BY <2>1 DEF ConnGoal, AckInv
<1>2. ConnGoal /\ QueueValues /\ PlaceInv /\ [Next]_vars => ConnGoal'
  BY NextConn
<1> QED
  BY InitConn, InitQueues, NextPlace, <1>1, <1>2, PTL DEF Spec

\* A queue that holds responses is in its receiving set or will be put back by the batch
\* being written, and a server in a set has responses, as SendPeerServersResponses asserts,
\* unless the event loop runs out of memory.
THEOREM NoForwardForgottenCorrect ==
    ASSUME "loop" \notin OutOfMemory
    PROVE  Spec => []NoForwardForgotten
<1>1. Init => SetInv /\ KnownInv
  BY DEF Init, SetInv, KnownInv, Unlocked, Other, Directions
<1>2. ConnGoal /\ QueueValues /\ SetInv /\ KnownInv /\ [Next]_vars => SetInv' /\ KnownInv'
  BY NextSets DEF ConnGoal
<1>3. ConnGoal /\ QueueValues /\ PlaceInv /\ [Next]_vars => ConnGoal'
  BY NextConn
<1>4. SetInv /\ KnownInv => NoForwardForgotten
  BY DEF SetInv, KnownInv, NoForwardForgotten
<1> QED
  BY InitConn, InitQueues, NextPlace, <1>1, <1>2, <1>3, <1>4, PTL DEF Spec
\* From ConnGoal: a server that is disconnecting keeps that status until its handle is closed.
LEMMA StaysDisconnecting ==
    ASSUME ConnGoal, [Next]_vars, NEW s \in Servers, status[s] = "disconnecting"
    PROVE  status'[s] = "disconnecting" \/ (handle'[s] = "none" /\ status'[s] = "disconnected")
<1> DEFINE Goal == status'[s] = "disconnecting" \/ (handle'[s] = "none" /\ status'[s] = "disconnected")
<1>0. /\ status \in [Servers -> Statuses] /\ handle \in [Servers -> HandleStates]
      /\ handle[s] = "closing"
  BY DEF ConnGoal, ConnValues, ConnInv, Conn
<1>1. ASSUME NEW t \in Servers, NEW x, t # s, status' = [status EXCEPT ![t] = x] PROVE Goal
  BY <1>0, <1>1
<1>2. ASSUME UNCHANGED status PROVE Goal
  BY <1>2
<1>3. ASSUME NEW S \in SUBSET Servers, DisconnectServers(S) PROVE Goal
  <2>1. status'[s] = status[s]
    BY <1>3, Disconnected DEF ConnGoal
  <2> QED
    BY <2>1
<1>4. ASSUME NEW t \in Servers, ServerNext(t) PROVE Goal
  <2>1. CASE GetAddrInfoFails(t) \/ AfterConnect(t) \/ ConnectFails(t)
    <3>1. t # s /\ \E x : status' = [status EXCEPT ![t] = x]
      BY <1>0, <2>1 DEF GetAddrInfoFails, AfterConnect, ConnectFails
    <3> QED
      BY <1>1, <3>1
  <2>2. CASE OnServerClosed(t)
    <3>1. handle' = [handle EXCEPT ![t] = "none"] /\ status' = [status EXCEPT ![t] = "disconnected"]
      BY <2>2 DEF OnServerClosed
    <3> QED
      BY <1>0, <3>1
  <2>3. CASE ProcessAcknowledgement(t)
    <3>1. t # s
      BY <2>3 DEF ProcessAcknowledgement, ConnGoal, ReaderInv
    <3>2. status' = [status EXCEPT ![t] = "connected"] \/ UNCHANGED status
      BY <2>3 DEF ProcessAcknowledgement
    <3> QED
      BY <1>1, <1>2, <3>1, <3>2
  <2>4. CASE InitiateConnection(t) \/ ConnectionOutOfMemory(t)
    <3>1. t # s /\ \E x : status' = [status EXCEPT ![t] = x]
      BY <2>4 DEF InitiateConnection, ConnectionOutOfMemory, ConnectionNeeded
    <3> QED
      BY <1>1, <3>1
  <2>5. CASE OnReadError(t) \/ FailBatch(t) \/ \E ok \in BOOLEAN : AfterSendResponses(t, ok)
    <3>1. DisconnectServers({t}) \/ UNCHANGED status
      BY <2>5 DEF OnReadError, FailBatch, AfterSendResponses
    <3> QED
      BY <1>2, <1>3, <3>1
  <2>6. CASE \/ AfterGetAddrInfo(t) \/ (\E n \in 1..MaxAcks : OnRead(t, n)) \/ ConnectingTimesOut(t)
             \/ RetryBecomesDue(t) \/ WaitForConnection(t) \/ SkipServer(t) \/ ReserveFails(t)
             \/ WriteBatch(t)
    BY <1>2, <2>6 DEF AfterGetAddrInfo, OnRead, ConnectingTimesOut, RetryBecomesDue,
       WaitForConnection, SkipServer, ReserveFails, WriteBatch, connVars
  <2> QED
    BY <1>4, <2>1, <2>2, <2>3, <2>4, <2>5, <2>6 DEF ServerNext, SendToServer
<1>5. CASE DisconnectAndCloseAllConnections
  BY <1>3, <1>5 DEF DisconnectAndCloseAllConnections
<1>6. CASE NothingToSend \/ ToggleDirection \/ SendingDone \/ NothingToClose \/ DeleteRequestProcessors
           \/ StopLogger \/ Shutdown \/ UNCHANGED vars
  BY <1>2, <1>6 DEF NothingToSend, ToggleDirection, Tick, SendingDone, NothingToClose,
     DeleteRequestProcessors, StopLogger, Shutdown, vars, connVars
<1>7. ASSUME NEW r \in Responses, RefuseResponse(r) \/ \E t \in Servers : AddResponseToQueue(r, t)
      PROVE  Goal
  BY <1>2, <1>7 DEF RefuseResponse, AddResponseToQueue, connVars
<1> QED
  BY <1>4, <1>5, <1>6, <1>7 DEF Next, Checking

\* DISCONNECTING stays until the handle is closed, and DISCONNECTED comes next: neither a
\* late acknowledgement nor a new attempt to connect can cut in.
THEOREM DisconnectingCorrect == Spec => DisconnectingUntilClosed
<1>1. ConnGoal /\ QueueValues /\ PlaceInv /\ [Next]_vars => ConnGoal'
  BY NextConn
<1>2. ConnGoal /\ [Next]_vars =>
        [\A s \in Servers : status[s] = "disconnecting" =>
            status'[s] = "disconnecting" \/ (handle'[s] = "none" /\ status'[s] = "disconnected")]_vars
  BY StaysDisconnecting
<1> QED
  BY InitConn, InitQueues, NextPlace, <1>1, <1>2, PTL DEF Spec, DisconnectingUntilClosed

-------------------------------------------------------------------------------
(* The counters of connections                                               *)

LEMMA FlagsKept == Flags /\ [Next]_vars => Flags'
<1> SUFFICES ASSUME Flags, [Next]_vars PROVE Flags'
  OBVIOUS
<1>1. ASSUME UNCHANGED <<reads, connectLate, retryDue>> PROVE Flags'
  BY <1>1 DEF Flags
<1>2. ASSUME NEW s \in Servers, ServerNext(s) PROVE Flags'
  <2>1. CASE AfterConnect(s)
    <3>1. UNCHANGED <<connectLate, retryDue>> /\ (reads' = reads \/ reads' = [reads EXCEPT ![s] = TRUE])
      BY <2>1 DEF AfterConnect
    <3> QED
      BY <3>1 DEF Flags
  <2>2. CASE OnServerClosed(s)
    <3>1. /\ connectLate' = connectLate /\ reads' = [reads EXCEPT ![s] = FALSE]
          /\ retryDue' = [retryDue EXCEPT ![s] = FALSE]
      BY <2>2 DEF OnServerClosed
    <3> QED
      BY <3>1 DEF Flags
  <2>3. CASE ConnectingTimesOut(s) \/ InitiateConnection(s) \/ ConnectionOutOfMemory(s)
    <3>1. /\ UNCHANGED <<reads, retryDue>>
          /\ \E b \in BOOLEAN : connectLate' = [connectLate EXCEPT ![s] = b]
      BY <2>3 DEF ConnectingTimesOut, InitiateConnection, ConnectionOutOfMemory
    <3> QED
      BY <3>1 DEF Flags
  <2>4. CASE RetryBecomesDue(s)
    <3>1. UNCHANGED <<reads, connectLate>> /\ retryDue' = [retryDue EXCEPT ![s] = TRUE]
      BY <2>4 DEF RetryBecomesDue
    <3> QED
      BY <3>1 DEF Flags
  <2>5. CASE \/ AfterGetAddrInfo(s) \/ GetAddrInfoFails(s) \/ ConnectFails(s) \/ OnReadError(s)
             \/ (\E n \in 1..MaxAcks : OnRead(s, n)) \/ ProcessAcknowledgement(s)
             \/ WaitForConnection(s) \/ SkipServer(s) \/ ReserveFails(s) \/ WriteBatch(s) \/ FailBatch(s)
             \/ (\E ok \in BOOLEAN : AfterSendResponses(s, ok))
    BY <1>1, <2>5 DEF AfterGetAddrInfo, GetAddrInfoFails, ConnectFails, OnReadError, OnRead,
       ProcessAcknowledgement, WaitForConnection, SkipServer, ReserveFails, WriteBatch, FailBatch,
       AfterSendResponses, connVars
  <2> QED
    BY <1>2, <2>1, <2>2, <2>3, <2>4, <2>5 DEF ServerNext, SendToServer
<1>3. CASE NothingToSend \/ ToggleDirection \/ SendingDone \/ NothingToClose \/ DeleteRequestProcessors
           \/ StopLogger \/ Shutdown \/ DisconnectAndCloseAllConnections \/ UNCHANGED vars
  BY <1>1, <1>3 DEF NothingToSend, ToggleDirection, Tick, SendingDone, NothingToClose,
     DeleteRequestProcessors, StopLogger, Shutdown, DisconnectAndCloseAllConnections, vars, connVars
<1>4. ASSUME NEW r \in Responses, RefuseResponse(r) \/ \E t \in Servers : AddResponseToQueue(r, t)
      PROVE  Flags'
  BY <1>1, <1>4 DEF RefuseResponse, AddResponseToQueue, connVars
<1> QED
  BY <1>2, <1>3, <1>4 DEF Next, Checking

\* A handle goes from one state to another.
LEMMA HandleMoves ==
    ASSUME ConnValues, NEW s \in Servers, NEW a \in HandleStates, NEW b \in HandleStates, a # b,
           handle[s] = a, handle' = [handle EXCEPT ![s] = b]
    PROVE  /\ Cardinality(InState(b)') = Cardinality(InState(b)) + 1
           /\ Cardinality(InState(a)') = Cardinality(InState(a)) - 1
           /\ \A h \in HandleStates \ {a, b} : InState(h)' = InState(h)
<1>1. InState(a) \in SUBSET Servers /\ InState(b) \in SUBSET Servers
  BY DEF InState
<1>2. \A t \in Servers : handle'[t] = IF t = s THEN b ELSE handle[t]
  BY DEF ConnValues
<1>3. InState(b)' = InState(b) \cup {s} /\ s \notin InState(b)
  BY <1>2 DEF InState
<1>4. InState(a)' = InState(a) \ {s} /\ s \in InState(a)
  BY <1>2 DEF InState
<1>5. \A h \in HandleStates \ {a, b} : InState(h)' = InState(h)
  BY <1>2 DEF InState
<1>6. Cardinality(InState(b) \cup {s}) = Cardinality(InState(b)) + 1
  BY <1>1, <1>3, ServerSets
<1>7. Cardinality(InState(a) \ {s}) = Cardinality(InState(a)) - 1
  BY <1>1, <1>4, ServerSets
<1> QED
  BY <1>3, <1>4, <1>5, <1>6, <1>7

\* Handles are closed.
LEMMA HandlesClose ==
    ASSUME ConnValues, ConnInv, CounterInv, NEW S \in SUBSET Servers, DisconnectServers(S),
           UNCHANGED serversConnecting
    PROVE  CounterInv'
<1> DEFINE D == {s \in S : Disconnects(s)}
<1>1. /\ D = {s \in S : status[s] = "connected"}
      /\ \A s \in Servers :
            IF s \in S /\ status[s] = "connected"
            THEN handle[s] = "open" /\ status'[s] = "disconnecting" /\ handle'[s] = "closing"
            ELSE status'[s] = status[s] /\ handle'[s] = handle[s]
  BY Disconnected
<1>2. /\ serversConnected' = serversConnected - Cardinality(D)
      /\ serversClosing' = serversClosing + Cardinality(D)
  BY DEF DisconnectServers
<1> HIDE DEF D
<1>3. D \in SUBSET Servers /\ D \subseteq InState("open") /\ D \cap InState("closing") = {}
  BY <1>1 DEF InState
<1>4. /\ InState("open")' = InState("open") \ D /\ InState("closing")' = InState("closing") \cup D
      /\ InState("connecting")' = InState("connecting")
  BY <1>1 DEF InState
<1>5. InState("open") \in SUBSET Servers /\ InState("closing") \in SUBSET Servers
  BY DEF InState
<1>6. /\ IsFiniteSet(D) /\ IsFiniteSet(InState("open")) /\ IsFiniteSet(InState("closing"))
      /\ Cardinality(D) \in Nat /\ Cardinality(InState("open")) \in Nat
      /\ Cardinality(InState("closing")) \in Nat
  BY <1>3, <1>5, ServerSets
<1>7. Cardinality(InState("open") \ D) = Cardinality(InState("open")) - Cardinality(D)
  <2>1. InState("open") \cap D = D
    BY <1>3
  <2> QED
    BY <1>6, <2>1, FS_Difference
<1>8. Cardinality(InState("closing") \cup D) = Cardinality(InState("closing")) + Cardinality(D)
  <2>1. InState("closing") \cap D = {} /\ Cardinality({}) = 0
    BY <1>3, FS_EmptySet
  <2>2. Cardinality(InState("closing") \cup D)
          = Cardinality(InState("closing")) + Cardinality(D) - Cardinality(InState("closing") \cap D)
    BY <1>6, FS_Union
  <2>3. Cardinality(InState("closing") \cap D) = 0
    BY <2>1, Zenon
  <2> QED
    BY <1>6, <2>2, <2>3
<1> QED
  BY <1>2, <1>4, <1>7, <1>8 DEF CounterInv

LEMMA NextCounters ==
    ASSUME "connect" \notin Failures, "setsockopt" \notin Failures, ConnGoal, CounterInv, [Next]_vars
    PROVE  CounterInv'
<1>0. ConnValues /\ ConnInv /\ {"none", "resolving", "connecting", "open", "closing"} = HandleStates
  BY DEF ConnGoal, HandleStates
<1>1. ASSUME UNCHANGED <<handle, countVars>> PROVE CounterInv'
  BY <1>1 DEF CounterInv, InState, countVars
<1>2. ASSUME NEW s \in Servers, NEW a \in {"none", "resolving"}, NEW b \in {"none", "resolving"},
             handle[s] = a, handle' = [handle EXCEPT ![s] = b], UNCHANGED countVars
      PROVE  CounterInv'
  <2>1. \A h \in {"connecting", "open", "closing"} : InState(h)' = InState(h)
    BY <1>0, <1>2 DEF InState, ConnValues
  <2> QED
    BY <1>2, <2>1 DEF CounterInv, countVars
<1>3. ASSUME NEW s \in Servers, ServerNext(s) PROVE CounterInv'
  <2>1. CASE AfterGetAddrInfo(s)
    <3>1. /\ handle[s] = "resolving" /\ handle' = [handle EXCEPT ![s] = "connecting"]
          /\ serversConnecting' = serversConnecting + 1 /\ UNCHANGED <<serversConnected, serversClosing>>
      BY <2>1 DEF AfterGetAddrInfo
    <3>2. /\ Cardinality(InState("connecting")') = Cardinality(InState("connecting")) + 1
          /\ InState("open")' = InState("open") /\ InState("closing")' = InState("closing")
      BY <1>0, <3>1, HandleMoves, ZenonT(40)
    <3> QED
      BY <3>1, <3>2 DEF CounterInv
  <2>2. CASE GetAddrInfoFails(s)
    <3>1. handle[s] = "resolving" /\ handle' = [handle EXCEPT ![s] = "none"] /\ UNCHANGED countVars
      BY <2>2 DEF GetAddrInfoFails
    <3> QED
      BY <1>2, <3>1
  <2>3. CASE AfterConnect(s)
    <3>1. /\ handle[s] = "connecting" /\ handle' = [handle EXCEPT ![s] = "open"]
          /\ serversConnecting' = serversConnecting - 1 /\ serversConnected' = serversConnected + 1
          /\ UNCHANGED serversClosing
      BY <2>3 DEF AfterConnect
    <3>2. /\ Cardinality(InState("open")') = Cardinality(InState("open")) + 1
          /\ Cardinality(InState("connecting")') = Cardinality(InState("connecting")) - 1
          /\ InState("closing")' = InState("closing")
      BY <1>0, <3>1, HandleMoves, ZenonT(40)
    <3> QED
      BY <3>1, <3>2 DEF CounterInv
  <2>4. CASE ConnectFails(s)
    <3>1. /\ handle[s] = "connecting" /\ handle' = [handle EXCEPT ![s] = "closing"]
          /\ serversConnecting' = serversConnecting - 1 /\ serversClosing' = serversClosing + 1
          /\ UNCHANGED serversConnected
      BY <2>4 DEF ConnectFails
    <3>2. /\ Cardinality(InState("closing")') = Cardinality(InState("closing")) + 1
          /\ Cardinality(InState("connecting")') = Cardinality(InState("connecting")) - 1
          /\ InState("open")' = InState("open")
      BY <1>0, <3>1, HandleMoves
    <3> QED
      BY <3>1, <3>2 DEF CounterInv
  <2>5. CASE OnServerClosed(s)
    <3>1. /\ handle[s] = "closing" /\ handle' = [handle EXCEPT ![s] = "none"]
          /\ serversClosing' = serversClosing - 1 /\ UNCHANGED <<serversConnecting, serversConnected>>
      BY <2>5 DEF OnServerClosed
    <3>2. /\ Cardinality(InState("closing")') = Cardinality(InState("closing")) - 1
          /\ InState("open")' = InState("open") /\ InState("connecting")' = InState("connecting")
      BY <1>0, <3>1, HandleMoves, ZenonT(40)
    <3> QED
      BY <3>1, <3>2 DEF CounterInv
  <2>6. CASE InitiateConnection(s)
    <3>1. /\ status[s] \in {"uninitiated", "disconnected"} /\ UNCHANGED countVars
          /\ handle' = handle \/ handle' = [handle EXCEPT ![s] = "resolving"]
      BY <2>6 DEF InitiateConnection, ConnectionNeeded
    <3>2. handle[s] = "none"
      BY <1>0, <3>1 DEF ConnInv, Conn, ConnValues, HandleStates
    <3> QED
      BY <1>1, <1>2, <3>1, <3>2
  <2>7. CASE OnReadError(s) \/ FailBatch(s) \/ \E ok \in BOOLEAN : AfterSendResponses(s, ok)
    <3>1. \/ DisconnectServers({s}) /\ UNCHANGED serversConnecting
          \/ UNCHANGED <<handle, countVars>>
      BY <2>7 DEF OnReadError, FailBatch, AfterSendResponses, countVars
    <3> QED
      BY <1>0, <1>1, <3>1, HandlesClose
  <2>8. CASE \/ (\E n \in 1..MaxAcks : OnRead(s, n)) \/ ProcessAcknowledgement(s)
             \/ ConnectingTimesOut(s) \/ RetryBecomesDue(s) \/ ConnectionOutOfMemory(s)
             \/ WaitForConnection(s) \/ SkipServer(s) \/ ReserveFails(s) \/ WriteBatch(s)
    BY <1>1, <2>8 DEF OnRead, ProcessAcknowledgement, ConnectingTimesOut, RetryBecomesDue,
       ConnectionOutOfMemory, WaitForConnection, SkipServer, ReserveFails, WriteBatch, connVars
  <2> QED
    BY <1>3, <2>1, <2>2, <2>3, <2>4, <2>5, <2>6, <2>7, <2>8 DEF ServerNext, SendToServer
<1>4. CASE DisconnectAndCloseAllConnections
  BY <1>0, <1>4, HandlesClose DEF DisconnectAndCloseAllConnections
<1>5. CASE NothingToSend \/ ToggleDirection \/ SendingDone \/ NothingToClose \/ DeleteRequestProcessors
           \/ StopLogger \/ Shutdown \/ UNCHANGED vars
  BY <1>1, <1>5 DEF NothingToSend, ToggleDirection, Tick, SendingDone, NothingToClose,
     DeleteRequestProcessors, StopLogger, Shutdown, vars, connVars
<1>6. ASSUME NEW r \in Responses, RefuseResponse(r) \/ \E t \in Servers : AddResponseToQueue(r, t)
      PROVE  CounterInv'
  BY <1>1, <1>6 DEF RefuseResponse, AddResponseToQueue, connVars
<1> QED
  BY <1>3, <1>4, <1>5, <1>6 DEF Next, Checking

\* m_ServersConnecting, m_ServersConnected and m_ServersClosing are the numbers of handles in
\* these states, unless uv_tcp_connect or setsockopt fails at once: after these failures
\* after_getaddrinfo and after_connect leave the counters wrong.
THEOREM CountersCorrect ==
    ASSUME "connect" \notin Failures, "setsockopt" \notin Failures
    PROVE  Spec => []ConnectionCountersExact
<1>1. Init => Flags /\ CounterInv
  <2> SUFFICES ASSUME Init PROVE Flags /\ CounterInv
    OBVIOUS
  <2>1. Flags
    BY DEF Init, Flags
  <2>2. InState("connecting") = {} /\ InState("closing") = {} /\ InState("open") = {}
    BY DEF Init, InState
  <2> QED
    BY <2>1, <2>2, FS_EmptySet DEF Init, CounterInv
<1>2. ConnGoal /\ CounterInv /\ [Next]_vars => CounterInv'
  BY NextCounters
<1>3. ConnGoal /\ QueueValues /\ PlaceInv /\ [Next]_vars => ConnGoal'
  BY NextConn
<1>4. Flags /\ ConnGoal /\ QueueValues /\ CounterInv => ConnectionCountersExact
  <2> SUFFICES ASSUME Flags, ConnGoal, QueueValues, CounterInv PROVE ConnectionCountersExact
    OBVIOUS
  <2>1. \A h : InState(h) \in SUBSET Servers
    BY DEF InState
  <2>2. \A h : Cardinality(InState(h)) \in Nat
    BY <2>1, ServerSets
  <2>3. serversConnecting \in Nat /\ serversConnected \in Int /\ serversClosing \in Nat
    BY <2>2 DEF CounterInv
  <2>4. PeerTypeOK
    BY <2>3, Zenon DEF PeerTypeOK, Flags, ConnGoal, ConnValues, LoopValues, QueueValues, Statuses, HandleStates,
       Fates
  <2> QED
    BY <2>4 DEF CounterInv, ConnectionCountersExact
<1> QED
  BY InitConn, InitQueues, NextPlace, FlagsKept, <1>1, <1>2, <1>3, <1>4, PTL DEF Spec
===============================================================================
