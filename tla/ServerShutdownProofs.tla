-------------------------- MODULE ServerShutdownProofs --------------------------
(***************************************************************************)
(* The life of the clients and the shutdown are right for every number of  *)
(* clients, threads and responses: the counters a shutdown waits for are   *)
(* exact, no work outlives its client, and a single Ctrl+S deletes the     *)
(* request processors last.                                                *)
(***************************************************************************)
EXTENDS ServerShutdown, FiniteSetTheorems, TLAPS

-------------------------------------------------------------------------------
(* The inductive invariant                                                   *)

\* The type invariant, in two parts.
Flags == shuttingDown \in BOOLEAN /\ allDisconnected \in BOOLEAN

Lives == {"unborn", "pool", "queued", "running", "processed", "closing", "deleted"}
RequestStates == {"none", "queued", "processing", "holding", "done"}

Values ==
    /\ life \in [Clients -> Lives]
    /\ marked \subseteq Clients /\ reading \subseteq Clients /\ versioned \subseteq Clients
    /\ request \in [Clients -> RequestStates]
    /\ deferred \subseteq Clients /\ failed \subseteq Clients
    /\ pending \in [Clients -> 0..MaxPending]
    /\ keepAlive \in {"none", "queued", "sending", "done"}
    /\ recipients \subseteq Clients
    /\ listening \in {"open", "closing", "stopped"}
    /\ queuedDisconnections \in Nat /\ clientsClosing \in Nat
    /\ processors \in {"active", "deleted"}
    /\ presses \in 0..MaxPresses
    /\ loop \in {"idle", "periodic"}

\* The clients whose disconnection is queued or processed, and those whose handle closes.
Disconnecting == {c \in Clients : life[c] \in {"queued", "running", "processed"}}
Closing == {c \in Clients : life[c] = "closing"}

Counted ==
    /\ queuedDisconnections = Cardinality(Disconnecting)
    /\ clientsClosing = Cardinality(Closing)

LifeInv == Flags /\ Values /\ Counted /\ WorkHasClient

\* A shutdown has closed the listening socket.  Once all clients are disconnected none is
\* left but those whose handle is being closed, and the processors outlive these.
OrderInv ==
    /\ shuttingDown => listening # "open"
    /\ allDisconnected => shuttingDown /\ Pool = {} /\ Disconnecting = {}
    /\ processors = "deleted" => allDisconnected /\ Closing = {}

-------------------------------------------------------------------------------
(* Counting                                                                  *)

LEMMA FiniteClients ==
    ASSUME NEW S \in SUBSET Clients
    PROVE  IsFiniteSet(S) /\ Cardinality(S) \in Nat /\ (Cardinality(S) = 0 <=> S = {})
<1>1. IsFiniteSet(Clients)
  BY ServerShutdownAssumption
<1>2. IsFiniteSet(S)
  BY <1>1, FS_Subset
<1> QED
  BY <1>2, FS_CardinalityType, FS_EmptySet

LEMMA CountUnion ==
    ASSUME NEW S \in SUBSET Clients, NEW T \in SUBSET Clients, S \cap T = {}
    PROVE  Cardinality(S \cup T) = Cardinality(S) + Cardinality(T)
<1>1. IsFiniteSet(S) /\ IsFiniteSet(T) /\ Cardinality(S) \in Nat /\ Cardinality(T) \in Nat
  BY FiniteClients
<1>2. Cardinality(S \cup T) = Cardinality(S) + Cardinality(T) - Cardinality(S \cap T)
  BY <1>1, FS_Union
<1>3. Cardinality(S \cap T) = 0
  BY FS_EmptySet
<1> QED
  BY <1>1, <1>2, <1>3

LEMMA CountAdd ==
    ASSUME NEW S \in SUBSET Clients, NEW c \in Clients
    PROVE  /\ c \notin S => Cardinality(S \cup {c}) = Cardinality(S) + 1
           /\ c \in S => Cardinality(S \ {c}) = Cardinality(S) - 1
BY FiniteClients, FS_AddElement, FS_RemoveElement

\* The counters are not touched by a client that stays in its group.
LEMMA CountedFrame ==
    ASSUME Counted, UNCHANGED countVars,
           \A c \in Clients : /\ c \in Disconnecting' <=> c \in Disconnecting
                              /\ c \in Closing' <=> c \in Closing
    PROVE  Counted'
<1>1. Disconnecting' = Disconnecting /\ Closing' = Closing
  BY DEF Disconnecting, Closing
<1> QED
  BY <1>1 DEF Counted, countVars

-------------------------------------------------------------------------------
(* DisconnectAndDelete, by values.                                           *)
Disconnected(S) ==
    /\ marked' \subseteq Clients /\ reading' \subseteq Clients
    /\ life' \in [Clients -> Lives]
    /\ \A c \in Clients : \/ life'[c] = life[c]
                          \/ c \in S /\ life'[c] = "queued" /\ request'[c] = "none" /\ pending'[c] = 0
    /\ queuedDisconnections' = Cardinality(Disconnecting')
    /\ Closing' = Closing

LEMMA DisconnectEffect ==
    ASSUME Values, Counted, NEW S \in SUBSET Pool, DisconnectAndDelete(S)
    PROVE  Disconnected(S)
<1> DEFINE removed == {c \in S : Removable(c)}
<1>1. /\ marked' = marked \cup S /\ reading' = reading \ S
      /\ life' = [c \in Clients |-> IF c \in removed THEN "queued" ELSE life[c]]
      /\ queuedDisconnections' = queuedDisconnections + Cardinality(removed)
  BY DEF DisconnectAndDelete, CountDisconnections
<1>2. S \subseteq Clients /\ \A c \in S : life[c] = "pool"
  BY DEF Pool
<1>3. Disconnecting' = Disconnecting \cup removed /\ Disconnecting \cap removed = {}
  BY <1>1, <1>2 DEF Disconnecting, Values, Lives
<1>4. Closing' = Closing
  BY <1>1, <1>2 DEF Closing, Values, Lives
<1>5. Cardinality(Disconnecting') = Cardinality(Disconnecting) + Cardinality(removed)
  BY <1>2, <1>3, CountUnion DEF Disconnecting
<1>6. marked' \subseteq Clients /\ reading' \subseteq Clients /\ life' \in [Clients -> Lives]
  BY <1>1, <1>2 DEF Values, Lives
<1>7. \A c \in Clients : \/ life'[c] = life[c]
                         \/ c \in S /\ life'[c] = "queued" /\ request'[c] = "none" /\ pending'[c] = 0
  BY <1>1 DEF Removable
<1> QED
  BY <1>1, <1>4, <1>5, <1>6, <1>7 DEF Disconnected, Counted

-------------------------------------------------------------------------------
(* LifeInv is inductive                                                      *)

LEMMA Constants == Threads \in Nat /\ MaxPending \in Nat /\ MaxPresses \in Nat
BY ServerShutdownAssumption

USE DEF clientVars, requestVars, aliveVars, shutdownVars, countVars

LEMMA InitLife == Init => LifeInv /\ OrderInv
<1> SUFFICES ASSUME Init PROVE LifeInv /\ OrderInv
  OBVIOUS
<1>1. Flags
  BY DEF Init, Flags
<1>2. Values
  BY Constants DEF Init, Values, Lives, RequestStates
<1>3. Disconnecting = {} /\ Closing = {}
  BY DEF Init, Disconnecting, Closing
<1>4. Counted
  BY <1>3, FS_EmptySet DEF Init, Counted
<1>5. WorkHasClient
  BY DEF Init, WorkHasClient
<1>6. OrderInv
  BY DEF Init, OrderInv
<1> QED
  BY <1>1, <1>2, <1>4, <1>5, <1>6 DEF LifeInv

\* New clients, and clients that leave.
LEMMA ConnectInv ==
    ASSUME LifeInv, NEW c \in Clients,
           OnNewClient(c) \/ RefuseClient(c) \/ AfterDisconnectionProcessing(c)
             \/ OnClientClosed(c) \/ StartDisconnection(c) \/ FinishDisconnection(c)
    PROVE  Values' /\ Counted' /\ WorkHasClient'
<1> USE Constants DEF LifeInv, Values, Lives, RequestStates
<1>0. Disconnecting \in SUBSET Clients /\ Closing \in SUBSET Clients
  BY DEF Disconnecting, Closing
<1>1. CASE OnNewClient(c)
  <2>1. Values' /\ WorkHasClient'
    BY <1>1 DEF OnNewClient, WorkHasClient
  <2>2. Counted'
    BY <1>1, CountedFrame DEF OnNewClient, Disconnecting, Closing
  <2> QED
    BY <2>1, <2>2
<1>2. CASE RefuseClient(c)
  <2>1. WorkHasClient'
    BY <1>2 DEF RefuseClient, WorkHasClient
  <2>2. Disconnecting' = Disconnecting \cup {c} /\ c \notin Disconnecting /\ Closing' = Closing
    BY <1>2 DEF RefuseClient, Disconnecting, Closing
  <2>3. queuedDisconnections' = queuedDisconnections + 1 /\ clientsClosing' = clientsClosing
    BY <1>2 DEF RefuseClient, CountDisconnections
  <2>4. Counted'
    BY <1>0, <2>2, <2>3, CountAdd DEF Counted
  <2> QED
    BY <1>2, <2>1, <2>3, <2>4 DEF RefuseClient
<1>3. CASE AfterDisconnectionProcessing(c)
  <2>1. WorkHasClient'
    BY <1>3 DEF AfterDisconnectionProcessing, WorkHasClient
  <2>2. /\ Disconnecting' = Disconnecting \ {c} /\ c \in Disconnecting
        /\ Closing' = Closing \cup {c} /\ c \notin Closing
    BY <1>3 DEF AfterDisconnectionProcessing, Disconnecting, Closing
  <2>3. Counted'
    BY <1>0, <1>3, <2>2, CountAdd DEF Counted, AfterDisconnectionProcessing
  <2>4. queuedDisconnections' \in Nat /\ clientsClosing' \in Nat
    BY <2>3, FiniteClients DEF Counted, Disconnecting, Closing
  <2> QED
    BY <1>3, <2>1, <2>3, <2>4 DEF AfterDisconnectionProcessing
<1>4. CASE OnClientClosed(c)
  <2>1. WorkHasClient'
    BY <1>4 DEF OnClientClosed, WorkHasClient
  <2>2. Disconnecting' = Disconnecting /\ Closing' = Closing \ {c} /\ c \in Closing
    BY <1>4 DEF OnClientClosed, Disconnecting, Closing
  <2>3. Counted'
    BY <1>0, <1>4, <2>2, CountAdd DEF Counted, OnClientClosed
  <2>4. clientsClosing' \in Nat
    BY <2>3, FiniteClients DEF Counted, Closing
  <2> QED
    BY <1>4, <2>1, <2>3, <2>4 DEF OnClientClosed
<1>5. CASE StartDisconnection(c)
  <2>1. Values' /\ WorkHasClient'
    BY <1>5 DEF StartDisconnection, WorkHasClient
  <2>2. Counted'
    BY <1>5, CountedFrame DEF StartDisconnection, Disconnecting, Closing
  <2> QED
    BY <2>1, <2>2
<1>6. CASE FinishDisconnection(c)
  <2>1. Values' /\ WorkHasClient'
    BY <1>6 DEF FinishDisconnection, WorkHasClient
  <2>2. Counted'
    BY <1>6, CountedFrame DEF FinishDisconnection, Disconnecting, Closing
  <2> QED
    BY <2>1, <2>2
<1> QED
  BY <1>1, <1>2, <1>3, <1>4, <1>5, <1>6

\* What is left to show when DisconnectAndDelete was called.
LEMMA DisconnectInv ==
    ASSUME LifeInv, NEW S \in SUBSET Pool, DisconnectAndDelete(S), UNCHANGED clientsClosing,
           \A c \in Clients : request'[c] # "none" \/ pending'[c] > 0 => life[c] = "pool"
    PROVE  /\ marked' \subseteq Clients /\ reading' \subseteq Clients
           /\ life' \in [Clients -> Lives] /\ queuedDisconnections' \in Nat
           /\ Counted' /\ WorkHasClient'
<1>1. Disconnected(S)
  BY DisconnectEffect DEF LifeInv
<1>2. Counted'
  BY <1>1 DEF LifeInv, Counted, Disconnected
<1>3. WorkHasClient'
  BY <1>1 DEF WorkHasClient, Disconnected
<1>4. queuedDisconnections' \in Nat
  BY <1>2, FiniteClients DEF Counted, Disconnecting
<1> QED
  BY <1>1, <1>2, <1>3, <1>4 DEF Disconnected

\* The callbacks that may disconnect a client.
LEMMA CallbackInv ==
    ASSUME LifeInv, NEW c \in Clients,
           RequestOutOfMemory(c) \/ OnReadError(c) \/ AfterRequestProcessing(c) \/ AfterSend(c)
    PROVE  Values' /\ Counted' /\ WorkHasClient'
<1> USE Constants DEF LifeInv, Values, RequestStates
<1>0. life[c] = "pool" => {c} \in SUBSET Pool
  BY DEF Pool
<1>1. CASE RequestOutOfMemory(c)
  <2>1. /\ DisconnectAndDelete({c}) /\ life[c] = "pool" /\ UNCHANGED <<pending, requestVars>>
        /\ UNCHANGED clientsClosing
    BY <1>1 DEF RequestOutOfMemory
  <2>2. \A x \in Clients : request'[x] # "none" \/ pending'[x] > 0 => life[x] = "pool"
    BY <2>1 DEF WorkHasClient
  <2> QED
    BY <1>0, <1>1, <2>1, <2>2, DisconnectInv DEF RequestOutOfMemory
<1>2. CASE OnReadError(c)
  <2>1. /\ DisconnectAndDelete({c}) /\ life[c] = "pool" /\ UNCHANGED <<pending, requestVars>>
        /\ UNCHANGED clientsClosing
    BY <1>2 DEF OnReadError
  <2>2. \A x \in Clients : request'[x] # "none" \/ pending'[x] > 0 => life[x] = "pool"
    BY <2>1 DEF WorkHasClient
  <2> QED
    BY <1>0, <1>2, <2>1, <2>2, DisconnectInv DEF OnReadError
<1>3. CASE AfterRequestProcessing(c)
  <2>1. life[c] = "pool"
    BY <1>3 DEF AfterRequestProcessing, WorkHasClient
  <2>2. /\ request' \in [Clients -> RequestStates] /\ pending' = pending
        /\ \A x \in Clients : request'[x] # "none" \/ pending'[x] > 0 => life[x] = "pool"
    BY <1>3, <2>1 DEF AfterRequestProcessing, WorkHasClient
  <2>3. CASE DisconnectAndDelete({c})
    <3>1. UNCHANGED clientsClosing
      BY <1>3 DEF AfterRequestProcessing
    <3>2. /\ marked' \subseteq Clients /\ reading' \subseteq Clients
          /\ life' \in [Clients -> Lives] /\ queuedDisconnections' \in Nat
          /\ Counted' /\ WorkHasClient'
      BY <1>0, <2>1, <2>2, <2>3, <3>1, DisconnectInv
    <3> QED
      BY <1>3, <2>2, <3>2 DEF AfterRequestProcessing
  <2>4. CASE marked' \subseteq Clients /\ UNCHANGED <<life, reading, queuedDisconnections>>
    <3>1. Counted'
      BY <1>3, <2>4, CountedFrame DEF AfterRequestProcessing, Disconnecting, Closing
    <3>2. WorkHasClient'
      BY <2>2, <2>4 DEF WorkHasClient
    <3> QED
      BY <1>3, <2>2, <2>4, <3>1, <3>2 DEF AfterRequestProcessing
  <2> QED
    BY <1>3, <2>3, <2>4 DEF AfterRequestProcessing
<1>4. ASSUME NEW n \in 1..MaxPending, NEW ok \in BOOLEAN, AfterSendResponses(c, n, ok)
      PROVE  Values' /\ Counted' /\ WorkHasClient'
  <2>1. /\ life[c] = "pool" /\ UNCHANGED requestVars /\ pending' \in [Clients -> 0..MaxPending]
        /\ \A x \in Clients : request'[x] # "none" \/ pending'[x] > 0 => life[x] = "pool"
    BY <1>4 DEF AfterSendResponses, WorkHasClient
  <2>2. CASE DisconnectAndDelete({c})
    <3>1. UNCHANGED clientsClosing
      BY <1>4 DEF AfterSendResponses
    <3>2. /\ marked' \subseteq Clients /\ reading' \subseteq Clients
          /\ life' \in [Clients -> Lives] /\ queuedDisconnections' \in Nat
          /\ Counted' /\ WorkHasClient'
      BY <1>0, <2>1, <2>2, <3>1, DisconnectInv
    <3> QED
      BY <1>4, <2>1, <3>2 DEF AfterSendResponses
  <2>3. CASE marked' \subseteq Clients /\ UNCHANGED <<life, reading, queuedDisconnections>>
    <3>1. Counted'
      BY <1>4, <2>3, CountedFrame DEF AfterSendResponses, Disconnecting, Closing
    <3>2. WorkHasClient'
      BY <2>1, <2>3 DEF WorkHasClient
    <3> QED
      BY <1>4, <2>1, <2>3, <3>1, <3>2 DEF AfterSendResponses
  <2> QED
    BY <1>4, <2>2, <2>3 DEF AfterSendResponses
<1> QED
  BY <1>1, <1>2, <1>3, <1>4 DEF AfterSend

\* Ctrl+S
LEMMA InitiateInv ==
    ASSUME LifeInv, InitiateServerShutdown PROVE Values' /\ Counted' /\ WorkHasClient'
<1>1. PICK S \in GetClients : DisconnectAndDelete(S)
  BY DEF InitiateServerShutdown
<1>2. S \in SUBSET Pool
  BY <1>1 DEF GetClients
<1>3. UNCHANGED <<pending, requestVars, clientsClosing>>
  BY DEF InitiateServerShutdown
<1>4. \A x \in Clients : request'[x] # "none" \/ pending'[x] > 0 => life[x] = "pool"
  BY <1>3 DEF LifeInv, WorkHasClient
<1>5. /\ marked' \subseteq Clients /\ reading' \subseteq Clients
      /\ life' \in [Clients -> Lives] /\ queuedDisconnections' \in Nat
      /\ Counted' /\ WorkHasClient'
  BY <1>1, <1>2, <1>3, <1>4, DisconnectInv
<1> QED
  BY <1>5, Constants DEF LifeInv, Values, InitiateServerShutdown

\* The steps that leave every client where it is.
LEMMA StayInv ==
    ASSUME LifeInv,
           \/ \E c \in Clients :
                 \/ CreateRequestAndQueue(c) \/ SendFatalResponse(c) \/ StartRequest(c)
                 \/ EndRequest(c) \/ SendKeepAliveTo(c)
                 \/ \E from \in Clients : SendResponse(from, c)
           \/ OnServerStopped \/ DoPeriodicActivities
           \/ AfterSendKeepAlive \/ StartKeepAlive \/ FinishKeepAlive
    PROVE  Values' /\ Counted' /\ WorkHasClient'
<1>1. UNCHANGED <<life, countVars>>
  BY DEF CreateRequestAndQueue, SendFatalResponse, StartRequest, EndRequest, FinishRequest,
         SendKeepAliveTo, SendResponse, OnServerStopped, DoPeriodicActivities,
         AfterSendKeepAlive, StartKeepAlive, FinishKeepAlive
<1>2. Counted'
  BY <1>1, CountedFrame DEF LifeInv, Disconnecting, Closing
<1> USE Constants DEF LifeInv, Values, RequestStates, WorkHasClient
<1>3. ASSUME NEW c \in Clients, CreateRequestAndQueue(c) PROVE Values' /\ WorkHasClient'
  BY <1>3 DEF CreateRequestAndQueue
<1>4. ASSUME NEW c \in Clients, SendFatalResponse(c) PROVE Values' /\ WorkHasClient'
  BY <1>4 DEF SendFatalResponse
<1>5. ASSUME NEW c \in Clients, StartRequest(c) PROVE Values' /\ WorkHasClient'
  BY <1>5 DEF StartRequest
<1>6. ASSUME NEW c \in Clients, EndRequest(c) PROVE Values' /\ WorkHasClient'
  BY <1>6 DEF EndRequest, FinishRequest
<1>7. ASSUME NEW c \in Clients, SendKeepAliveTo(c) PROVE Values' /\ WorkHasClient'
  BY <1>7 DEF SendKeepAliveTo, AcceptsResponse
<1>8. ASSUME NEW c \in Clients, NEW from \in Clients, SendResponse(from, c)
      PROVE  Values' /\ WorkHasClient'
  BY <1>8 DEF SendResponse, AcceptsResponse
<1>9. ASSUME OnServerStopped PROVE Values' /\ WorkHasClient'
  BY <1>9 DEF OnServerStopped
<1>10. ASSUME DoPeriodicActivities PROVE Values' /\ WorkHasClient'
  BY <1>10 DEF DoPeriodicActivities, SendKeepAlive, DeleteRequestProcessors
<1>11. ASSUME AfterSendKeepAlive \/ StartKeepAlive \/ FinishKeepAlive
       PROVE  Values' /\ WorkHasClient'
  BY <1>11 DEF AfterSendKeepAlive, StartKeepAlive, FinishKeepAlive, Pool
<1> QED
  BY <1>2, <1>3, <1>4, <1>5, <1>6, <1>7, <1>8, <1>9, <1>10, <1>11

LEMMA FlagsInv == Flags /\ Next => Flags'
<1> SUFFICES ASSUME Flags, Next PROVE Flags'
  OBVIOUS
<1> USE DEF Flags
<1>1. ASSUME NEW c \in Clients, ClientNext(c) PROVE Flags'
  BY <1>1
  DEF ClientNext, OnNewClient, RefuseClient, CreateRequestAndQueue, RequestOutOfMemory,
      OnReadError, AfterRequestProcessing, SendFatalResponse, AfterSend, AfterSendResponses,
      AfterDisconnectionProcessing, OnClientClosed, StartRequest, EndRequest, FinishRequest,
      SendResponse, StartDisconnection, FinishDisconnection, SendKeepAliveTo
<1>2. CASE InitiateServerShutdown
  BY <1>2 DEF InitiateServerShutdown
<1>3. CASE OnServerStopped \/ DoPeriodicActivities \/ AfterSendKeepAlive \/ StartKeepAlive
             \/ FinishKeepAlive
  BY <1>3 DEF OnServerStopped, DoPeriodicActivities, AfterSendKeepAlive, StartKeepAlive,
              FinishKeepAlive
<1> QED
  BY <1>1, <1>2, <1>3 DEF Next

LEMMA LifeStep == LifeInv /\ [Next]_vars => LifeInv'
<1> SUFFICES ASSUME LifeInv, [Next]_vars PROVE LifeInv'
  OBVIOUS
<1>1. CASE Next
  <2>1. Values' /\ Counted' /\ WorkHasClient'
    BY <1>1, ConnectInv, CallbackInv, InitiateInv, StayInv DEF Next, ClientNext
  <2>2. Flags'
    BY <1>1, FlagsInv DEF LifeInv
  <2> QED
    BY <2>1, <2>2 DEF LifeInv
<1>2. CASE UNCHANGED vars
  BY <1>2 DEF vars, LifeInv, Flags, Values, Counted, Disconnecting, Closing, WorkHasClient
<1> QED
  BY <1>1, <1>2

-------------------------------------------------------------------------------
(* The order of a shutdown                                                   *)

\* No client is given new work once all are disconnected.
LEMMA OrderStep ==
    ASSUME CalmShutdown, "list" \notin OutOfMemory, LifeInv, OrderInv, Next
    PROVE  OrderInv'
<1> USE DEF LifeInv, Values, Lives, OrderInv, Pool
<1>1. ASSUME NEW c \in Clients, ClientNext(c), ~AfterDisconnectionProcessing(c) PROVE OrderInv'
  <2>1. UNCHANGED shutdownVars
    BY <1>1
    DEF ClientNext, OnNewClient, RefuseClient, CreateRequestAndQueue, RequestOutOfMemory,
        OnReadError, AfterRequestProcessing, SendFatalResponse, AfterSend, AfterSendResponses,
        OnClientClosed, StartRequest, EndRequest, FinishRequest,
        SendResponse, StartDisconnection, FinishDisconnection, SendKeepAliveTo
  <2>2. ASSUME shuttingDown, Pool = {}, Disconnecting = {}
        PROVE  \A x \in Clients : life'[x] = life[x] \/ life'[x] = "deleted"
    <3>1. listening # "open" /\ \A x \in Clients : life[x] \in {"unborn", "closing", "deleted"}
      BY <2>2 DEF Disconnecting
    <3>2. \A x \in Clients : request[x] = "none" /\ pending[x] = 0
      BY <3>1 DEF WorkHasClient
    <3> QED
      BY <1>1, <3>1, <3>2, Constants
      DEF ClientNext, OnNewClient, RefuseClient, CreateRequestAndQueue, RequestOutOfMemory,
          OnReadError, AfterRequestProcessing, SendFatalResponse, AfterSend, AfterSendResponses,
          OnClientClosed, StartRequest, EndRequest, FinishRequest,
          SendResponse, StartDisconnection, FinishDisconnection, SendKeepAliveTo
  <2> QED
    BY <2>1, <2>2 DEF Disconnecting, Closing
<1>2. ASSUME NEW c \in Clients, AfterDisconnectionProcessing(c) PROVE OrderInv'
  <2>1. c \in Disconnecting /\ UNCHANGED <<shuttingDown, listening, processors>>
    BY <1>2 DEF AfterDisconnectionProcessing, Disconnecting
  <2>2. ~allDisconnected /\ processors # "deleted"
    BY <2>1
  <2>3. allDisconnected' => shuttingDown /\ Pool' = {} /\ queuedDisconnections' = 0
    BY <1>2, <2>2 DEF AfterDisconnectionProcessing, NoClientLeft
  <2>4. Counted'
    BY <1>2, ConnectInv
  <2>5. queuedDisconnections' = 0 => Disconnecting' = {}
    BY <2>4, FiniteClients DEF Counted, Disconnecting
  <2> QED
    BY <2>1, <2>2, <2>3, <2>5
<1>3. CASE InitiateServerShutdown
  <2>1. PICK S \in GetClients : /\ DisconnectAndDelete(S)
                                /\ allDisconnected' = (allDisconnected \/ S = {})
    BY <1>3 DEF InitiateServerShutdown
  <2>2. S = Pool /\ ~shuttingDown /\ (Pool # {} \/ queuedDisconnections = 0)
    BY <1>3, <2>1 DEF GetClients, InitiateServerShutdown
  <2>3. listening' # "open" /\ shuttingDown' /\ ~allDisconnected /\ processors' # "deleted"
    BY <1>3, <2>2 DEF InitiateServerShutdown
  <2>4. CASE Pool = {}
    <3>1. Disconnected(S)
      BY <2>1, <2>2, DisconnectEffect
    <3>2. \A x \in Clients : life'[x] = life[x]
      BY <2>2, <2>4, <3>1 DEF Disconnected
    <3>3. Disconnecting = {}
      BY <2>2, <2>4, FiniteClients DEF Counted, Disconnecting
    <3> QED
      BY <2>3, <2>4, <3>2, <3>3 DEF Disconnecting
  <2>5. CASE Pool # {}
    <3>1. ~allDisconnected'
      BY <2>1, <2>2, <2>3, <2>5
    <3> QED
      BY <2>3, <3>1
  <2> QED
    BY <2>4, <2>5
<1>4. CASE DoPeriodicActivities
  <2>1. UNCHANGED <<life, shuttingDown, listening, allDisconnected>>
    BY <1>4 DEF DoPeriodicActivities
  <2>2. processors' = processors \/ (allDisconnected /\ clientsClosing = 0)
    BY <1>4 DEF DoPeriodicActivities, AllClientsClosed
  <2>3. clientsClosing = 0 => Closing = {}
    BY FiniteClients DEF Counted, Closing
  <2> QED
    BY <2>1, <2>2, <2>3 DEF Disconnecting, Closing
<1>5. CASE OnServerStopped \/ AfterSendKeepAlive \/ StartKeepAlive \/ FinishKeepAlive
  BY <1>5 DEF OnServerStopped, AfterSendKeepAlive, StartKeepAlive, FinishKeepAlive,
              Disconnecting, Closing
<1> QED
  BY <1>1, <1>2, <1>3, <1>4, <1>5 DEF Next

-------------------------------------------------------------------------------
(* What follows                                                              *)

\* QueuedDisconnections and m_ClientsClosing, for which a shutdown waits, count exactly the
\* clients whose disconnection is under way and those whose handle is being closed: no
\* disconnection is queued twice, whatever is thrown in which order.
THEOREM DisconnectionsCorrect == Spec => []DisconnectionsAccounted
<1>1. LifeInv => DisconnectionsAccounted
  BY DEF LifeInv, Flags, Values, Lives, RequestStates, Counted, Disconnecting, Closing,
         DisconnectionsAccounted, ShutdownTypeOK
<1> QED
  BY InitLife, LifeStep, <1>1, PTL DEF Spec

\* A client with a request or a response is in the pool: RemoveClient lets none of them go,
\* however threads, callbacks and the shutdown interleave.
THEOREM WorkCorrect == Spec => []WorkHasClient
<1>1. LifeInv => WorkHasClient
  BY DEF LifeInv
<1> QED
  BY InitLife, LifeStep, <1>1, PTL DEF Spec

\* When Ctrl+S is pressed once, not while the last disconnections are queued, and the list
\* of the clients can be made, the request processors are deleted only after every client.
THEOREM ProcessorsCorrect ==
    ASSUME CalmShutdown, "list" \notin OutOfMemory PROVE Spec => []ProcessorsDeletedLast
<1>1. LifeInv /\ OrderInv /\ [Next]_vars => OrderInv'
  <2> SUFFICES ASSUME LifeInv, OrderInv, [Next]_vars PROVE OrderInv'
    OBVIOUS
  <2>1. CASE UNCHANGED vars
    BY <2>1 DEF vars, OrderInv, Pool, Disconnecting, Closing
  <2> QED
    BY <2>1, OrderStep
<1>2. LifeInv /\ OrderInv => ProcessorsDeletedLast
  <2> SUFFICES ASSUME LifeInv, OrderInv, processors = "deleted", NEW c \in Clients
               PROVE  life[c] \in {"unborn", "deleted"} /\ request[c] = "none"
    BY DEF ProcessorsDeletedLast
  <2>1. life[c] \in {"unborn", "deleted"}
    BY DEF LifeInv, Values, Lives, OrderInv, Pool, Disconnecting, Closing
  <2> QED
    BY <2>1 DEF LifeInv, WorkHasClient
<1> QED
  BY InitLife, LifeStep, <1>1, <1>2, PTL DEF Spec
===============================================================================
