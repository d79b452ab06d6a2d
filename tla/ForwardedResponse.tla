---------------------------- MODULE ForwardedResponse ----------------------------
(***************************************************************************)
(* A response for many clients, from the request thread that sends it to   *)
(* the servers those clients are connected to: grouping of the handles by  *)
(* server, splitting over several forwarded responses, what is written     *)
(* into each, and how the peer's processor for forwarded responses reads   *)
(* it back, delivers it and acknowledges it.                               *)
(*                                                                         *)
(* A forwarded response is                                                 *)
(*    version | number of handles | registration numbers | response        *)
(* behind the header that RequestBuffer is about.  Of its bytes the model  *)
(* has the lengths and offsets.  How it travels is the subject of          *)
(* PeerServers; here the way to a server is a queue that may lose things.  *)
(***************************************************************************)
EXTENDS Integers, Sequences, FiniteSets

CONSTANTS
    Messages,      \* messages that are multicast, each once
    Strangers,     \* messages the framework did not construct, each received once
    StrangeCounts, \* the numbers of handles they claim to hold
    Handles,       \* ClientHandles of clients, on whichever server
    ServerOf,      \* m_ServerIPv4Address of every handle
    Local,         \* the server the messages are sent from
    MaxHandles,    \* MAX_HANDLES_IN_FORWARDED_RESPONSE
    MaxPayload,    \* MAX_POSSIBLE_REQUEST_RESPONSE_SIZE
    NumberBytes,   \* sizeof(UINT64), a registration number
    Word           \* unsigned lengths and numbers are below this power of two

VersionBytes == 2
HandleBytes == 4
Peers == {ServerOf[h] : h \in Handles} \ {Local}

\* Mutant: the receiver makes room for one registration number less.
OneHandleLess ==
    VersionBytes + HandleBytes + (MaxHandles - 1) * NumberBytes + MaxPayload

\* CalculateVersionParameters: m_MaxRequestSize, and m_MaxResponseSize with it.
MaxForwardSize == VersionBytes + HandleBytes + MaxHandles * NumberBytes + MaxPayload

ASSUME ForwardedResponseAssumption ==
    /\ IsFiniteSet(Handles) /\ Messages \cap Strangers = {}
    /\ MaxHandles \in Nat \ {0} /\ MaxPayload \in Nat \ {0} /\ NumberBytes \in Nat \ {0}
    /\ Word \in Nat /\ MaxForwardSize < Word
    \* A minimum length that wraps around is never below that of a response without handles.
    /\ NumberBytes > VersionBytes + HandleBytes + 1 /\ Word % NumberBytes = 0
    /\ StrangeCounts \subseteq 0..(Word - 1)

VARIABLES
    size,      \* the length of every message, 0 before it is sent or received
    targets,   \* the handles it was sent to
    todo,      \* the handles for which no response was created yet
    failed,    \* messages of which something ran out of memory, was refused or got lost
    wire,      \* the forwarded responses on their way to every peer
    rx,        \* the request a peer is processing, or Idle
    delivered, \* how often a message was queued for a handle, at whichever server
    acks       \* acknowledgements of every peer for a message

vars == <<size, targets, todo, failed, wire, rx, delivered, acks>>

Idle == [reading |-> FALSE]

Init ==
    /\ size = [m \in Messages \cup Strangers |-> 0]
    /\ targets = [m \in Messages |-> {}] /\ todo = [m \in Messages |-> {}]
    /\ failed = {}
    /\ wire = [s \in Peers |-> <<>>]
    /\ rx = [s \in Peers |-> Idle]
    /\ delivered = [m \in Messages |-> [h \in Handles |-> 0]]
    /\ acks = [s \in Peers |-> [m \in Messages \cup Strangers |-> 0]]

-------------------------------------------------------------------------------
(* The sender                                                                *)

\* StoreMessage accepts a message of valid length for at least one handle.
Send(m, handles, n) ==
    /\ size[m] = 0
    /\ handles # {} /\ n \in 1..MaxPayload
    /\ size' = [size EXCEPT ![m] = n]
    /\ targets' = [targets EXCEPT ![m] = handles]
    /\ todo' = [todo EXCEPT ![m] = handles]
    /\ UNCHANGED <<failed, wire, rx, delivered, acks>>

\* The handles of one server, consolidated by StoreMessage.
HandlesAt(m, s) == {h \in todo[m] : ServerOf[h] = s}

\* CreateResponseAndAddToQueues: the first MaxHandles of the handles of a remote server, in
\* the order of their addresses, or all of them.
IsChunk(all, chunk) ==
    /\ chunk # {} /\ chunk \subseteq all
    /\ IF Cardinality(all) > MaxHandles
       THEN Cardinality(chunk) = MaxHandles
       ELSE chunk = all

\* AdditionalFieldsSize.
FieldsSize(n) == VersionBytes + HandleBytes + n * NumberBytes

\* ConstructResponseForRemoteClients.
Construct(m, chunk) ==
    [len       |-> FieldsSize(Cardinality(chunk)) + size[m],
     count     |-> Cardinality(chunk),
     numbers   |-> chunk,
     payload   |-> m,
     payloadAt |-> FieldsSize(Cardinality(chunk))]

\* Mutant: the handles stay in the set.
KeepChunk(all, chunk) == all

\* Clienthandle_ptrs.erase (StartIt, EndIt).
EraseChunk(all, chunk) == all \ chunk

\* The response is queued for the clients in taken.
Deliver(m, taken) ==
    delivered' = [delivered EXCEPT ![m] = [h \in Handles |-> @[h] + IF h \in taken THEN 1 ELSE 0]]

\* Less was done for m than there was to do.
NoteUnless(complete, m) == failed' = IF complete THEN failed ELSE failed \cup ({m} \cap Messages)

\* A response for local clients is created for all of them at once; the queue of a client
\* that is gone or has too many responses refuses it.
CreateLocal(m, taken) ==
    LET all == HandlesAt(m, Local) IN
    /\ all # {} /\ taken \subseteq all
    /\ todo' = [todo EXCEPT ![m] = EraseChunk(@, all)]
    /\ Deliver(m, taken)
    /\ NoteUnless(taken = all, m)
    /\ UNCHANGED <<size, targets, wire, rx, acks>>

\* A response for clients of a peer is constructed and queued; one that is too long throws
\* ResponseCreationException, and the rest of the handles of that server is given up.
CreateForward(m, s, chunk) ==
    /\ IsChunk(HandlesAt(m, s), chunk)
    /\ IF Construct(m, chunk).len <= MaxForwardSize
       THEN /\ wire' = [wire EXCEPT ![s] = Append(@, Construct(m, chunk))]
            /\ todo' = [todo EXCEPT ![m] = EraseChunk(@, chunk)]
       ELSE /\ todo' = [todo EXCEPT ![m] = @ \ HandlesAt(m, s)]
            /\ UNCHANGED wire
    /\ UNCHANGED <<size, targets, failed, rx, delivered, acks>>

\* The queue of the peer refuses the response: its handles are erased all the same.
ForwardRefused(m, s, chunk) ==
    /\ IsChunk(HandlesAt(m, s), chunk)
    /\ todo' = [todo EXCEPT ![m] = EraseChunk(@, chunk)]
    /\ failed' = failed \cup {m}
    /\ UNCHANGED <<size, targets, wire, rx, delivered, acks>>

\* std::bad_alloc: the rest of the handles of that server is given up.
CreateFails(m, s) ==
    /\ HandlesAt(m, s) # {}
    /\ todo' = [todo EXCEPT ![m] = @ \ HandlesAt(m, s)]
    /\ failed' = failed \cup {m}
    /\ UNCHANGED <<size, targets, wire, rx, delivered, acks>>

\* A message from elsewhere with the version of forwarded responses: any length the request
\* parser lets through, any number of handles.
ReceiveStrange(x, s, n, len) ==
    /\ size[x] = 0
    /\ size' = [size EXCEPT ![x] = len]
    /\ wire' = [wire EXCEPT ![s] =
                  Append(@, [len |-> len, count |-> n, numbers |-> {}, payload |-> x,
                             payloadAt |-> 0])]
    /\ UNCHANGED <<targets, todo, failed, rx, delivered, acks>>

-------------------------------------------------------------------------------
(* RequestProcessor_ForwardedResponses::ProcessRequest                       *)

senderVars == <<size, targets, todo>>

\* The connection is lost, or the peer drops the request.
Lose(s) ==
    /\ wire[s] # <<>>
    /\ failed' = failed \cup ({Head(wire[s]).payload} \cap Messages)
    /\ wire' = [wire EXCEPT ![s] = Tail(@)]
    /\ UNCHANGED <<senderVars, rx, delivered, acks>>

\* MinimumLength, computed in unsigned arithmetic.
MinimumLength(n) == (FieldsSize(n) + 1) % Word

\* The message has room for the two fixed fields and, as computed, for the handles.
LongEnough(msg) ==
    /\ msg.len >= VersionBytes + HandleBytes
    /\ msg.len >= MinimumLength(msg.count)

\* The request parser passes on a request the peer's parameters allow; a request that is not
\* long enough is not processed.
StartProcessing(s) ==
    /\ wire[s] # <<>> /\ rx[s] = Idle
    /\ wire' = [wire EXCEPT ![s] = Tail(@)]
    /\ IF Head(wire[s]).len <= MaxForwardSize /\ LongEnough(Head(wire[s]))
       THEN rx' = [rx EXCEPT ![s] = [reading |-> TRUE, msg |-> Head(wire[s]), n |-> 0,
                                     index |-> VersionBytes + HandleBytes]]
       ELSE UNCHANGED rx
    /\ UNCHANGED <<senderVars, failed, delivered, acks>>

\* Mutant: nobody looks whether there is another registration number.
AlwaysRoom(r) == TRUE

\* Room for the next registration number and something behind it.
HasRoom(r) == r.index + NumberBytes < r.msg.len

\* Mutant: the client index that handles once had is skipped.
ReadHandleWithIndex(s) ==
    /\ rx[s].reading /\ rx[s].n < rx[s].msg.count
    /\ HasRoom(rx[s])
    /\ rx' = [rx EXCEPT ![s].n = @ + 1, ![s].index = @ + NumberBytes + 4]
    /\ UNCHANGED <<senderVars, failed, wire, delivered, acks>>

\* Collect one handle.
ReadHandle(s) ==
    /\ rx[s].reading /\ rx[s].n < rx[s].msg.count
    /\ HasRoom(rx[s])
    /\ rx' = [rx EXCEPT ![s].n = @ + 1, ![s].index = @ + NumberBytes]
    /\ UNCHANGED <<senderVars, failed, wire, delivered, acks>>

\* Not all of the handles are there: the request is refused without acknowledgement.
ReadHandleRefused(s) ==
    /\ rx[s].reading /\ rx[s].n < rx[s].msg.count
    /\ ~HasRoom(rx[s])
    /\ rx' = [rx EXCEPT ![s] = Idle]
    /\ UNCHANGED <<senderVars, failed, wire, delivered, acks>>

\* std::bad_alloc: no acknowledgement either.
ReadHandleFails(s) ==
    /\ rx[s].reading /\ rx[s].n < rx[s].msg.count
    /\ rx' = [rx EXCEPT ![s] = Idle]
    /\ failed' = failed \cup ({rx[s].msg.payload} \cap Messages)
    /\ UNCHANGED <<senderVars, wire, delivered, acks>>

\* SendResponse to the handles that were collected.  Nothing is stored for a version the peer
\* does not know or a response too long for it, or without memory; some clients may refuse.
PassOn(r, taken) ==
    /\ taken \subseteq r.msg.numbers
    /\ IF r.msg.payload \in Messages THEN Deliver(r.msg.payload, taken) ELSE UNCHANGED delivered

\* SendResponse of the acknowledgement, which may find no memory.
Acknowledge(s, acked) ==
    acks' = IF acked THEN [acks EXCEPT ![s][rx[s].msg.payload] = @ + 1] ELSE acks

\* All handles are collected: deliver the response, then acknowledge it, whatever became of it.
FinishProcessing(s, taken, acked) ==
    /\ rx[s].reading /\ rx[s].n = rx[s].msg.count
    /\ PassOn(rx[s], taken)
    /\ Acknowledge(s, acked)
    /\ NoteUnless(taken = rx[s].msg.numbers /\ acked, rx[s].msg.payload)
    /\ rx' = [rx EXCEPT ![s] = Idle]
    /\ UNCHANGED <<senderVars, wire>>

-------------------------------------------------------------------------------
Sender(m) ==
    \/ \E n \in 1..MaxPayload, handles \in SUBSET Handles : Send(m, handles, n)
    \/ \E taken \in SUBSET HandlesAt(m, Local) : CreateLocal(m, taken)
    \/ CreateFails(m, Local)
    \/ \E s \in Peers :
          \/ \E chunk \in SUBSET HandlesAt(m, s) :
                CreateForward(m, s, chunk) \/ ForwardRefused(m, s, chunk)
          \/ CreateFails(m, s)

Stranger(x) ==
    \E s \in Peers, n \in StrangeCounts, len \in 1..MaxForwardSize : ReceiveStrange(x, s, n, len)

Receiver(s) ==
    \/ StartProcessing(s) \/ ReadHandle(s) \/ ReadHandleRefused(s) \/ ReadHandleFails(s)
    \/ \E taken \in SUBSET Handles, acked \in BOOLEAN : FinishProcessing(s, taken, acked)
    \/ Lose(s)

Next ==
    \/ \E m \in Messages : Sender(m)
    \/ \E x \in Strangers : Stranger(x)
    \/ \E s \in Peers : Receiver(s)

Spec == Init /\ [][Next]_vars

-------------------------------------------------------------------------------
(* Properties                                                                *)

\* Whatever is split, lost or refused, no handle gets a message twice, and none gets one
\* that was not sent to it.
DeliveredAtMostOnce ==
    \A m \in Messages, h \in Handles :
        delivered[m][h] <= IF h \in targets[m] THEN 1 ELSE 0

\* No part of m is under way.
Quiet(m) ==
    /\ todo[m] = {}
    /\ \A s \in Peers : /\ \A i \in 1..Len(wire[s]) : wire[s][i].payload # m
                        /\ rx[s].reading => rx[s].msg.payload # m

\* The number of forwarded responses n handles take.
Parts(n) == (n + MaxHandles - 1) \div MaxHandles

\* A message of which nothing failed reaches every one of its handles, over however many
\* forwarded responses they were spread, and every one of these is acknowledged once: none
\* is refused for its length on either side, up to the largest response and number of handles.
DeliveredToAll ==
    \A m \in Messages :
        Quiet(m) /\ m \notin failed =>
            /\ \A h \in targets[m] : delivered[m][h] = 1
            /\ \A s \in Peers :
                  acks[s][m] = Parts(Cardinality({h \in targets[m] : ServerOf[h] = s}))

\* Whatever number of handles a request claims to hold, and although the minimum length
\* computed from it may have wrapped around, everything a peer reads is inside the request
\* and at least one byte of it is left as the response.
HandlesReadInside ==
    \A s \in Peers : rx[s].reading =>
        /\ rx[s].index = FieldsSize(rx[s].n)
        /\ rx[s].index < rx[s].msg.len

\* What is delivered is the response and nothing else: it begins behind the last handle,
\* and is as long as what was sent.
PayloadIntact ==
    \A s \in Peers :
        rx[s].reading /\ rx[s].n = rx[s].msg.count /\ rx[s].msg.payload \in Messages =>
            /\ rx[s].index = rx[s].msg.payloadAt
            /\ rx[s].msg.len - rx[s].index = size[rx[s].msg.payload]
===============================================================================
