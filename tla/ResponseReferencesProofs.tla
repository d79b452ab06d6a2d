----------------------- MODULE ResponseReferencesProofs -----------------------
(***************************************************************************)
(* Proofs about the reference counts of responses, for any number of       *)
(* clients, threads and responses: a response is deleted when, and only    *)
(* when, all clients that took it have been served; the counter of         *)
(* responses in queues is exact; and no queue is forgotten.                *)
(***************************************************************************)
EXTENDS ResponseQueuesProofs

-------------------------------------------------------------------------------
(* The inductive invariant                                                   *)

\* A client holds a response once.
OnceInv ==
    \A c \in Clients :
        /\ \A d \in Directions : IsInjective(queue[c][d])
        /\ \A d, e \in Directions : Range(queue[c][d]) \cap Range(queue[c][e]) # {} => d = e
        /\ \A d \in Directions : Range(queue[c][d]) \cap Range(beingSent[c]) = {}

\* Only the queue the threads fill holds responses whose reference count is not set yet.
HeldInv ==
    \A c \in Clients :
        /\ \A r \in Range(queue[c][Unlocked]) \cup Range(beingSent[c]) : state[r] = "queued"
        /\ \A r \in Range(queue[c][direction]) : state[r] \in {"adding", "queued"}

\* What a thread that adds a response knows: how many clients hold it, and that the clients
\* it has not tried, and the one it is trying, do not.
Adds(t) ==
    /\ state[adding[t]] = "adding"
    /\ added[t] = Cardinality(Holders(adding[t]))
    /\ Holders(adding[t]) \cap (todo[t] \cup {current[t]}) = {}
    /\ current[t] \notin todo[t]

AddInv ==
    /\ \A t \in Threads : pc[t] # "idle" => Adds(t)
    /\ \A t, u \in Threads : pc[t] # "idle" /\ pc[u] # "idle" /\ adding[t] = adding[u] => t = u
    /\ \A r \in Responses : state[r] = "adding" => \E t \in Threads : pc[t] # "idle" /\ adding[t] = r

\* Clients that were served and clients that hold the response are all its references.
Sent(r) ==
    /\ state[r] \in {"unborn", "adding"} => sentCount[r] = 0
    /\ state[r] = "queued" => sentCount[r] + Cardinality(Holders(r)) = refs[r] /\ Holders(r) # {}

SentInv == \A r \in Responses : Sent(r)

RefInv == OnceInv /\ HeldInv /\ AddInv /\ SentInv

-------------------------------------------------------------------------------
(* Sequences and sets                                                        *)

LEMMA RangeAppend ==
  ASSUME NEW q \in Seq(Responses), NEW r \in Responses
  PROVE  /\ Range(Append(q, r)) = Range(q) \cup {r}
         /\ IsInjective(q) /\ r \notin Range(q) => IsInjective(Append(q, r))
<1>1. /\ Append(q, r) \in Seq(Responses) /\ Len(Append(q, r)) = Len(q) + 1 /\ Len(q) \in Nat
      /\ Append(q, r)[Len(q) + 1] = r /\ \A i \in 1..Len(q) : Append(q, r)[i] = q[i]
  OBVIOUS
<1>2. DOMAIN q = 1..Len(q) /\ DOMAIN Append(q, r) = 1..(Len(q) + 1)
  BY <1>1
<1>3. \A i \in 1..(Len(q) + 1) : i \in 1..Len(q) \/ i = Len(q) + 1
  BY <1>1
<1>4. Range(Append(q, r)) = Range(q) \cup {r}
  BY <1>1, <1>2, <1>3 DEF Range
<1>5. ASSUME IsInjective(q), r \notin Range(q) PROVE IsInjective(Append(q, r))
  <2>1. \A i \in 1..Len(q) : q[i] # r
    BY <1>2, <1>5 DEF Range
  <2> QED
    BY <1>1, <1>2, <1>3, <1>5, <2>1 DEF IsInjective
<1> QED
  BY <1>4, <1>5

LEMMA RangeSplit ==
  ASSUME NEW q \in Seq(Responses), NEW n \in 1..Len(q)
  PROVE  /\ Range(q) = Range(SubSeq(q, 1, n)) \cup Range(SubSeq(q, n + 1, Len(q)))
         /\ IsInjective(q) => /\ Range(SubSeq(q, 1, n)) \cap Range(SubSeq(q, n + 1, Len(q))) = {}
                              /\ IsInjective(SubSeq(q, n + 1, Len(q)))
<1> DEFINE f == SubSeq(q, 1, n)
           g == SubSeq(q, n + 1, Len(q))
<1>1. /\ f \in Seq(Responses) /\ g \in Seq(Responses) /\ Len(f) = n /\ Len(g) = Len(q) - n
      /\ \A i \in 1..n : f[i] = q[i]
      /\ \A i \in 1..(Len(q) - n) : g[i] = q[n + i]
  BY Split
<1>2. DOMAIN q = 1..Len(q) /\ DOMAIN f = 1..n /\ DOMAIN g = 1..(Len(q) - n) /\ Len(q) \in Nat
  BY <1>1
<1> HIDE DEF f, g
<1>3. \A i \in 1..Len(q) : i \in 1..n \/ (i - n \in 1..(Len(q) - n) /\ n + (i - n) = i)
  BY <1>2
<1>4. \A i \in 1..(Len(q) - n) : n + i \in 1..Len(q) /\ ~(n + i <= n)
  BY <1>2
<1>5. \A i \in 1..n : i \in 1..Len(q) /\ i <= n
  BY <1>2
<1>6. Range(q) = Range(f) \cup Range(g)
  <2>1. ASSUME NEW x \in Range(q) PROVE x \in Range(f) \cup Range(g)
    <3>1. PICK i \in 1..Len(q) : x = q[i]
      BY <1>2 DEF Range
    <3>2. CASE i \in 1..n
      BY <1>1, <1>2, <3>1, <3>2 DEF Range
    <3>3. CASE i - n \in 1..(Len(q) - n) /\ n + (i - n) = i
      <4>1. g[i - n] = x
        BY <1>1, <3>1, <3>3
      <4> QED
        BY <1>2, <3>3, <4>1 DEF Range
    <3> QED
      BY <1>3, <3>2, <3>3
  <2>2. \A x \in Range(f) : x \in Range(q)
    BY <1>1, <1>2, <1>5 DEF Range
  <2>3. ASSUME NEW x \in Range(g) PROVE x \in Range(q)
    <3>1. PICK i \in 1..(Len(q) - n) : x = g[i]
      BY <1>2 DEF Range
    <3>2. n + i \in DOMAIN q /\ q[n + i] = x
      BY <1>1, <1>2, <1>4, <3>1
    <3> QED
      BY <3>2 DEF Range
  <2> QED
    BY <2>1, <2>2, <2>3
<1>7. ASSUME IsInjective(q) PROVE Range(f) \cap Range(g) = {}
  <2> SUFFICES ASSUME NEW i \in 1..n, NEW j \in 1..(Len(q) - n), f[i] = g[j] PROVE FALSE
    BY <1>2 DEF Range
  <2>1. i = n + j
    BY <1>1, <1>2, <1>4, <1>5, <1>7 DEF IsInjective
  <2> QED
    BY <1>4, <1>5, <2>1
<1>8. ASSUME IsInjective(q) PROVE IsInjective(g)
  <2> SUFFICES ASSUME NEW i \in 1..(Len(q) - n), NEW j \in 1..(Len(q) - n), g[i] = g[j] PROVE i = j
    BY <1>2 DEF IsInjective
  <2>1. n + i = n + j
    BY <1>1, <1>2, <1>4, <1>8 DEF IsInjective
  <2> QED
    BY <2>1
<1> QED
  BY <1>6, <1>7, <1>8 DEF f, g

\* The clients that hold a response, one more and one less.
LEMMA HolderSets ==
  ASSUME NEW S \in SUBSET Clients
  PROVE  /\ IsFiniteSet(S) /\ Cardinality(S) \in Nat /\ (Cardinality(S) = 0 <=> S = {})
         /\ \A c \in Clients : /\ c \notin S => Cardinality(S \cup {c}) = Cardinality(S) + 1
                               /\ c \in S => Cardinality(S \ {c}) = Cardinality(S) - 1
<1>1. IsFiniteSet(S)
  BY ResponseQueuesAssumption, FS_Subset
<1> QED
  BY <1>1, FS_CardinalityType, FS_EmptySet, FS_AddElement, FS_RemoveElement

LEMMA HoldersType == \A r : Holders(r) \in SUBSET Clients
  BY DEF Holders

\* The responses of a client that changes one queue.
LEMMA QueueRanges ==
  ASSUME ClientTypeOK, NEW c \in Clients, NEW d \in Directions, NEW q \in Seq(Responses),
         queue' = [queue EXCEPT ![c][d] = q]
  PROVE  \A k \in Clients : \A e \in Directions :
            queue'[k][e] = IF k = c /\ e = d THEN q ELSE queue[k][e]
  BY DEF ClientTypeOK

-------------------------------------------------------------------------------
(* Threads                                                                   *)

LEMMA InitRefs == Init => RefInv
<1> SUFFICES ASSUME Init PROVE RefInv
  OBVIOUS
<1>1. Range(<<>>) = {} /\ IsInjective(<<>>)
  BY DEF Range, IsInjective
<1>2. Unlocked \in Directions /\ direction \in Directions
  BY DEF Init, Unlocked, Other, Directions
<1>3. /\ \A c \in Clients : \A d \in Directions : queue[c][d] = <<>>
      /\ \A c \in Clients : beingSent[c] = <<>>
  BY DEF Init
<1>4. OnceInv /\ HeldInv
  BY <1>1, <1>2, <1>3 DEF OnceInv, HeldInv
<1>5. AddInv /\ SentInv
  BY DEF Init, AddInv, SentInv, Sent
<1> QED
  BY <1>4, <1>5 DEF RefInv

\* Steps that touch neither queues nor batches nor responses nor threads.
LEMMA RefFrame ==
  ASSUME RefInv, UNCHANGED <<queue, beingSent, direction, responseVars, threadVars>>
  PROVE  RefInv'
<1>1. \A r : Holders(r)' = Holders(r)
  BY DEF Holders
<1>2. OnceInv' /\ HeldInv'
  BY DEF RefInv, OnceInv, HeldInv, Unlocked, responseVars
<1>3. AddInv'
  BY <1>1 DEF RefInv, AddInv, Adds, responseVars, threadVars
<1>4. SentInv'
  BY <1>1 DEF RefInv, SentInv, Sent, responseVars
<1> QED
  BY <1>2, <1>3, <1>4 DEF RefInv

\* Steps of a thread that change no queue.
LEMMA ThreadFrame ==
  ASSUME RefInv, UNCHANGED <<queue, beingSent, direction>>
  PROVE  /\ OnceInv'
         /\ \A r : Holders(r)' = Holders(r)
         /\ UNCHANGED <<state, sentCount, refs>> => HeldInv' /\ SentInv'
<1>1. \A r : Holders(r)' = Holders(r)
  BY DEF Holders
<1>2. OnceInv'
  BY DEF RefInv, OnceInv
<1>3. ASSUME UNCHANGED <<state, sentCount, refs>> PROVE HeldInv' /\ SentInv'
  BY <1>1, <1>3 DEF RefInv, HeldInv, SentInv, Sent, Unlocked
<1> QED
  BY <1>1, <1>2, <1>3

LEMMA CreateRefs ==
  ASSUME TypeInv, RefInv, NEW t \in Threads, NEW r \in Responses,
         NEW targets \in SUBSET Clients \ {{}}, CreateResponse(t, r, targets)
  PROVE  RefInv'
<1>0. ClientTypeOK /\ ResponseTypeOK /\ ThreadTypeOK /\ LoopTypeOK /\ ThreadInv
  BY DEF TypeInv, TypeOK
<1>1. /\ pc[t] = "idle" /\ state[r] = "unborn" /\ state' = [state EXCEPT ![r] = "adding"]
      /\ pc' = [pc EXCEPT ![t] = "next"] /\ adding' = [adding EXCEPT ![t] = r]
      /\ todo' = [todo EXCEPT ![t] = targets] /\ added' = [added EXCEPT ![t] = 0]
      /\ UNCHANGED <<queue, beingSent, direction, sentCount, refs, current>>
  BY DEF CreateResponse, clientVars, loopVars
<1>2. OnceInv' /\ \A x : Holders(x)' = Holders(x)
  BY <1>1, ThreadFrame
<1>3. \A c \in Clients : r \notin Range(beingSent[c]) /\ \A d \in Directions : r \notin Range(queue[c][d])
  <2>1. \A d \in Directions : d = direction \/ d = Unlocked
    BY <1>0 DEF LoopTypeOK, Directions, Unlocked, Other
  <2> QED
    BY <1>1, <2>1 DEF RefInv, HeldInv
<1>4. Holders(r) = {}
  BY <1>3 DEF Holders
<1>5. \A x \in Responses : state'[x] = IF x = r THEN "adding" ELSE state[x]
  BY <1>0, <1>1 DEF ResponseTypeOK
<1>6. HeldInv'
  <2>1. \A c \in Clients : /\ Range(beingSent[c]) \subseteq Responses
                           /\ \A d \in Directions : Range(queue[c][d]) \subseteq Responses
    BY <1>0, BatchFinite DEF ClientTypeOK
  <2>2. Unlocked' = Unlocked /\ Unlocked \in Directions /\ direction \in Directions
    BY <1>0, <1>1, UnlockedType DEF Unlocked, LoopTypeOK
  <2> QED
    BY <1>1, <1>3, <1>5, <2>1, <2>2 DEF RefInv, HeldInv
<1>7. SentInv'
  BY <1>1, <1>2, <1>5 DEF RefInv, SentInv, Sent
<1>8. /\ \A u \in Threads : u # t => /\ pc'[u] = pc[u] /\ adding'[u] = adding[u]
                                     /\ todo'[u] = todo[u] /\ added'[u] = added[u]
      /\ pc'[t] = "next" /\ adding'[t] = r /\ todo'[t] = targets /\ added'[t] = 0
  BY <1>0, <1>1 DEF ThreadTypeOK
<1>9. current[t] \notin Clients
  BY <1>0, <1>1 DEF ThreadInv, HoldsWaitLock
<1>10. AddInv'
  <2>1. Adds(t)'
    <3>1. Cardinality(Holders(adding[t])') = 0
      BY <1>2, <1>4, <1>8, FS_EmptySet
    <3> QED
      BY <1>1, <1>2, <1>4, <1>5, <1>8, <1>9, <3>1 DEF Adds
  <2>2. \A u \in Threads : u # t /\ pc[u] # "idle" => Adds(u)' /\ adding[u] # r
    BY <1>0, <1>1, <1>2, <1>5, <1>8 DEF RefInv, AddInv, Adds, ThreadInv
  <2>3. \A u \in Threads : pc'[u] # "idle" => Adds(u)'
    BY <1>8, <2>1, <2>2
  <2>4. \A u, v \in Threads : pc'[u] # "idle" /\ pc'[v] # "idle" /\ adding'[u] = adding'[v] => u = v
    BY <1>8, <2>2 DEF RefInv, AddInv
  <2>5. \A x \in Responses : state'[x] = "adding" => \E u \in Threads : pc'[u] # "idle" /\ adding'[u] = x
    <3> SUFFICES ASSUME NEW x \in Responses, state'[x] = "adding"
                 PROVE  \E u \in Threads : pc'[u] # "idle" /\ adding'[u] = x
      OBVIOUS
    <3>1. CASE x = r
      BY <1>8, <3>1
    <3>2. CASE x # r
      <4>1. PICK u \in Threads : pc[u] # "idle" /\ adding[u] = x
        BY <1>5, <3>2 DEF RefInv, AddInv
      <4> QED
        BY <1>1, <1>8, <4>1
    <3> QED
      BY <3>1, <3>2
  <2> QED
    BY <2>3, <2>4, <2>5 DEF AddInv
<1> QED
  BY <1>2, <1>6, <1>7, <1>10 DEF RefInv
\* A thread goes on without changing queues or responses.
LEMMA AdvanceRefs ==
  ASSUME TypeInv, RefInv, NEW t \in Threads, pc[t] # "idle",
         UNCHANGED <<queue, beingSent, direction, state, sentCount, refs, adding, added>>,
         pc'[t] # "idle", todo'[t] \subseteq todo[t],
         current'[t] \notin Clients \/ current'[t] \in (todo[t] \cup {current[t]}) \ todo'[t],
         \A u \in Threads : u # t =>
            pc'[u] = pc[u] /\ todo'[u] = todo[u] /\ current'[u] = current[u]
  PROVE  RefInv'
<1>0. ThreadTypeOK
  BY DEF TypeInv, TypeOK
<1>1. OnceInv' /\ HeldInv' /\ SentInv' /\ \A r : Holders(r)' = Holders(r)
  BY ThreadFrame
<1>2. \A u \in Threads : pc'[u] # "idle" <=> pc[u] # "idle"
  OBVIOUS
<1>3. Adds(t)'
  <2>1. Adds(t) /\ todo[t] \subseteq Clients /\ Holders(adding[t]) \subseteq Clients
    BY <1>0, HoldersType DEF RefInv, AddInv, ThreadTypeOK
  <2>2. Holders(adding[t])' = Holders(adding[t])
    BY <1>1
  <2> QED
    BY <2>1, <2>2 DEF Adds
<1>4. \A u \in Threads : u # t /\ pc[u] # "idle" => Adds(u)'
  BY <1>1 DEF RefInv, AddInv, Adds
<1>5. AddInv'
  BY <1>2, <1>3, <1>4 DEF RefInv, AddInv
<1> QED
  BY <1>1, <1>5 DEF RefInv

LEMMA IncreaseRefs ==
  ASSUME TypeInv, RefInv, NEW t \in Threads, NEW c \in Clients, IncreaseCountForClient(t, c)
  PROVE  RefInv'
<1>0. ThreadTypeOK /\ ThreadInv
  BY DEF TypeInv, TypeOK
<1>1. /\ pc[t] = "next" /\ c \in todo[t] /\ todo' = [todo EXCEPT ![t] = @ \ {c}]
      /\ \/ pc' = [pc EXCEPT ![t] = "queueing"] /\ current' = [current EXCEPT ![t] = c]
         \/ UNCHANGED <<pc, current>>
      /\ UNCHANGED <<queue, beingSent, direction, state, sentCount, refs, adding, added>>
  BY DEF IncreaseCountForClient, responseVars, loopVars
<1>2. current[t] \notin Clients
  BY <1>0, <1>1 DEF ThreadInv, HoldsWaitLock
<1>3. /\ todo'[t] = todo[t] \ {c} /\ pc'[t] # "idle" /\ (current'[t] = c \/ current'[t] = current[t])
      /\ \A u \in Threads : u # t => pc'[u] = pc[u] /\ todo'[u] = todo[u] /\ current'[u] = current[u]
  BY <1>0, <1>1 DEF ThreadTypeOK
<1> QED
  BY <1>1, <1>2, <1>3, AdvanceRefs

LEMMA UndoRefs ==
  ASSUME TypeInv, RefInv, NEW t \in Threads, DecreaseCountForClient(t)
  PROVE  RefInv'
<1>0. ThreadTypeOK
  BY DEF TypeInv, TypeOK
<1>1. /\ pc[t] = "undoing" /\ pc' = [pc EXCEPT ![t] = "next"] /\ current' = [current EXCEPT ![t] = None]
      /\ UNCHANGED <<queue, beingSent, direction, state, sentCount, refs, adding, todo, added>>
  BY DEF DecreaseCountForClient, responseVars, loopVars
<1>2. /\ pc'[t] # "idle" /\ current'[t] \notin Clients
      /\ \A u \in Threads : u # t => pc'[u] = pc[u] /\ current'[u] = current[u]
  BY <1>0, <1>1, ResponseQueuesAssumption DEF ThreadTypeOK
<1> QED
  BY <1>1, <1>2, AdvanceRefs

LEMMA AddRefs ==
  ASSUME TypeInv, RefInv, NEW t \in Threads, AddResponseToQueue(t)
  PROVE  RefInv'
<1>0. ClientTypeOK /\ ThreadTypeOK /\ LoopTypeOK /\ ThreadInv
  BY DEF TypeInv, TypeOK
<1>1. PICK c \in Clients, r \in Responses :
         /\ c = current[t] /\ r = adding[t] /\ pc[t] = "queueing"
  BY <1>0 DEF AddResponseToQueue, ThreadInv, HoldsWaitLock
<1>2. ASSUME pc' = [pc EXCEPT ![t] = "undoing"], UNCHANGED <<queue, receiving, added, current>>
      PROVE  RefInv'
  <2>1. UNCHANGED <<beingSent, direction, state, sentCount, refs, adding, todo>>
    BY DEF AddResponseToQueue, responseVars, loopVars
  <2>2. /\ pc'[t] # "idle" /\ pc[t] # "idle" /\ current[t] \notin todo[t]
        /\ \A u \in Threads : u # t => pc'[u] = pc[u]
    BY <1>0, <1>1, <1>2 DEF ThreadTypeOK, RefInv, AddInv, Adds
  <2> QED
    BY <1>2, <2>1, <2>2, AdvanceRefs
<1>3. ASSUME queue' = [queue EXCEPT ![c][direction] = Append(@, r)], added' = [added EXCEPT ![t] = @ + 1],
             pc' = [pc EXCEPT ![t] = "next"], current' = [current EXCEPT ![t] = None]
      PROVE  RefInv'
  <2>1. UNCHANGED <<beingSent, direction, state, sentCount, refs, adding, todo>>
    BY DEF AddResponseToQueue, responseVars, loopVars
  <2>2. Adds(t) /\ direction \in Directions /\ Unlocked \in Directions /\ Unlocked # direction
    BY <1>0, <1>1, UnlockedType DEF RefInv, AddInv, LoopTypeOK
  <2>3. c \notin Holders(r) /\ state[r] = "adding"
    BY <1>1, <2>2 DEF Adds
  <2>4. r \notin Range(beingSent[c]) /\ \A d \in Directions : r \notin Range(queue[c][d])
    BY <2>3 DEF Holders
  <2> DEFINE q == queue[c][direction]
  <2>5. q \in Seq(Responses) /\ Append(q, r) \in Seq(Responses)
    BY <1>0, <2>2 DEF ClientTypeOK
  <2>6. \A k \in Clients : \A e \in Directions :
           queue'[k][e] = IF k = c /\ e = direction THEN Append(q, r) ELSE queue[k][e]
    <3>1. queue' = [queue EXCEPT ![c][direction] = Append(q, r)]
      BY <1>3
    <3> QED
      BY <1>0, <2>2, <2>5, <3>1, QueueRanges, ZenonT(40)
  <2>7. Range(Append(q, r)) = Range(q) \cup {r} /\ IsInjective(Append(q, r))
    BY <2>2, <2>4, <2>5, RangeAppend DEF RefInv, OnceInv
  <2>8. \A k \in Clients : \A e \in Directions : \A x :
           x \in Range(queue'[k][e]) <=> x \in Range(queue[k][e]) \/ (k = c /\ e = direction /\ x = r)
    BY <2>6, <2>7
  <2> HIDE DEF q
  <2>9. OnceInv'
    <3>1. \A k \in Clients : \A e \in Directions : IsInjective(queue'[k][e])
      BY <2>6, <2>7 DEF RefInv, OnceInv
    <3>2. \A k \in Clients : \A d, e \in Directions :
             Range(queue'[k][d]) \cap Range(queue'[k][e]) # {} => d = e
      <4> SUFFICES ASSUME NEW k \in Clients, NEW d \in Directions, NEW e \in Directions, NEW x,
                          x \in Range(queue'[k][d]), x \in Range(queue'[k][e])
                   PROVE  d = e
        OBVIOUS
      <4>1. /\ x \in Range(queue[k][d]) \/ (k = c /\ d = direction /\ x = r)
            /\ x \in Range(queue[k][e]) \/ (k = c /\ e = direction /\ x = r)
        BY <2>8
      <4>2. x \in Range(queue[k][d]) /\ x \in Range(queue[k][e]) => d = e
        BY DEF RefInv, OnceInv
      <4> QED
        BY <2>4, <4>1, <4>2
    <3>3. \A k \in Clients : \A d \in Directions : Range(queue'[k][d]) \cap Range(beingSent[k]) = {}
      <4> SUFFICES ASSUME NEW k \in Clients, NEW d \in Directions, NEW x,
                          x \in Range(queue'[k][d]), x \in Range(beingSent[k])
                   PROVE  FALSE
        OBVIOUS
      <4>1. x \in Range(queue[k][d]) \/ (k = c /\ x = r)
        BY <2>8
      <4>2. x \notin Range(queue[k][d])
        BY DEF RefInv, OnceInv
      <4> QED
        BY <2>4, <4>1, <4>2
    <3> QED
      BY <2>1, <3>1, <3>2, <3>3 DEF OnceInv
  <2>10. HeldInv'
    <3>1. Unlocked' = Unlocked
      BY <2>1 DEF Unlocked
    <3>2. \A k \in Clients : Range(queue'[k][Unlocked]) = Range(queue[k][Unlocked])
      BY <2>2, <2>8
    <3>3. \A k \in Clients : Range(queue'[k][direction]) \subseteq Range(queue[k][direction]) \cup {r}
      BY <2>2, <2>8
    <3> QED
      BY <2>1, <2>3, <3>1, <3>2, <3>3 DEF RefInv, HeldInv
  <2>11. /\ Holders(r)' = Holders(r) \cup {c}
         /\ \A x : x # r => Holders(x)' = Holders(x)
    <3>1. \A x : Holders(x)' = {k \in Clients : \/ \E d \in Directions : x \in Range(queue'[k][d])
                                             \/ x \in Range(beingSent[k])}
      BY <2>1 DEF Holders
    <3>2. \A k \in Clients : (\E d \in Directions : r \in Range(queue'[k][d]))
                               <=> k = c \/ \E d \in Directions : r \in Range(queue[k][d])
      BY <2>2, <2>8
    <3>3. \A x : x # r => \A k \in Clients : (\E d \in Directions : x \in Range(queue'[k][d]))
                               <=> \E d \in Directions : x \in Range(queue[k][d])
      BY <2>8
    <3>4. \A k : k \in Holders(r)' <=> k \in Holders(r) \cup {c}
      BY <3>1, <3>2 DEF Holders
    <3>5. ASSUME NEW x, x # r PROVE Holders(x)' = Holders(x)
      <4>1. \A k : k \in Holders(x)' <=> k \in Holders(x)
        BY <3>1, <3>3, <3>5 DEF Holders
      <4> QED
        BY <4>1
    <3>6. Holders(r)' = Holders(r) \cup {c}
      BY <3>4
    <3> QED
      BY <3>5, <3>6
  <2>12. SentInv'
    <3>1. \A x \in Responses : x # r => Sent(x)'
      BY <2>1, <2>11 DEF RefInv, SentInv, Sent
    <3>2. Sent(r)'
      BY <2>1, <2>3 DEF RefInv, SentInv, Sent
    <3> QED
      BY <3>1, <3>2 DEF SentInv
  <2>13. /\ pc'[t] = "next" /\ current'[t] = None /\ added'[t] = added[t] + 1
         /\ \A u \in Threads : u # t => pc'[u] = pc[u] /\ current'[u] = current[u] /\ added'[u] = added[u]
    BY <1>0, <1>3 DEF ThreadTypeOK
  <2>14. Adds(t)'
    <3>1. Cardinality(Holders(r) \cup {c}) = Cardinality(Holders(r)) + 1
      BY <2>3, HoldersType, HolderSets
    <3>2. adding'[t] = r /\ todo'[t] = todo[t] /\ state'[r] = state[r]
      BY <1>1, <2>1
    <3>3. Holders(adding[t])' = Holders(r) \cup {c}
      BY <2>11, <3>2 DEF Holders
    <3>4. added'[t] = Cardinality(Holders(r) \cup {c})
      BY <1>1, <2>2, <2>13, <3>1 DEF Adds
    <3>5. None \notin todo[t] /\ None \notin Holders(r) \cup {c}
      BY <1>0, HoldersType, ResponseQueuesAssumption DEF ThreadTypeOK
    <3>6. (Holders(r) \cup {c}) \cap (todo[t] \cup {None}) = {}
      BY <1>1, <2>2, <3>5 DEF Adds
    <3> QED
      BY <2>3, <2>13, <3>2, <3>3, <3>4, <3>5, <3>6 DEF Adds
  <2>15. \A u \in Threads : u # t /\ pc[u] # "idle" => Adds(u)'
    <3> SUFFICES ASSUME NEW u \in Threads, u # t, pc[u] # "idle" PROVE Adds(u)'
      OBVIOUS
    <3>1. adding[u] # r /\ Adds(u) /\ adding' = adding
      BY <1>1, <2>1 DEF RefInv, AddInv
    <3>0. PICK x : x = adding[u] /\ x # r
      BY <3>1
    <3>2. Holders(adding[u])' = Holders(adding[u])
      <4>1. Holders(x)' = Holders(x)
        BY <2>11, <3>0
      <4>2. Holders(adding[u])' = Holders(x)'
        BY <3>0, <3>1 DEF Holders
      <4> QED
        BY <3>0, <4>1, <4>2
    <3> QED
      BY <2>1, <2>13, <3>1, <3>2 DEF Adds
  <2>16. AddInv'
    BY <1>1, <2>1, <2>13, <2>14, <2>15 DEF RefInv, AddInv
  <2> QED
    BY <2>9, <2>10, <2>12, <2>16 DEF RefInv
<1> QED
  BY <1>1, <1>2, <1>3 DEF AddResponseToQueue

LEMMA SetRefs ==
  ASSUME TypeInv, RefInv, NEW t \in Threads, SetReferenceCount(t)
  PROVE  RefInv'
<1>0. ClientTypeOK /\ ResponseTypeOK /\ ThreadTypeOK /\ LoopTypeOK /\ ThreadInv
  BY DEF TypeInv, TypeOK
<1>1. PICK r \in Responses, a \in Nat : r = adding[t] /\ a = added[t] /\ pc[t] = "next"
  BY <1>0 DEF SetReferenceCount, ThreadInv, ThreadTypeOK
<1>2. /\ refs' = [refs EXCEPT ![r] = a]
      /\ state' = [state EXCEPT ![r] = IF a = 0 THEN "deleted" ELSE "queued"]
      /\ pc' = [pc EXCEPT ![t] = "idle"] /\ adding' = [adding EXCEPT ![t] = None]
      /\ added' = [added EXCEPT ![t] = 0]
      /\ UNCHANGED <<queue, beingSent, direction, sentCount, todo, current>>
  BY <1>1 DEF SetReferenceCount, clientVars, loopVars
<1>3. Adds(t) /\ state[r] = "adding" /\ a = Cardinality(Holders(r))
  BY <1>1 DEF RefInv, AddInv, Adds
<1>4. OnceInv' /\ \A x : Holders(x)' = Holders(x)
  BY <1>2, ThreadFrame
<1>5. /\ refs'[r] = a /\ (a = 0 => state'[r] = "deleted") /\ (a # 0 => state'[r] = "queued")
      /\ \A x \in Responses : x # r => state'[x] = state[x] /\ refs'[x] = refs[x]
  BY <1>0, <1>2 DEF ResponseTypeOK
<1>6. a = 0 <=> Holders(r) = {}
  BY <1>3, HoldersType, HolderSets
<1>7. SentInv'
  <2>1. \A x \in Responses : x # r => Sent(x)'
    BY <1>2, <1>4, <1>5 DEF RefInv, SentInv, Sent
  <2>2. sentCount'[r] = 0
    BY <1>2, <1>3 DEF RefInv, SentInv, Sent
  <2>3. sentCount'[r] + Cardinality(Holders(r)') = refs'[r]
    BY <1>3, <1>4, <1>5, <2>2
  <2>4. Sent(r)'
    BY <1>4, <1>5, <1>6, <2>2, <2>3 DEF Sent
  <2> QED
    BY <2>1, <2>4 DEF SentInv
<1>8. HeldInv'
  <2>1. Unlocked' = Unlocked /\ Unlocked \in Directions /\ direction \in Directions
    BY <1>0, <1>2, UnlockedType DEF Unlocked, LoopTypeOK
  <2>2. \A c \in Clients : /\ Range(beingSent[c]) \subseteq Responses
                           /\ \A d \in Directions : Range(queue[c][d]) \subseteq Responses
    BY <1>0, BatchFinite DEF ClientTypeOK
  <2>3. \A c \in Clients : \A d \in Directions : r \in Range(queue[c][d]) => state'[r] = "queued"
    BY <1>5, <1>6 DEF Holders
  <2>4. \A c \in Clients : r \notin Range(queue[c][Unlocked]) /\ r \notin Range(beingSent[c])
    BY <1>3 DEF RefInv, HeldInv
  <2>5. \A c \in Clients : \A x \in Range(queue[c][Unlocked]) \cup Range(beingSent[c]) : state'[x] = "queued"
    <3> SUFFICES ASSUME NEW c \in Clients, NEW x \in Range(queue[c][Unlocked]) \cup Range(beingSent[c])
                 PROVE  state'[x] = "queued"
      OBVIOUS
    <3>1. x # r /\ x \in Responses /\ state[x] = "queued"
      BY <2>1, <2>2, <2>4 DEF RefInv, HeldInv
    <3> QED
      BY <1>5, <3>1
  <2>6. \A c \in Clients : \A x \in Range(queue[c][direction]) : state'[x] \in {"adding", "queued"}
    <3> SUFFICES ASSUME NEW c \in Clients, NEW x \in Range(queue[c][direction])
                 PROVE  state'[x] \in {"adding", "queued"}
      OBVIOUS
    <3>1. x \in Responses /\ state[x] \in {"adding", "queued"}
      BY <2>1, <2>2 DEF RefInv, HeldInv
    <3> QED
      BY <1>5, <2>1, <2>3, <3>1
  <2> QED
    BY <1>2, <2>1, <2>5, <2>6 DEF HeldInv
<1>9. /\ pc'[t] = "idle"
      /\ \A u \in Threads : u # t => pc'[u] = pc[u] /\ adding'[u] = adding[u] /\ added'[u] = added[u]
  BY <1>0, <1>2 DEF ThreadTypeOK
<1>10. AddInv'
  <2>1. \A u \in Threads : u # t /\ pc[u] # "idle" => Adds(u)'
    <3> SUFFICES ASSUME NEW u \in Threads, u # t, pc[u] # "idle" PROVE Adds(u)'
      OBVIOUS
    <3>1. adding[u] # r /\ adding[u] \in Responses /\ Adds(u) /\ adding'[u] = adding[u]
      BY <1>0, <1>1, <1>9 DEF RefInv, AddInv, ThreadInv
    <3>2. Holders(adding[u])' = Holders(adding[u])
      BY <1>2, <3>1 DEF Holders
    <3> QED
      BY <1>2, <1>5, <1>9, <3>1, <3>2 DEF Adds
  <2>2. \A u, v \in Threads : pc'[u] # "idle" /\ pc'[v] # "idle" /\ adding'[u] = adding'[v] => u = v
    BY <1>9 DEF RefInv, AddInv
  <2>3. \A x \in Responses : state'[x] = "adding" => \E u \in Threads : pc'[u] # "idle" /\ adding'[u] = x
    <3> SUFFICES ASSUME NEW x \in Responses, state'[x] = "adding"
                 PROVE  \E u \in Threads : pc'[u] # "idle" /\ adding'[u] = x
      OBVIOUS
    <3>1. x # r /\ state[x] = "adding"
      BY <1>5
    <3>2. PICK u \in Threads : pc[u] # "idle" /\ adding[u] = x
      BY <3>1 DEF RefInv, AddInv
    <3> QED
      BY <1>1, <1>9, <3>1, <3>2
  <2> QED
    BY <1>9, <2>1, <2>2, <2>3 DEF AddInv
<1> QED
  BY <1>4, <1>7, <1>8, <1>10 DEF RefInv
-------------------------------------------------------------------------------
(* The event loop                                                            *)

\* The direction flag is toggled when no thread is adding a response.
LEMMA ToggleRefs ==
  ASSUME TypeInv, RefInv, ToggleDirection
  PROVE  RefInv'
<1>0. ClientTypeOK /\ LoopTypeOK
  BY DEF TypeInv, TypeOK
<1>1. /\ \A t \in Threads : pc[t] = "idle"
      /\ direction' = Other(direction) /\ UNCHANGED <<queue, beingSent, responseVars, threadVars>>
  BY DEF ToggleDirection, HoldsDirectionLock, clientVars
<1>2. direction' = Unlocked /\ Unlocked' = direction
  BY <1>0, <1>1 DEF Unlocked, Other, LoopTypeOK, Directions
<1>3. \A r \in Responses : state[r] # "adding"
  BY <1>1 DEF RefInv, AddInv
<1>4. \A r : Holders(r)' = Holders(r)
  BY <1>1 DEF Holders
<1>5. OnceInv' /\ SentInv'
  BY <1>1, <1>4 DEF RefInv, OnceInv, SentInv, Sent, responseVars
<1>6. AddInv'
  BY <1>1, <1>3 DEF AddInv, responseVars, threadVars
<1>7. HeldInv'
  <2>1. direction \in Directions /\ Unlocked \in Directions
    BY <1>0, UnlockedType DEF LoopTypeOK
  <2>2. \A c \in Clients : Range(queue[c][direction]) \subseteq Responses
    BY <1>0, <2>1, BatchFinite DEF ClientTypeOK
  <2>3. state' = state /\ queue' = queue /\ beingSent' = beingSent
    BY <1>1 DEF responseVars
  <2>4. \A c \in Clients : \A r \in Range(queue[c][direction]) : state[r] = "queued"
    BY <1>3, <2>2 DEF RefInv, HeldInv
  <2> QED
    BY <1>2, <2>3, <2>4 DEF RefInv, HeldInv
<1> QED
  BY <1>5, <1>6, <1>7 DEF RefInv

\* The responses a client takes off its unlocked queue.
LEMMA TakeSets ==
  ASSUME TypeInv, RefInv, NEW c \in Clients, NEW n \in 1..Len(queue[c][Unlocked]),
         queue' = [queue EXCEPT ![c][Unlocked] = SubSeq(@, n + 1, Len(@))]
  PROVE  LET f == SubSeq(queue[c][Unlocked], 1, n) IN
         /\ f \in Seq(Responses) /\ Range(f) \subseteq Range(queue[c][Unlocked])
         /\ Unlocked \in Directions
         /\ \A k \in Clients : \A e \in Directions : IsInjective(queue'[k][e])
         /\ \A k \in Clients : \A e \in Directions : \A x :
               x \in Range(queue'[k][e])
                 <=> x \in Range(queue[k][e]) /\ ~(k = c /\ e = Unlocked /\ x \in Range(f))
<1> DEFINE q == queue[c][Unlocked]
           f == SubSeq(q, 1, n)
           g == SubSeq(q, n + 1, Len(q))
<1>0. ClientTypeOK /\ LoopTypeOK
  BY DEF TypeInv, TypeOK
<1>1. Unlocked \in Directions /\ q \in Seq(Responses)
  BY <1>0, UnlockedType DEF ClientTypeOK
<1>2. f \in Seq(Responses) /\ g \in Seq(Responses)
  BY <1>1, Split
<1>3. IsInjective(q)
  BY <1>1 DEF RefInv, OnceInv
<1>4. Range(q) = Range(f) \cup Range(g) /\ Range(f) \cap Range(g) = {} /\ IsInjective(g)
  BY <1>1, <1>3, RangeSplit
<1>5. \A k \in Clients : \A e \in Directions :
         queue'[k][e] = IF k = c /\ e = Unlocked THEN g ELSE queue[k][e]
  <2>1. \A k \in Clients, e \in Directions : (k # c \/ e # Unlocked) => queue'[k][e] = queue[k][e]
    BY <1>0, TakePending
  <2>2. queue'[c][Unlocked] = g
    BY <1>0, <1>1 DEF ClientTypeOK
  <2> QED
    BY <2>1, <2>2
<1> HIDE DEF f, g
<1>6. \A k \in Clients : \A e \in Directions : IsInjective(queue'[k][e])
  BY <1>4, <1>5 DEF RefInv, OnceInv
<1>7. \A k \in Clients : \A e \in Directions : \A x :
         x \in Range(queue'[k][e])
           <=> x \in Range(queue[k][e]) /\ ~(k = c /\ e = Unlocked /\ x \in Range(f))
  <2> SUFFICES ASSUME NEW k \in Clients, NEW e \in Directions
               PROVE  \A x : x \in Range(queue'[k][e])
                        <=> x \in Range(queue[k][e]) /\ ~(k = c /\ e = Unlocked /\ x \in Range(f))
    OBVIOUS
  <2>1. CASE k = c /\ e = Unlocked
    <3>1. queue'[k][e] = g /\ queue[k][e] = q
      BY <1>5, <2>1
    <3> HIDE DEF q
    <3> QED
      BY <1>4, <2>1, <3>1
  <2>2. CASE ~(k = c /\ e = Unlocked)
    BY <1>5, <2>2
  <2> QED
    BY <2>1, <2>2
<1> QED
  BY <1>1, <1>2, <1>4, <1>6, <1>7 DEF f

\* A client holds no response twice after some have gone from its queues.
LEMMA FewerOnce ==
  ASSUME RefInv,
         \A k \in Clients : \A e \in Directions :
            IsInjective(queue'[k][e]) /\ Range(queue'[k][e]) \subseteq Range(queue[k][e]),
         \A k \in Clients : \A e \in Directions : Range(queue'[k][e]) \cap Range(beingSent'[k]) = {}
  PROVE  OnceInv'
<1>1. \A k \in Clients : \A d, e \in Directions :
         Range(queue'[k][d]) \cap Range(queue'[k][e]) # {} => d = e
  <2> SUFFICES ASSUME NEW k \in Clients, NEW d \in Directions, NEW e \in Directions, NEW x,
                      x \in Range(queue'[k][d]), x \in Range(queue'[k][e])
               PROVE  d = e
    OBVIOUS
  <2>1. x \in Range(queue[k][d]) /\ x \in Range(queue[k][e])
    OBVIOUS
  <2> QED
    BY <2>1 DEF RefInv, OnceInv
<1> QED
  BY <1>1 DEF OnceInv

\* uv_write accepts a batch: the client holds the same responses as before.
LEMMA WriteRefs ==
  ASSUME TypeInv, RefInv, NEW c \in Clients, WriteBatch(c)
  PROVE  RefInv'
<1>0. ClientTypeOK /\ LoopTypeOK
  BY DEF TypeInv, TypeOK
<1>1. PICK n \in 1..Len(queue[c][Unlocked]) :
         /\ beingSent' = [beingSent EXCEPT ![c] = SubSeq(queue[c][Unlocked], 1, n)]
         /\ queue' = [queue EXCEPT ![c][Unlocked] = SubSeq(@, n + 1, Len(@))]
  BY DEF WriteBatch
<1>2. beingSent[c] = <<>> /\ UNCHANGED <<responseVars, threadVars, direction>>
  BY DEF WriteBatch, loopVars
<1> DEFINE f == SubSeq(queue[c][Unlocked], 1, n)
<1>3. /\ f \in Seq(Responses) /\ Range(f) \subseteq Range(queue[c][Unlocked])
      /\ Unlocked \in Directions
      /\ \A k \in Clients : \A e \in Directions : IsInjective(queue'[k][e])
      /\ \A k \in Clients : \A e \in Directions : \A x :
            x \in Range(queue'[k][e])
              <=> x \in Range(queue[k][e]) /\ ~(k = c /\ e = Unlocked /\ x \in Range(f))
  BY <1>1, TakeSets
<1>4. beingSent' = [beingSent EXCEPT ![c] = f]
  BY <1>1
<1> HIDE DEF f
<1>5. \A k \in Clients : beingSent'[k] = IF k = c THEN f ELSE beingSent[k]
  BY <1>0, <1>4 DEF ClientTypeOK
<1>6. Range(beingSent[c]) = {}
  BY <1>2 DEF Range
<1>7. OnceInv'
  <2>1. \A k \in Clients : \A e \in Directions : Range(queue'[k][e]) \subseteq Range(queue[k][e])
    BY <1>3
  <2>2. \A k \in Clients : \A e \in Directions : Range(queue'[k][e]) \cap Range(beingSent'[k]) = {}
    <3> SUFFICES ASSUME NEW k \in Clients, NEW e \in Directions, NEW x,
                        x \in Range(queue'[k][e]), x \in Range(beingSent'[k])
                 PROVE  FALSE
      OBVIOUS
    <3>1. x \in Range(queue[k][e]) /\ ~(k = c /\ e = Unlocked /\ x \in Range(f))
      BY <1>3
    <3>2. CASE k # c
      BY <1>5, <3>1, <3>2 DEF RefInv, OnceInv
    <3>3. CASE k = c
      <4>1. x \in Range(f) /\ x \in Range(queue[c][Unlocked]) /\ e # Unlocked
        BY <1>3, <1>5, <3>1, <3>3
      <4> QED
        BY <1>3, <3>1, <3>3, <4>1 DEF RefInv, OnceInv
    <3> QED
      BY <3>2, <3>3
  <2> QED
    BY <1>3, <2>1, <2>2, FewerOnce
<1>8. ASSUME NEW r PROVE Holders(r)' = Holders(r)
  <2>1. \A k \in Clients :
          ((\E d \in Directions : r \in Range(queue'[k][d])) \/ r \in Range(beingSent'[k]))
          <=> ((\E d \in Directions : r \in Range(queue[k][d])) \/ r \in Range(beingSent[k]))
    <3> SUFFICES ASSUME NEW k \in Clients
                 PROVE  ((\E d \in Directions : r \in Range(queue'[k][d])) \/ r \in Range(beingSent'[k]))
                        <=> ((\E d \in Directions : r \in Range(queue[k][d])) \/ r \in Range(beingSent[k]))
      OBVIOUS
    <3>1. CASE k # c
      BY <1>3, <1>5, <3>1
    <3>2. CASE k = c
      BY <1>3, <1>5, <1>6, <3>2
    <3> QED
      BY <3>1, <3>2
  <2>2. \A k : k \in Holders(r)' <=> k \in Holders(r)
    BY <2>1 DEF Holders
  <2> QED
    BY <2>2
<1>9. AddInv' /\ SentInv'
  <2>1. SentInv'
    BY <1>2, <1>8 DEF RefInv, SentInv, Sent, responseVars
  <2>2. ASSUME NEW t \in Threads, pc[t] # "idle" PROVE Adds(t)'
    <3>1. PICK x : x = adding[t]
      OBVIOUS
    <3>2. Holders(adding[t])' = Holders(adding[t])
      <4>1. Holders(adding[t])' = Holders(x)'
        BY <1>2, <3>1 DEF Holders, threadVars
      <4> QED
        BY <1>8, <3>1, <4>1
    <3> QED
      BY <1>2, <2>2, <3>2 DEF RefInv, AddInv, Adds, responseVars, threadVars
  <2> QED
    BY <1>2, <2>1, <2>2 DEF RefInv, AddInv, responseVars, threadVars
<1>10. HeldInv'
  <2>1. Unlocked' = Unlocked /\ direction' = direction /\ state' = state /\ direction \in Directions
    BY <1>0, <1>2 DEF Unlocked, responseVars, LoopTypeOK
  <2>2. \A k \in Clients : /\ Range(queue'[k][Unlocked]) \subseteq Range(queue[k][Unlocked])
                           /\ Range(queue'[k][direction]) \subseteq Range(queue[k][direction])
    BY <1>3, <2>1
  <2>3. \A k \in Clients : Range(beingSent'[k]) \subseteq Range(beingSent[k]) \cup Range(queue[k][Unlocked])
    BY <1>3, <1>5
  <2>4. \A k \in Clients : \A r \in Range(queue'[k][Unlocked]) \cup Range(beingSent'[k]) : state[r] = "queued"
    BY <2>2, <2>3 DEF RefInv, HeldInv
  <2>5. \A k \in Clients : \A r \in Range(queue'[k][direction]) : state[r] \in {"adding", "queued"}
    BY <2>2 DEF RefInv, HeldInv
  <2> QED
    BY <2>1, <2>4, <2>5 DEF HeldInv
<1> QED
  BY <1>7, <1>9, <1>10 DEF RefInv
\* CountAsSent for responses that the client c does not hold any longer.
LEMMA ServedRefs ==
  ASSUME TypeInv, RefInv, NEW c \in Clients, NEW batch \in Seq(Responses), CountAsSent(c, batch),
         UNCHANGED <<refs, threadVars>>,
         \A r \in Range(batch) : state[r] = "queued" /\ c \in Holders(r),
         \A r : Holders(r)' = IF r \in Range(batch) THEN Holders(r) \ {c} ELSE Holders(r)
  PROVE  /\ AddInv' /\ SentInv'
         /\ \A r \in Responses : state'[r] = state[r] \/ (state'[r] = "deleted" /\ Holders(r)' = {})
<1>0. ResponseTypeOK /\ ThreadInv
  BY DEF TypeInv, TypeOK
<1>1. \A r \in Responses :
         /\ sentCount'[r] = IF r \in Range(batch) THEN sentCount[r] + 1 ELSE sentCount[r]
         /\ state'[r] = IF r \in Range(batch) /\ sentCount[r] + 1 = refs[r] THEN "deleted" ELSE state[r]
  BY DEF CountAsSent, Finished
<1>2. ASSUME NEW r \in Responses
      PROVE  Sent(r)' /\ (state'[r] = state[r] \/ (state'[r] = "deleted" /\ Holders(r)' = {}))
  <2>1. CASE r \notin Range(batch)
    <3>1. sentCount'[r] = sentCount[r] /\ state'[r] = state[r] /\ refs'[r] = refs[r] /\ Holders(r)' = Holders(r)
      BY <1>1, <2>1
    <3> QED
      BY <3>1 DEF RefInv, SentInv, Sent
  <2>2. CASE r \in Range(batch)
    <3>1. /\ state[r] = "queued" /\ c \in Holders(r) /\ Holders(r)' = Holders(r) \ {c}
          /\ sentCount'[r] = sentCount[r] + 1 /\ refs'[r] = refs[r]
          /\ state'[r] = IF sentCount[r] + 1 = refs[r] THEN "deleted" ELSE state[r]
      BY <1>1, <2>2
    <3>2. /\ Cardinality(Holders(r)) \in Nat /\ sentCount[r] \in Nat /\ refs[r] \in Nat
          /\ Cardinality(Holders(r) \ {c}) = Cardinality(Holders(r)) - 1
          /\ Holders(r) \ {c} \in SUBSET Clients
      BY <1>0, <3>1, HoldersType, HolderSets DEF ResponseTypeOK
    <3>3. sentCount[r] + Cardinality(Holders(r)) = refs[r]
      BY <3>1 DEF RefInv, SentInv, Sent
    <3>4. Cardinality(Holders(r) \ {c}) = 0 <=> Holders(r) \ {c} = {}
      BY <3>2, HolderSets
    <3>5. sentCount[r] + 1 = refs[r] <=> Holders(r) \ {c} = {}
      BY <3>2, <3>3, <3>4
    <3>6. sentCount'[r] + Cardinality(Holders(r) \ {c}) = refs'[r]
      BY <3>1, <3>2, <3>3
    <3> QED
      BY <3>1, <3>5, <3>6 DEF Sent
  <2> QED
    BY <2>1, <2>2
<1>3. ASSUME NEW t \in Threads, pc[t] # "idle" PROVE Adds(t)'
  <2>1. PICK x \in Responses : x = adding[t]
    BY <1>0, <1>3 DEF ThreadInv
  <2>2. Adds(t) /\ x \notin Range(batch)
    BY <1>3, <2>1 DEF RefInv, AddInv, Adds
  <2>3. Holders(x)' = Holders(x) /\ state'[x] = state[x]
    BY <1>1, <2>2
  <2>4. Holders(adding[t])' = Holders(adding[t])
    <3>1. Holders(adding[t])' = Holders(x)'
      BY <2>1 DEF Holders, threadVars
    <3> QED
      BY <2>1, <2>3, <3>1
  <2> QED
    BY <2>1, <2>2, <2>3, <2>4 DEF Adds, threadVars
<1>4. AddInv'
  <2>1. \A r \in Responses : state'[r] = "adding" => state[r] = "adding"
    BY <1>1
  <2> QED
    BY <1>3, <2>1 DEF RefInv, AddInv, threadVars
<1> QED
  BY <1>2, <1>4 DEF SentInv

\* What is left is held, so it is not deleted.
LEMMA ServedHeld ==
  ASSUME TypeInv, RefInv, UNCHANGED direction, Unlocked \in Directions,
         \A k \in Clients : \A e \in Directions : Range(queue'[k][e]) \subseteq Range(queue[k][e]),
         \A k \in Clients : Range(beingSent'[k]) \subseteq Range(beingSent[k]),
         \A r \in Responses : state'[r] = state[r] \/ (state'[r] = "deleted" /\ Holders(r)' = {})
  PROVE  HeldInv'
<1>0. ClientTypeOK /\ LoopTypeOK
  BY DEF TypeInv, TypeOK
<1>1. \A c \in Clients : /\ Range(beingSent[c]) \subseteq Responses
                         /\ \A d \in Directions : Range(queue[c][d]) \subseteq Responses
  BY <1>0, BatchFinite DEF ClientTypeOK
<1>2. ASSUME NEW k \in Clients, NEW r, r \in Range(beingSent'[k]) \/ \E d \in Directions : r \in Range(queue'[k][d])
      PROVE  state'[r] = state[r]
  <2>1. r \in Responses
    BY <1>1, <1>2
  <2>2. Holders(r)' # {}
    BY <1>2 DEF Holders
  <2> QED
    BY <2>1, <2>2
<1>3. Unlocked' = Unlocked /\ direction \in Directions
  BY <1>0 DEF Unlocked, LoopTypeOK
<1>4. \A k \in Clients : \A r \in Range(queue'[k][Unlocked]) \cup Range(beingSent'[k]) : state'[r] = "queued"
  <2> SUFFICES ASSUME NEW k \in Clients, NEW r \in Range(queue'[k][Unlocked]) \cup Range(beingSent'[k])
               PROVE  state'[r] = "queued"
    OBVIOUS
  <2>1. state'[r] = state[r]
    BY <1>2
  <2>2. r \in Range(queue[k][Unlocked]) \cup Range(beingSent[k])
    OBVIOUS
  <2> QED
    BY <2>1, <2>2 DEF RefInv, HeldInv
<1>5. \A k \in Clients : \A r \in Range(queue'[k][direction]) : state'[r] \in {"adding", "queued"}
  <2> SUFFICES ASSUME NEW k \in Clients, NEW r \in Range(queue'[k][direction])
               PROVE  state'[r] \in {"adding", "queued"}
    OBVIOUS
  <2>1. state'[r] = state[r]
    BY <1>2, <1>3
  <2>2. r \in Range(queue[k][direction])
    BY <1>3
  <2> QED
    BY <2>1, <2>2 DEF RefInv, HeldInv
<1> QED
  BY <1>3, <1>4, <1>5 DEF HeldInv

LEMMA FailRefs ==
  ASSUME TypeInv, RefInv, NEW c \in Clients, WriteBatchFails(c)
  PROVE  RefInv'
<1>0. ClientTypeOK /\ LoopTypeOK
  BY DEF TypeInv, TypeOK
<1>1. PICK n \in 1..Len(queue[c][Unlocked]) :
         /\ CountAsSent(c, SubSeq(queue[c][Unlocked], 1, n))
         /\ queue' = [queue EXCEPT ![c][Unlocked] = SubSeq(@, n + 1, Len(@))]
  BY DEF WriteBatchFails
<1>2. UNCHANGED <<beingSent, refs, threadVars, direction>>
  BY DEF WriteBatchFails
<1> DEFINE s == SubSeq(queue[c][Unlocked], 1, n)
<1>3. /\ s \in Seq(Responses) /\ Range(s) \subseteq Range(queue[c][Unlocked])
      /\ Unlocked \in Directions
      /\ \A k \in Clients : \A e \in Directions : IsInjective(queue'[k][e])
      /\ \A k \in Clients : \A e \in Directions : \A x :
            x \in Range(queue'[k][e])
              <=> x \in Range(queue[k][e]) /\ ~(k = c /\ e = Unlocked /\ x \in Range(s))
  BY <1>1, TakeSets
<1> HIDE DEF s
<1>4. PICK f \in Seq(Responses) : f = s
  BY <1>3
<1>5. CountAsSent(c, f)
  BY <1>1, <1>4 DEF s, CountAsSent, Finished
<1>6. \A r \in Range(f) : state[r] = "queued" /\ c \in Holders(r)
  BY <1>3, <1>4 DEF RefInv, HeldInv, Holders
<1>7. \A k \in Clients : \A e \in Directions : Range(queue'[k][e]) \subseteq Range(queue[k][e])
  BY <1>3
<1>8. \A r : Holders(r)' = IF r \in Range(f) THEN Holders(r) \ {c} ELSE Holders(r)
  <2> SUFFICES ASSUME NEW r PROVE Holders(r)' = IF r \in Range(f) THEN Holders(r) \ {c} ELSE Holders(r)
    OBVIOUS
  <2>1. ASSUME NEW k \in Clients, k # c \/ r \notin Range(f) PROVE k \in Holders(r)' <=> k \in Holders(r)
    BY <1>2, <1>3, <1>4, <2>1 DEF Holders
  <2>2. ASSUME r \in Range(f) PROVE c \notin Holders(r)'
    <3>1. r \in Range(queue[c][Unlocked])
      BY <1>3, <1>4, <2>2
    <3>2. r \notin Range(beingSent[c]) /\ \A d \in Directions : r \in Range(queue[c][d]) => d = Unlocked
      BY <1>3, <3>1 DEF RefInv, OnceInv
    <3>3. \A d \in Directions : r \notin Range(queue'[c][d])
      BY <1>3, <1>4, <2>2, <3>2
    <3> QED
      BY <1>2, <3>2, <3>3 DEF Holders
  <2>3. Holders(r)' \subseteq Clients /\ Holders(r) \subseteq Clients
    BY DEF Holders
  <2> QED
    BY <2>1, <2>2, <2>3
<1>9. /\ AddInv' /\ SentInv'
      /\ \A r \in Responses : state'[r] = state[r] \/ (state'[r] = "deleted" /\ Holders(r)' = {})
  BY <1>2, <1>5, <1>6, <1>8, ServedRefs
<1>10. HeldInv'
  BY <1>2, <1>3, <1>7, <1>9, ServedHeld
<1>11. OnceInv'
  <2>1. \A k \in Clients : \A e \in Directions : Range(queue'[k][e]) \cap Range(beingSent'[k]) = {}
    BY <1>2, <1>7 DEF RefInv, OnceInv
  <2> QED
    BY <1>3, <1>7, <2>1, FewerOnce
<1> QED
  BY <1>9, <1>10, <1>11 DEF RefInv

LEMMA SentRefs ==
  ASSUME TypeInv, RefInv, NEW c \in Clients, NEW ok \in BOOLEAN, AfterSendResponses(c, ok)
  PROVE  RefInv'
<1>0. ClientTypeOK /\ LoopTypeOK
  BY DEF TypeInv, TypeOK
<1>1. PICK f \in Seq(Responses) : f = beingSent[c]
  BY <1>0 DEF ClientTypeOK
<1>2. /\ CountAsSent(c, f) /\ beingSent' = [beingSent EXCEPT ![c] = <<>>]
      /\ UNCHANGED <<queue, refs, threadVars, direction>>
  BY <1>1 DEF AfterSendResponses, CountAsSent, Finished
<1>3. \A k \in Clients : beingSent'[k] = IF k = c THEN <<>> ELSE beingSent[k]
  BY <1>0, <1>2 DEF ClientTypeOK
<1>4. Range(<<>>) = {} /\ Unlocked \in Directions
  BY <1>0, UnlockedType DEF Range
<1>5. \A r \in Range(f) : state[r] = "queued" /\ c \in Holders(r)
  BY <1>1 DEF RefInv, HeldInv, Holders
<1>6. \A k \in Clients : Range(beingSent'[k]) = IF k = c THEN {} ELSE Range(beingSent[k])
  BY <1>3, <1>4
<1>7. \A r : Holders(r)' = IF r \in Range(f) THEN Holders(r) \ {c} ELSE Holders(r)
  <2> SUFFICES ASSUME NEW r PROVE Holders(r)' = IF r \in Range(f) THEN Holders(r) \ {c} ELSE Holders(r)
    OBVIOUS
  <2>1. ASSUME NEW k \in Clients, k # c \/ r \notin Range(f) PROVE k \in Holders(r)' <=> k \in Holders(r)
    BY <1>1, <1>2, <1>6, <2>1 DEF Holders
  <2>2. ASSUME r \in Range(f) PROVE c \notin Holders(r)'
    <3>1. \A d \in Directions : r \notin Range(queue[c][d])
      BY <1>1, <2>2 DEF RefInv, OnceInv
    <3> QED
      BY <1>2, <1>6, <3>1 DEF Holders
  <2>3. Holders(r)' \subseteq Clients /\ Holders(r) \subseteq Clients
    BY DEF Holders
  <2> QED
    BY <2>1, <2>2, <2>3
<1>8. /\ AddInv' /\ SentInv'
      /\ \A r \in Responses : state'[r] = state[r] \/ (state'[r] = "deleted" /\ Holders(r)' = {})
  BY <1>2, <1>5, <1>7, ServedRefs
<1>9. HeldInv'
  <2>1. \A k \in Clients : \A e \in Directions : Range(queue'[k][e]) \subseteq Range(queue[k][e])
    BY <1>2
  <2>2. \A k \in Clients : Range(beingSent'[k]) \subseteq Range(beingSent[k])
    BY <1>6
  <2> QED
    BY <1>2, <1>4, <1>8, <2>1, <2>2, ServedHeld
<1>10. OnceInv'
  <2>1. \A k \in Clients : \A e \in Directions :
           IsInjective(queue'[k][e]) /\ Range(queue'[k][e]) \subseteq Range(queue[k][e])
    BY <1>2 DEF RefInv, OnceInv
  <2>2. \A k \in Clients : \A e \in Directions : Range(queue'[k][e]) \cap Range(beingSent'[k]) = {}
    BY <1>2, <1>6 DEF RefInv, OnceInv
  <2> QED
    BY <2>1, <2>2, FewerOnce
<1> QED
  BY <1>8, <1>9, <1>10 DEF RefInv

LEMMA RefNext ==
  ASSUME TypeInv, RefInv, [Next]_vars
  PROVE  RefInv'
<1>1. ASSUME NEW t \in Threads, ThreadNext(t) PROVE RefInv'
  BY <1>1, CreateRefs, IncreaseRefs, AddRefs, UndoRefs, SetRefs DEF ThreadNext
<1>2. ASSUME NEW c \in Clients,
             \/ OnReadError(c) \/ CreateRequestAndQueue(c) \/ AfterRequestProcessing(c)
             \/ SkipClient(c) \/ AfterDisconnectionProcessing(c) \/ OnClientClosed(c)
      PROVE  RefInv'
  BY <1>2, RefFrame
  DEF OnReadError, CreateRequestAndQueue, AfterRequestProcessing, SkipClient,
      AfterDisconnectionProcessing, OnClientClosed, loopVars
<1>3. CASE RemoveClient \/ NothingToSend \/ SendingDone \/ UNCHANGED vars
  BY <1>3, RefFrame DEF RemoveClient, NothingToSend, SendingDone, vars, clientVars, loopVars
<1> QED
  BY <1>1, <1>2, <1>3, ToggleRefs, WriteRefs, FailRefs, SentRefs DEF Next, ClientNext, SendToClient

\* The event loop only sends responses whose reference count is set and counts exactly the
\* clients still to be served; a response is deleted once, when no client holds it.
THEOREM ReferencesCorrect == Spec => []ReferencesAccounted
<1>1. TypeInv /\ RefInv => ReferencesAccounted
  <2> SUFFICES ASSUME TypeInv, RefInv, NEW r \in Responses
               PROVE  /\ state[r] = "queued" =>
                            sentCount[r] + Cardinality(Holders(r)) = refs[r] /\ Holders(r) # {}
                      /\ state[r] \in {"unborn", "deleted"} => Holders(r) = {}
                      /\ state[r] = "adding" =>
                            \A c \in Clients : r \notin Range(queue[c][Unlocked]) /\ r \notin Range(beingSent[c])
    BY DEF ReferencesAccounted
  <2>1. \A d \in Directions : d = direction \/ d = Unlocked
    BY DEF TypeInv, TypeOK, LoopTypeOK, Directions, Unlocked, Other
  <2>2. state[r] \in {"unborn", "deleted"} => Holders(r) = {}
    BY <2>1 DEF RefInv, HeldInv, Holders
  <2> QED
    BY <2>2 DEF RefInv, HeldInv, SentInv, Sent
<1>2. TypeInv /\ RefInv /\ [Next]_vars => RefInv'
  BY RefNext
<1> QED
  BY InitRefs, TypeInit, TypeNext, <1>1, <1>2, PTL DEF Spec
-------------------------------------------------------------------------------
(* The server's counter, and no response forgotten                           *)

QueuedNow == {r \in Responses : state[r] = "queued"}

LEMMA QueuedSets ==
  ASSUME NEW S \in SUBSET Responses
  PROVE  IsFiniteSet(S) /\ Cardinality(S) \in Nat
<1>1. IsFiniteSet(S)
  BY ResponseQueuesAssumption, FS_Subset
<1> QED
  BY <1>1, FS_CardinalityType

\* CountAsSent takes the responses it deletes from the counter.
LEMMA ServedStat ==
  ASSUME ServerStatExact, NEW c \in Clients, NEW batch \in Seq(Responses), CountAsSent(c, batch),
         \A r \in Range(batch) : state[r] = "queued"
  PROVE  ServerStatExact'
<1>1. Finished(batch) \subseteq QueuedNow /\ QueuedNow \in SUBSET Responses
  BY BatchFinite DEF Finished, QueuedNow
<1>2. QueuedNow' = QueuedNow \ Finished(batch)
  BY <1>1 DEF CountAsSent, QueuedNow
<1>3. /\ IsFiniteSet(QueuedNow) /\ Cardinality(QueuedNow) \in Nat
      /\ QueuedNow \cap Finished(batch) = Finished(batch)
  BY <1>1, QueuedSets
<1>4. Cardinality(QueuedNow \ Finished(batch)) = Cardinality(QueuedNow) - Cardinality(Finished(batch))
  BY <1>3, FS_Difference
<1>5. inQueues = Cardinality(QueuedNow) /\ inQueues' = inQueues - Cardinality(Finished(batch))
  BY DEF ServerStatExact, QueuedNow, CountAsSent
<1> QED
  BY <1>2, <1>4, <1>5 DEF ServerStatExact, QueuedNow

LEMMA StatNext ==
  ASSUME TypeInv, RefInv, ServerStatExact, [Next]_vars
  PROVE  ServerStatExact'
<1>0. ClientTypeOK /\ ResponseTypeOK /\ ThreadTypeOK /\ LoopTypeOK /\ ThreadInv
  BY DEF TypeInv, TypeOK
<1>1. ASSUME QueuedNow' = QueuedNow, inQueues' = inQueues PROVE ServerStatExact'
  BY <1>1 DEF ServerStatExact, QueuedNow
<1>2. ASSUME UNCHANGED <<state, inQueues>> PROVE ServerStatExact'
  BY <1>2 DEF ServerStatExact
<1>3. ASSUME NEW t \in Threads, NEW r \in Responses, NEW targets \in SUBSET Clients \ {{}},
             CreateResponse(t, r, targets)
      PROVE  ServerStatExact'
  <2>1. state[r] = "unborn" /\ state' = [state EXCEPT ![r] = "adding"] /\ inQueues' = inQueues
    BY <1>3 DEF CreateResponse
  <2>2. QueuedNow' = QueuedNow
    BY <1>0, <2>1 DEF QueuedNow, ResponseTypeOK
  <2> QED
    BY <1>1, <2>1, <2>2
<1>4. ASSUME NEW t \in Threads, SetReferenceCount(t) PROVE ServerStatExact'
  <2>1. PICK r \in Responses, a \in Nat : r = adding[t] /\ a = added[t] /\ pc[t] = "next"
    BY <1>0, <1>4 DEF SetReferenceCount, ThreadInv, ThreadTypeOK
  <2>2. /\ state' = [state EXCEPT ![r] = IF a = 0 THEN "deleted" ELSE "queued"]
        /\ inQueues' = IF a = 0 THEN inQueues ELSE inQueues + 1
    BY <1>4, <2>1 DEF SetReferenceCount, AddResponseDetailsToServerStat
  <2>3. state[r] = "adding"
    BY <2>1 DEF RefInv, AddInv, Adds
  <2>4. CASE a = 0
    <3>1. QueuedNow' = QueuedNow
      BY <1>0, <2>2, <2>3, <2>4 DEF QueuedNow, ResponseTypeOK
    <3> QED
      BY <1>1, <2>2, <2>4, <3>1
  <2>5. CASE a # 0
    <3>1. QueuedNow' = QueuedNow \cup {r} /\ r \notin QueuedNow /\ QueuedNow \in SUBSET Responses
      BY <1>0, <2>2, <2>3, <2>5 DEF QueuedNow, ResponseTypeOK
    <3>2. IsFiniteSet(QueuedNow)
      BY <3>1, QueuedSets
    <3>3. Cardinality(QueuedNow \cup {r}) = Cardinality(QueuedNow) + 1
      BY <3>1, <3>2, FS_AddElement
    <3>4. inQueues = Cardinality(QueuedNow) /\ inQueues' = inQueues + 1
      BY <2>2, <2>5 DEF ServerStatExact, QueuedNow
    <3> QED
      BY <3>1, <3>3, <3>4 DEF ServerStatExact, QueuedNow
  <2> QED
    BY <2>4, <2>5
<1>5. ASSUME NEW t \in Threads,
             \/ \E c \in Clients : IncreaseCountForClient(t, c)
             \/ AddResponseToQueue(t) \/ DecreaseCountForClient(t)
      PROVE  ServerStatExact'
  BY <1>2, <1>5 DEF IncreaseCountForClient, AddResponseToQueue, DecreaseCountForClient, responseVars
<1>6. ASSUME NEW c \in Clients, WriteBatchFails(c) PROVE ServerStatExact'
  <2>1. PICK n \in 1..Len(queue[c][Unlocked]) :
           /\ CountAsSent(c, SubSeq(queue[c][Unlocked], 1, n))
           /\ queue' = [queue EXCEPT ![c][Unlocked] = SubSeq(@, n + 1, Len(@))]
    BY <1>6 DEF WriteBatchFails
  <2> DEFINE s == SubSeq(queue[c][Unlocked], 1, n)
  <2>2. s \in Seq(Responses) /\ Range(s) \subseteq Range(queue[c][Unlocked])
    BY <2>1, TakeSets
  <2>3. PICK f \in Seq(Responses) : f = s
    BY <2>2
  <2>4. CountAsSent(c, f)
    BY <2>1, <2>3 DEF CountAsSent, Finished
  <2>5. \A r \in Range(f) : state[r] = "queued"
    BY <2>2, <2>3 DEF RefInv, HeldInv
  <2> QED
    BY <2>4, <2>5, ServedStat
<1>7. ASSUME NEW c \in Clients, NEW ok \in BOOLEAN, AfterSendResponses(c, ok) PROVE ServerStatExact'
  <2>1. PICK f \in Seq(Responses) : f = beingSent[c]
    BY <1>0 DEF ClientTypeOK
  <2>2. CountAsSent(c, f)
    BY <1>7, <2>1 DEF AfterSendResponses, CountAsSent, Finished
  <2>3. \A r \in Range(f) : state[r] = "queued"
    BY <2>1 DEF RefInv, HeldInv
  <2> QED
    BY <2>2, <2>3, ServedStat
<1>8. ASSUME NEW c \in Clients,
             \/ OnReadError(c) \/ CreateRequestAndQueue(c) \/ AfterRequestProcessing(c)
             \/ SkipClient(c) \/ WriteBatch(c) \/ AfterDisconnectionProcessing(c) \/ OnClientClosed(c)
      PROVE  ServerStatExact'
  BY <1>2, <1>8
  DEF OnReadError, CreateRequestAndQueue, AfterRequestProcessing, SkipClient, WriteBatch,
      AfterDisconnectionProcessing, OnClientClosed, responseVars
<1>9. CASE RemoveClient \/ NothingToSend \/ ToggleDirection \/ SendingDone \/ UNCHANGED vars
  BY <1>2, <1>9 DEF RemoveClient, NothingToSend, ToggleDirection, SendingDone, vars, responseVars
<1> QED
  BY <1>3, <1>4, <1>5, <1>6, <1>7, <1>8, <1>9 DEF Next, ThreadNext, ClientNext, SendToClient

\* ResponsesInLocalClientsQueues, which lets the event loop skip sending and a shutdown
\* proceed, is the number of responses that are counted and not deleted.
THEOREM StatCorrect == Spec => []ServerStatExact
<1>1. Init => ServerStatExact
  <2> SUFFICES ASSUME Init PROVE ServerStatExact
    OBVIOUS
  <2>1. {r \in Responses : state[r] = "queued"} = {}
    BY DEF Init
  <2> QED
    BY <2>1, FS_EmptySet DEF Init, ServerStatExact
<1>2. TypeInv /\ RefInv /\ [Next]_vars => RefInv'
  BY RefNext
<1>3. TypeInv /\ RefInv /\ ServerStatExact /\ [Next]_vars => ServerStatExact'
  BY StatNext
<1> QED
  BY InitRefs, TypeInit, TypeNext, <1>1, <1>2, <1>3, PTL DEF Spec

LEMMA ForgottenNext ==
  ASSUME "loop" \notin OutOfMemory, ~WriteMayFailAtOnce,
         TypeInv, NoResponseForgotten, [Next]_vars
  PROVE  NoResponseForgotten'
<1>0. ClientTypeOK /\ ThreadTypeOK /\ LoopTypeOK /\ ThreadInv
  BY DEF TypeInv, TypeOK
<1> SUFFICES ASSUME NEW k \in Clients, NEW d \in Directions, queue'[k][d] # <<>>
             PROVE  k \in receiving'[d] \/ beingSent'[k] # <<>>
  BY DEF NoResponseForgotten
<1> DEFINE Goal == k \in receiving'[d] \/ beingSent'[k] # <<>>
<1>a. queue[k][d] # <<>> => k \in receiving[d] \/ beingSent[k] # <<>>
  BY DEF NoResponseForgotten
<1>b. Unlocked \in Directions
  BY <1>0, UnlockedType
<1>1. ASSUME UNCHANGED <<queue, receiving, beingSent>> PROVE Goal
  BY <1>1, <1>a
<1>2. ASSUME NEW t \in Threads, AddResponseToQueue(t) PROVE Goal
  <2>1. PICK c \in Clients, r \in Responses, e \in Directions :
           c = current[t] /\ r = adding[t] /\ e = direction
    BY <1>0, <1>2 DEF AddResponseToQueue, ThreadInv, HoldsWaitLock, LoopTypeOK
  <2>2. CASE /\ queue' = [queue EXCEPT ![c][e] = Append(@, r)]
             /\ receiving' = [receiving EXCEPT ![e] = @ \cup {c}] /\ UNCHANGED beingSent
    <3>1. \A x \in Directions : receiving'[x] = IF x = e THEN receiving[x] \cup {c} ELSE receiving[x]
      BY <1>0, <2>2 DEF ClientTypeOK
    <3>2. (k # c \/ d # e) => queue'[k][d] = queue[k][d]
      BY <1>0, <2>2 DEF ClientTypeOK
    <3>3. CASE k = c /\ d = e
      BY <3>1, <3>3
    <3>4. CASE k # c \/ d # e
      <4>1. k \in receiving[d] => k \in receiving'[d]
        BY <3>1
      <4>2. beingSent' = beingSent /\ queue[k][d] # <<>>
        BY <2>2, <3>2, <3>4
      <4> QED
        BY <1>a, <4>1, <4>2
    <3> QED
      BY <3>3, <3>4
  <2> QED
    BY <1>1, <1>2, <2>1, <2>2 DEF AddResponseToQueue
<1>3. ASSUME NEW c \in Clients, SkipClient(c) PROVE Goal
  <2>1. /\ beingSent[c] # <<>> /\ receiving' = [receiving EXCEPT ![Unlocked] = @ \ {c}]
        /\ UNCHANGED <<queue, beingSent>>
    BY <1>3 DEF SkipClient, LeaveUnlockedSet
  <2>2. receiving'[d] = IF d = Unlocked THEN receiving[d] \ {c} ELSE receiving[d]
    BY <1>0, <2>1 DEF ClientTypeOK
  <2> QED
    BY <1>a, <2>1, <2>2
<1>4. ASSUME NEW c \in Clients, WriteBatch(c) PROVE Goal
  <2>1. PICK n \in 1..Len(queue[c][Unlocked]) :
           /\ beingSent' = [beingSent EXCEPT ![c] = SubSeq(queue[c][Unlocked], 1, n)]
           /\ queue' = [queue EXCEPT ![c][Unlocked] = SubSeq(@, n + 1, Len(@))]
    BY <1>4 DEF WriteBatch
  <2>2. queue[c][Unlocked] \in Seq(Responses)
    BY <1>0, <1>b DEF ClientTypeOK
  <2>3. Len(SubSeq(queue[c][Unlocked], 1, n)) = n /\ n # 0
    BY <2>2, Split
  <2>4. beingSent'[c] # <<>> /\ (k # c => beingSent'[k] = beingSent[k])
    BY <1>0, <2>1, <2>3 DEF ClientTypeOK
  <2>5. k # c => queue'[k][d] = queue[k][d]
    BY <1>0, <2>1 DEF ClientTypeOK
  <2>6. k # c => (k \in receiving'[d] <=> k \in receiving[d])
    BY <1>0, <1>4 DEF WriteBatch, LeaveUnlockedSet, ClientTypeOK
  <2> QED
    BY <1>a, <2>4, <2>5, <2>6
<1>5. ASSUME NEW c \in Clients, WriteBatchFails(c) PROVE Goal
  <2>1. PICK n \in 1..Len(queue[c][Unlocked]) :
           /\ IsBatchLength(c, n)
           /\ queue' = [queue EXCEPT ![c][Unlocked] = SubSeq(@, n + 1, Len(@))]
    BY <1>5 DEF WriteBatchFails
  <2>2. beingSent' = beingSent /\ BackToSets(c, {Unlocked}) /\ (marked[c] \/ HeadIsFatal(c))
    BY <1>5 DEF WriteBatchFails
  <2>3. n = Len(queue[c][Unlocked])
    BY <2>1, <2>2 DEF IsBatchLength
  <2>4. queue'[c][Unlocked] = <<>>
    <3>1. queue[c][Unlocked] \in Seq(Responses)
      BY <1>0, <1>b DEF ClientTypeOK
    <3>2. queue'[c][Unlocked] = SubSeq(queue[c][Unlocked], n + 1, Len(queue[c][Unlocked]))
      BY <1>0, <1>b, <2>1 DEF ClientTypeOK
    <3>3. SubSeq(queue[c][Unlocked], n + 1, Len(queue[c][Unlocked])) \in Seq(Responses)
          /\ Len(SubSeq(queue[c][Unlocked], n + 1, Len(queue[c][Unlocked]))) = 0
      BY <2>3, <3>1, Split
    <3> QED
      BY <3>2, <3>3
  <2>5. (k # c \/ d # Unlocked) => queue'[k][d] = queue[k][d]
    BY <1>0, <2>1 DEF ClientTypeOK
  <2>6. /\ k # c => (k \in receiving'[d] <=> k \in receiving[d])
        /\ k = c /\ d # Unlocked => k \in receiving'[d]
    BY <1>0, <2>2 DEF BackToSets, ClientTypeOK
  <2> QED
    BY <1>a, <2>2, <2>4, <2>5, <2>6
<1>6. ASSUME NEW c \in Clients, NEW ok \in BOOLEAN, AfterSendResponses(c, ok) PROVE Goal
  <2>1. /\ beingSent' = [beingSent EXCEPT ![c] = <<>>] /\ queue' = queue /\ BackToSets(c, {})
    BY <1>6 DEF AfterSendResponses
  <2>2. k # c => beingSent'[k] = beingSent[k] /\ (k \in receiving'[d] <=> k \in receiving[d])
    BY <1>0, <2>1 DEF BackToSets, ClientTypeOK
  <2>3. k = c => k \in receiving'[d]
    BY <2>1 DEF BackToSets
  <2> QED
    BY <1>a, <2>1, <2>2, <2>3
<1>7. ASSUME NEW t \in Threads,
             \/ \E r \in Responses, targets \in SUBSET Clients \ {{}} : CreateResponse(t, r, targets)
             \/ \E c \in Clients : IncreaseCountForClient(t, c)
             \/ DecreaseCountForClient(t) \/ SetReferenceCount(t)
      PROVE  Goal
  BY <1>1, <1>7
  DEF CreateResponse, IncreaseCountForClient, DecreaseCountForClient, SetReferenceCount, clientVars
<1>8. ASSUME NEW c \in Clients,
             \/ OnReadError(c) \/ CreateRequestAndQueue(c) \/ AfterRequestProcessing(c)
             \/ AfterDisconnectionProcessing(c) \/ OnClientClosed(c)
      PROVE  Goal
  BY <1>1, <1>8
  DEF OnReadError, CreateRequestAndQueue, AfterRequestProcessing, AfterDisconnectionProcessing,
      OnClientClosed
<1>9. CASE RemoveClient \/ NothingToSend \/ ToggleDirection \/ SendingDone \/ UNCHANGED vars
  BY <1>1, <1>9 DEF RemoveClient, NothingToSend, ToggleDirection, SendingDone, vars, clientVars
<1> QED
  BY <1>2, <1>3, <1>4, <1>5, <1>6, <1>7, <1>8, <1>9 DEF Next, ThreadNext, ClientNext, SendToClient

\* A queue that holds responses is in its receiving set, or a batch is being written whose
\* completion puts the client back.  The first hypothesis is needed: a failed AddToClientSet
\* forgets a queue.  The second is what the Windows libuv gives (win/tcp.c:909,
\* win/stream.c:129); the handler of such an error would forget a FATAL_ERROR response.
THEOREM NoResponseForgottenCorrect ==
  ASSUME "loop" \notin OutOfMemory, ~WriteMayFailAtOnce
  PROVE  Spec => []NoResponseForgotten
<1>1. Init => NoResponseForgotten
  BY DEF Init, NoResponseForgotten
<1>2. TypeInv /\ NoResponseForgotten /\ [Next]_vars => NoResponseForgotten'
  BY ForgottenNext
<1> QED
  BY TypeInit, TypeNext, <1>1, <1>2, PTL DEF Spec
===============================================================================
