------------------------- MODULE ForwardedResponseProofs -------------------------
(***************************************************************************)
(* Forwarded responses are written and read back correctly for every set   *)
(* of handles, messages and peers, every length a peer may claim and every *)
(* way to lose, refuse or interleave them.                                 *)
(***************************************************************************)
EXTENDS ForwardedResponse, FiniteSetTheorems, TLAPS

-------------------------------------------------------------------------------
(* Arithmetic                                                                *)

LEMMA Constants ==
    /\ IsFiniteSet(Handles) /\ Messages \cap Strangers = {}
    /\ MaxHandles \in Nat /\ MaxHandles > 0
    /\ MaxPayload \in Nat /\ MaxPayload > 0
    /\ NumberBytes \in Nat /\ NumberBytes > 7
    /\ Word \in Nat /\ Word > 0
    /\ Word % NumberBytes = 0
    /\ \A n \in StrangeCounts : n \in Nat
<1>1. /\ IsFiniteSet(Handles) /\ Messages \cap Strangers = {}
      /\ MaxHandles \in Nat /\ MaxHandles > 0
      /\ MaxPayload \in Nat /\ MaxPayload > 0
      /\ NumberBytes \in Nat /\ NumberBytes > 7
      /\ Word \in Nat /\ Word % NumberBytes = 0
  BY ForwardedResponseAssumption DEF VersionBytes, HandleBytes
<1>2. MaxHandles * NumberBytes \in Nat
  BY <1>1
<1>3. MaxForwardSize \in Nat /\ MaxForwardSize < Word
  BY <1>1, <1>2, ForwardedResponseAssumption DEF MaxForwardSize, VersionBytes, HandleBytes
<1>4. \A n \in StrangeCounts : n \in Nat
  BY <1>1, ForwardedResponseAssumption
<1> QED
  BY <1>1, <1>3, <1>4

\* The offsets of the registration numbers.
LEMMA Offsets ==
    /\ FieldsSize(0) = 6
    /\ \A n \in Nat : /\ FieldsSize(n) \in Nat /\ FieldsSize(n) >= 6
                      /\ FieldsSize(n + 1) = FieldsSize(n) + NumberBytes
    /\ \A a, b \in Nat : a <= b => FieldsSize(a) <= FieldsSize(b)
    /\ MaxForwardSize = FieldsSize(MaxHandles) + MaxPayload /\ MaxForwardSize \in Nat
    /\ MaxForwardSize < Word
<1>1. NumberBytes \in Nat /\ MaxHandles \in Nat /\ MaxPayload \in Nat
  BY Constants
<1>2. \A n \in Nat : n * NumberBytes \in Nat /\ (n + 1) * NumberBytes = n * NumberBytes + NumberBytes
  BY <1>1
<1>3. \A a, b \in Nat : a <= b => a * NumberBytes <= b * NumberBytes
  BY <1>1
<1>4. 0 * NumberBytes = 0
  BY <1>1
<1>5. MaxForwardSize < Word
  BY ForwardedResponseAssumption
<1>6. \A n \in Nat : FieldsSize(n) = 6 + n * NumberBytes
  BY <1>2 DEF FieldsSize, VersionBytes, HandleBytes
<1>7. MaxForwardSize = 6 + MaxHandles * NumberBytes + MaxPayload
  BY <1>1, <1>2 DEF MaxForwardSize, VersionBytes, HandleBytes
<1> QED
  BY <1>1, <1>2, <1>3, <1>4, <1>5, <1>6, <1>7

\* A minimum length never falls below that of a response without handles, wrapped around or
\* not: a word holds a whole number of registration numbers, and these are longer than the
\* two fields in front of them.
LEMMA MinimumNeverSmall == \A n \in Nat : MinimumLength(n) \in Nat /\ MinimumLength(n) >= 7
<1> SUFFICES ASSUME NEW n \in Nat PROVE MinimumLength(n) \in Nat /\ MinimumLength(n) >= 7
  OBVIOUS
<1> DEFINE x == FieldsSize(n) + 1
           q == x \div Word
           r == x % Word
           k == Word \div NumberBytes
<1>1. /\ NumberBytes \in Nat /\ NumberBytes > 7 /\ Word \in Nat /\ Word > 0
      /\ Word % NumberBytes = 0
  BY Constants
<1>2. x \in Nat /\ x = 7 + n * NumberBytes /\ n * NumberBytes \in Nat
  BY <1>1 DEF FieldsSize, VersionBytes, HandleBytes
<1>3. x = Word * q + r /\ r \in Nat /\ q \in Int
  <2> HIDE DEF x
  <2> QED
    BY <1>1, <1>2
<1>4. Word = NumberBytes * k /\ k \in Int
  BY <1>1
<1>5. ASSUME r < 7 PROVE FALSE
  <2> HIDE DEF q, r, k, x
  <2> DEFINE d == n - k * q
  <2>1. d \in Int /\ r = 7 + d * NumberBytes
    BY <1>1, <1>2, <1>3, <1>4
  <2> HIDE DEF d
  <2>2. d < 0
    <3>1. d >= 0 => d * NumberBytes >= 0
      BY <1>1, <2>1
    <3> QED
      BY <1>1, <1>3, <1>5, <2>1, <3>1
  <2>3. d * NumberBytes <= -NumberBytes
    BY <1>1, <2>1, <2>2
  <2> QED
    BY <1>1, <1>3, <2>1, <2>3
<1> QED
  BY <1>3, <1>5 DEF MinimumLength

\* Without wrapping around it is what it says.
LEMMA MinimumExact == \A n \in Nat : FieldsSize(n) + 1 < Word => MinimumLength(n) = FieldsSize(n) + 1
<1> SUFFICES ASSUME NEW n \in Nat, FieldsSize(n) + 1 < Word
             PROVE  MinimumLength(n) = FieldsSize(n) + 1
  OBVIOUS
<1>1. FieldsSize(n) \in Nat /\ Word \in Nat /\ Word > 0
  BY Constants, Offsets
<1> QED
  BY <1>1 DEF MinimumLength

\* How many forwarded responses n handles take.
LEMMA PartsStep ==
    /\ Parts(0) = 0
    /\ \A n \in 1..MaxHandles : Parts(n) = 1
    /\ \A n \in Nat : Parts(n) \in Int /\ (n > MaxHandles => Parts(n) = Parts(n - MaxHandles) + 1)
<1>1. MaxHandles \in Nat \ {0}
  BY Constants
<1>2. Parts(0) = 0
  BY <1>1 DEF Parts
<1>3. \A n \in 1..MaxHandles : Parts(n) = 1
  BY <1>1 DEF Parts
<1>4. ASSUME NEW n \in Nat
      PROVE  Parts(n) \in Int /\ (n > MaxHandles => Parts(n) = Parts(n - MaxHandles) + 1)
  <2> DEFINE y == n - 1
  <2>1. y \in Int /\ y + MaxHandles = n + MaxHandles - 1 /\ y = n - MaxHandles + MaxHandles - 1
    BY <1>1
  <2>2. (y + MaxHandles) \div MaxHandles = y \div MaxHandles + 1 /\ y \div MaxHandles \in Int
    <3> HIDE DEF y
    <3> QED
      BY <1>1, <2>1
  <2> QED
    BY <2>1, <2>2 DEF Parts
<1> QED
  BY <1>2, <1>3, <1>4

-------------------------------------------------------------------------------
(* The inductive invariant                                                   *)

All == Messages \cup Strangers

Forward ==
    [len : Nat, count : Nat, numbers : SUBSET Handles, payload : All, payloadAt : Nat]

\* A request that is being read.
Reading == [reading : {TRUE}, msg : Forward, n : Nat, index : Nat]

Types ==
    /\ size \in [All -> Nat]
    /\ targets \in [Messages -> SUBSET Handles] /\ todo \in [Messages -> SUBSET Handles]
    /\ failed \subseteq Messages
    /\ wire \in [Peers -> Seq(Forward)]
    /\ rx \in [Peers -> Reading \cup {Idle}]
    /\ delivered \in [Messages -> [Handles -> Nat]]
    /\ acks \in [Peers -> [All -> Nat]]

\* The receiver is inside the request, behind as many numbers as it has read.
ReadInv ==
    \A s \in Peers : rx[s] # Idle =>
        /\ rx[s].index = FieldsSize(rx[s].n) /\ rx[s].index < rx[s].msg.len
        /\ rx[s].n <= rx[s].msg.count

\* A forwarded response on the way to server s is as its sender constructed it, and holds
\* handles of that server which nobody else will serve and nobody has served.
Sound(f, s) ==
    f.payload \in Messages =>
        /\ f.count = Cardinality(f.numbers) /\ f.count <= MaxHandles
        /\ size[f.payload] > 0
        /\ f.payloadAt = FieldsSize(f.count) /\ f.len = FieldsSize(f.count) + size[f.payload]
        /\ f.numbers \subseteq targets[f.payload]
        /\ \A h \in f.numbers : /\ ServerOf[h] = s
                                /\ h \notin todo[f.payload] /\ delivered[f.payload][h] = 0

\* Two forwarded responses have no handle in common for the same message.
Apart(f, g) ==
    f.payload \in Messages /\ f.payload = g.payload => f.numbers \cap g.numbers = {}

Way(s) ==
    /\ \A i \in 1..Len(wire[s]) : Sound(wire[s][i], s)
    /\ \A i, j \in 1..Len(wire[s]) : i # j => Apart(wire[s][i], wire[s][j])
    /\ rx[s] # Idle => /\ Sound(rx[s].msg, s)
                       /\ \A i \in 1..Len(wire[s]) : Apart(rx[s].msg, wire[s][i])

WayInv == \A s \in Peers : Way(s)

\* What a message without length, its handles and its deliveries are like.
SenderInv ==
    \A m \in Messages :
        /\ size[m] <= MaxPayload
        /\ size[m] = 0 => /\ targets[m] = {} 
                          /\ \A h \in Handles : delivered[m][h] = 0
        /\ todo[m] \subseteq targets[m]
        /\ \A h \in todo[m] : delivered[m][h] = 0
        /\ \A h \in Handles : delivered[m][h] <= 1 /\ (delivered[m][h] = 1 => h \in targets[m])

\* Nothing of a message that did not fail gets lost: a target is yet to be served, under way
\* or served.
Under(m, h, s) ==
    \/ \E i \in 1..Len(wire[s]) : wire[s][i].payload = m /\ h \in wire[s][i].numbers
    \/ rx[s] # Idle /\ rx[s].msg.payload = m /\ h \in rx[s].msg.numbers

KeptInv ==
    \A m \in Messages \ failed : \A h \in targets[m] :
        h \in todo[m] \/ delivered[m][h] = 1 \/ \E s \in Peers : Under(m, h, s)

\* The parts of a message for server s: acknowledged, on the wire, being read, to be created.
Carried(m, q) == Cardinality({i \in 1..Len(q) : q[i].payload = m})
BeingRead(m, s) == IF rx[s] # Idle /\ rx[s].msg.payload = m THEN 1 ELSE 0
TargetsAt(m, s) == {h \in targets[m] : ServerOf[h] = s}

Sum(m, s) ==
    acks[s][m] + Carried(m, wire[s]) + BeingRead(m, s) + Parts(Cardinality(HandlesAt(m, s)))

PartsInv ==
    \A m \in Messages \ failed, s \in Peers : Sum(m, s) = Parts(Cardinality(TargetsAt(m, s)))

Inv == Types /\ ReadInv /\ WayInv /\ SenderInv

\* Idle is not a request that is being read.
LEMMA IdleOrReading ==
    /\ ~Idle.reading
    /\ \A r \in Reading : r.reading /\ r # Idle
<1>1. ~Idle.reading
  BY DEF Idle
<1>2. \A r \in Reading : r.reading
  BY DEF Reading
<1> QED
  BY <1>1, <1>2

\* All there is to know of the receivers.
LEMMA Receivers ==
    ASSUME Types, NEW s \in Peers
    PROVE  /\ rx[s].reading <=> rx[s] # Idle
           /\ rx[s] # Idle => rx[s] \in Reading /\ rx[s].msg \in Forward
<1>1. rx[s] \in Reading \/ rx[s] = Idle
  BY DEF Types
<1>2. rx[s] \in Reading => rx[s].msg \in Forward
  BY DEF Reading
<1> QED
  BY <1>1, <1>2, IdleOrReading

LEMMA Queues ==
    /\ \A q \in Seq(Forward), f \in Forward :
          /\ Append(q, f) \in Seq(Forward) /\ Len(Append(q, f)) = Len(q) + 1 /\ Len(q) \in Nat
          /\ \A i \in 1..Len(q) : Append(q, f)[i] = q[i] /\ q[i] \in Forward
          /\ Append(q, f)[Len(q) + 1] = f
    /\ \A q \in Seq(Forward) : q # <<>> =>
          /\ Tail(q) \in Seq(Forward) /\ Len(Tail(q)) = Len(q) - 1 /\ Len(q) \in Nat /\ Len(q) > 0
          /\ \A i \in 1..(Len(q) - 1) : Tail(q)[i] = q[i + 1]
          /\ Head(q) = q[1] /\ Head(q) \in Forward
<1> HIDE DEF Forward
<1>1. ASSUME NEW q \in Seq(Forward), NEW f \in Forward
      PROVE  /\ Append(q, f) \in Seq(Forward) /\ Len(Append(q, f)) = Len(q) + 1 /\ Len(q) \in Nat
             /\ \A i \in 1..Len(q) : Append(q, f)[i] = q[i] /\ q[i] \in Forward
             /\ Append(q, f)[Len(q) + 1] = f
  OBVIOUS
<1>2. ASSUME NEW q \in Seq(Forward), q # <<>>
      PROVE  /\ Tail(q) \in Seq(Forward) /\ Len(Tail(q)) = Len(q) - 1 /\ Len(q) \in Nat /\ Len(q) > 0
             /\ \A i \in 1..(Len(q) - 1) : Tail(q)[i] = q[i + 1]
             /\ Head(q) = q[1] /\ Head(q) \in Forward
  <2>1. Len(q) \in Nat /\ Len(q) > 0 /\ \A i \in 1..Len(q) : q[i] \in Forward
    BY <1>2
  <2>2. Head(q) = q[1]
    BY <1>2
  <2>3. /\ Tail(q) \in Seq(Forward) /\ Len(Tail(q)) = Len(q) - 1
        /\ \A i \in 1..(Len(q) - 1) : Tail(q)[i] = q[i + 1]
    BY <1>2
  <2> QED
    BY <2>1, <2>2, <2>3
<1> QED
  BY <1>1, <1>2

\* A request that is being read, one number later.
LEMMA ReadOn ==
    ASSUME NEW r \in Reading
    PROVE  LET q == [r EXCEPT !.n = @ + 1, !.index = @ + NumberBytes] IN
           q \in Reading /\ q.msg = r.msg /\ q.n = r.n + 1 /\ q.index = r.index + NumberBytes
<1>1. r.n + 1 \in Nat /\ r.index + NumberBytes \in Nat
  BY Constants DEF Reading
<1>2. ASSUME NEW e \in Nat, NEW f \in Nat
      PROVE  LET q == [r EXCEPT !.n = e, !.index = f] IN
             q \in Reading /\ q.msg = r.msg /\ q.n = e /\ q.index = f
  BY DEF Reading
<1> QED
  BY <1>1, <1>2

\* The deliveries once message m is delivered to the handles in N.
Served(d, m, N) == [d EXCEPT ![m] = [h \in Handles |-> @[h] + IF h \in N THEN 1 ELSE 0]]

LEMMA OneMore ==
    ASSUME NEW d \in [Messages -> [Handles -> Nat]], NEW m \in Messages, NEW N
    PROVE  /\ Served(d, m, N) \in [Messages -> [Handles -> Nat]]
           /\ \A k \in Messages, h \in Handles :
                 Served(d, m, N)[k][h] = IF k = m /\ h \in N THEN d[k][h] + 1 ELSE d[k][h]
<1> DEFINE g == [h \in Handles |-> d[m][h] + IF h \in N THEN 1 ELSE 0]
<1>1. g \in [Handles -> Nat]
  OBVIOUS
<1>2. \A h \in Handles : g[h] = IF h \in N THEN d[m][h] + 1 ELSE d[m][h]
  OBVIOUS
<1>3. Served(d, m, N) = [d EXCEPT ![m] = g]
  BY DEF Served
<1> HIDE DEF g
<1>4. /\ Served(d, m, N) \in [Messages -> [Handles -> Nat]]
      /\ \A k \in Messages : Served(d, m, N)[k] = IF k = m THEN g ELSE d[k]
  BY <1>1, <1>3
<1>5. \A k \in Messages, h \in Handles :
        Served(d, m, N)[k][h] = IF k = m /\ h \in N THEN d[k][h] + 1 ELSE d[k][h]
  BY <1>2, <1>4
<1> QED
  BY <1>4, <1>5

\* A change of one queue.
LEMMA QueueChange ==
    ASSUME Types, NEW s \in Peers, NEW q \in Seq(Forward), wire' = [wire EXCEPT ![s] = q]
    PROVE  /\ wire' \in [Peers -> Seq(Forward)] /\ wire'[s] = q
           /\ \A t \in Peers : t # s => wire'[t] = wire[t]
BY DEF Types

\* Sets of handles are finite.
LEMMA HandleSets ==
    \A S \in SUBSET Handles : IsFiniteSet(S) /\ Cardinality(S) \in Nat
BY Constants, FS_Subset, FS_CardinalityType

LEMMA InitInv == Init => Inv
<1> SUFFICES ASSUME Init PROVE Inv
  OBVIOUS
<1>1. Types
  BY DEF Init, Types, All
<1>2. ReadInv
  BY DEF Init, ReadInv
<1>3. WayInv
  BY DEF Init, WayInv, Way
<1>4. SenderInv
  BY Constants DEF Init, SenderInv
<1> QED
  BY <1>1, <1>2, <1>3, <1>4 DEF Inv

-------------------------------------------------------------------------------
(* Types                                                                     *)

\* What the sender constructs from a chunk.
LEMMA Constructed ==
    ASSUME Types, NEW m \in Messages, NEW s \in Peers, NEW chunk, IsChunk(HandlesAt(m, s), chunk)
    PROVE  /\ chunk \subseteq todo[m] /\ chunk \subseteq Handles /\ chunk # {}
           /\ \A h \in chunk : ServerOf[h] = s
           /\ Cardinality(chunk) \in Nat /\ Cardinality(chunk) <= MaxHandles
           /\ Construct(m, chunk) \in Forward
           /\ Construct(m, chunk).len = FieldsSize(Cardinality(chunk)) + size[m]
           /\ Construct(m, chunk).count = Cardinality(chunk)
           /\ Construct(m, chunk).numbers = chunk /\ Construct(m, chunk).payload = m
           /\ Construct(m, chunk).payloadAt = FieldsSize(Cardinality(chunk))
<1>1. /\ chunk \subseteq todo[m] /\ chunk \subseteq Handles /\ chunk # {}
      /\ \A h \in chunk : ServerOf[h] = s
      /\ HandlesAt(m, s) \in SUBSET Handles
  BY DEF IsChunk, HandlesAt, Types
<1>2. Cardinality(chunk) \in Nat /\ Cardinality(HandlesAt(m, s)) \in Nat
  BY <1>1, HandleSets
<1>3. Cardinality(chunk) <= MaxHandles
  BY <1>2, Constants DEF IsChunk
<1>4. size[m] \in Nat /\ m \in All
  BY DEF Types, All
<1>5. FieldsSize(Cardinality(chunk)) \in Nat
  BY <1>2, Offsets
<1> HIDE DEF FieldsSize
<1>6. Construct(m, chunk) \in Forward
  BY <1>1, <1>2, <1>4, <1>5 DEF Construct, Forward
<1> QED
  BY <1>1, <1>2, <1>3, <1>6 DEF Construct

LEMMA NextTypes == Types /\ [Next]_vars => Types'
<1> SUFFICES ASSUME Types, [Next]_vars PROVE Types'
  OBVIOUS
<1>1. ASSUME NEW m \in Messages, NEW n \in 1..MaxPayload, NEW handles \in SUBSET Handles,
             Send(m, handles, n)
      PROVE  Types'
  <2>1. size' \in [All -> Nat]
    BY <1>1, Constants DEF Send, Types, All
  <2> QED
    BY <1>1, <2>1 DEF Send, Types
<1>2. ASSUME NEW m \in Messages, NEW taken, CreateLocal(m, taken) PROVE Types'
  <2>1. delivered' \in [Messages -> [Handles -> Nat]]
    BY <1>2 DEF CreateLocal, Deliver, Types
  <2>2. failed' \subseteq Messages
    BY <1>2 DEF CreateLocal, NoteUnless, Types
  <2> QED
    BY <1>2, <2>1, <2>2 DEF CreateLocal, Types, EraseChunk
<1>3. ASSUME NEW m \in Messages, NEW s, CreateFails(m, s) PROVE Types'
  BY <1>3 DEF CreateFails, Types
<1>4. ASSUME NEW m \in Messages, NEW s \in Peers, NEW chunk \in SUBSET HandlesAt(m, s),
             CreateForward(m, s, chunk)
      PROVE  Types'
  <2>1. Construct(m, chunk) \in Forward
    BY <1>4, Constructed DEF CreateForward
  <2> HIDE DEF Forward
  <2>2. wire' \in [Peers -> Seq(Forward)]
    <3>1. CASE Construct(m, chunk).len <= MaxForwardSize
      <4>1. wire' = [wire EXCEPT ![s] = Append(wire[s], Construct(m, chunk))]
        BY <1>4, <3>1 DEF CreateForward
      <4>2. Append(wire[s], Construct(m, chunk)) \in Seq(Forward)
        BY <2>1, Queues DEF Types
      <4> QED
        BY <4>1, <4>2, QueueChange
    <3>2. CASE ~(Construct(m, chunk).len <= MaxForwardSize)
      BY <1>4, <3>2 DEF CreateForward, Types
    <3> QED
      BY <3>1, <3>2
  <2>3. todo' \in [Messages -> SUBSET Handles]
    BY <1>4, ZenonT(40) DEF CreateForward, Types, EraseChunk
  <2> QED
    BY <1>4, <2>2, <2>3 DEF CreateForward, Types
<1>5. ASSUME NEW m \in Messages, NEW s \in Peers, NEW chunk \in SUBSET HandlesAt(m, s),
             ForwardRefused(m, s, chunk)
      PROVE  Types'
  BY <1>5 DEF ForwardRefused, Types, EraseChunk
<1>6. ASSUME NEW x \in Strangers, NEW s \in Peers, NEW n \in StrangeCounts,
             NEW len \in 1..MaxForwardSize, ReceiveStrange(x, s, n, len)
      PROVE  Types'
  <2> DEFINE f == [len |-> len, count |-> n, numbers |-> {}, payload |-> x, payloadAt |-> 0]
  <2>1. f \in Forward /\ x \in All /\ len \in Nat
    BY Constants, Offsets DEF Forward, All
  <2> HIDE DEF f
  <2>2. wire' \in [Peers -> Seq(Forward)]
    BY <1>6, <2>1, Queues DEF ReceiveStrange, Types, f
  <2> QED
    BY <1>6, <2>1, <2>2 DEF ReceiveStrange, Types
<1>7. ASSUME NEW s \in Peers, Lose(s) PROVE Types'
  <2>1. Tail(wire[s]) \in Seq(Forward) /\ wire' = [wire EXCEPT ![s] = Tail(wire[s])]
    BY <1>7, Queues DEF Lose, Types
  <2>2. wire' \in [Peers -> Seq(Forward)]
    BY <2>1, QueueChange
  <2> QED
    BY <1>7, <2>2 DEF Lose, Types, senderVars
<1>8. ASSUME NEW s \in Peers, StartProcessing(s) PROVE Types'
  <2> DEFINE r == [reading |-> TRUE, msg |-> Head(wire[s]), n |-> 0,
                   index |-> VersionBytes + HandleBytes]
  <2>1. r \in Reading
    BY <1>8, Queues DEF StartProcessing, Types, Reading, VersionBytes, HandleBytes
  <2>2. wire' \in [Peers -> Seq(Forward)]
    BY <1>8, Queues DEF StartProcessing, Types
  <2>3. rx' \in [Peers -> Reading \cup {Idle}]
    <3> HIDE DEF r
    <3> QED
      BY <1>8, <2>1 DEF StartProcessing, Types, r
  <2> QED
    BY <1>8, <2>2, <2>3 DEF StartProcessing, Types, senderVars
<1>9. ASSUME NEW s \in Peers, ReadHandle(s) PROVE Types'
  <2>1. rx[s] \in Reading
    BY <1>9, Receivers DEF ReadHandle
  <2>2. [rx[s] EXCEPT !.n = @ + 1, !.index = @ + NumberBytes] \in Reading
    BY <2>1, ReadOn
  <2>3. rx' \in [Peers -> Reading \cup {Idle}]
    BY <1>9, <2>2 DEF ReadHandle, Types
  <2> QED
    BY <1>9, <2>3 DEF ReadHandle, Types, senderVars
<1>10. ASSUME NEW s \in Peers, ReadHandleRefused(s) PROVE Types'
  BY <1>10 DEF ReadHandleRefused, Types, senderVars
<1>11. ASSUME NEW s \in Peers, ReadHandleFails(s) PROVE Types'
  BY <1>11 DEF ReadHandleFails, Types, senderVars
<1>12. ASSUME NEW s \in Peers, NEW taken, NEW acked, FinishProcessing(s, taken, acked) PROVE Types'
  <2>1. rx[s].msg \in Forward /\ rx[s].msg.payload \in All
    BY <1>12, Receivers DEF FinishProcessing, Forward
  <2>2. delivered' \in [Messages -> [Handles -> Nat]]
    <3>1. CASE rx[s].msg.payload \in Messages
      <4>1. delivered \in [Messages -> [Handles -> Nat]]
        BY DEF Types
      <4>2. delivered' = Served(delivered, rx[s].msg.payload, taken)
        BY <1>12, <3>1 DEF FinishProcessing, PassOn, Deliver, Served
      <4> QED
        BY <3>1, <4>1, <4>2, OneMore
    <3>2. CASE rx[s].msg.payload \notin Messages
      BY <1>12, <3>2 DEF FinishProcessing, PassOn, Types
    <3> QED
      BY <3>1, <3>2
  <2>3. acks' \in [Peers -> [All -> Nat]]
    BY <1>12, <2>1 DEF FinishProcessing, Acknowledge, Types
  <2>4. rx' \in [Peers -> Reading \cup {Idle}]
    BY <1>12 DEF FinishProcessing, Types
  <2>5. failed' \subseteq Messages
    BY <1>12 DEF FinishProcessing, NoteUnless, Types
  <2> QED
    BY <1>12, <2>2, <2>3, <2>4, <2>5 DEF FinishProcessing, Types, senderVars
<1>13. CASE UNCHANGED vars
  BY <1>13 DEF vars, Types
<1> QED
  BY <1>1, <1>2, <1>3, <1>4, <1>5, <1>6, <1>7, <1>8, <1>9, <1>10, <1>11, <1>12, <1>13
  DEF Next, Sender, Stranger, Receiver

-------------------------------------------------------------------------------
(* Reading                                                                   *)

\* A change of one receiver.
LEMMA ReceiverChange ==
    ASSUME Types, NEW s \in Peers, NEW r, rx' = [rx EXCEPT ![s] = r]
    PROVE  rx'[s] = r /\ \A t \in Peers : t # s => rx'[t] = rx[t]
BY DEF Types

\* What a peer that begins to process a request does.
LEMMA Started ==
    ASSUME Types, NEW s \in Peers, StartProcessing(s)
    PROVE  LET f == Head(wire[s]) IN
           /\ f \in Forward /\ wire[s] # <<>> /\ rx[s] = Idle
           /\ wire'[s] = Tail(wire[s]) /\ \A t \in Peers : t # s => wire'[t] = wire[t] /\ rx'[t] = rx[t]
           /\ f.len <= MaxForwardSize /\ LongEnough(f) =>
                 /\ rx'[s] # Idle /\ rx'[s].msg = f
                 /\ rx'[s].n = 0 /\ rx'[s].index = 6
           /\ ~(f.len <= MaxForwardSize /\ LongEnough(f)) => rx' = rx
           /\ UNCHANGED <<size, targets, todo, failed, delivered, acks>>
<1> DEFINE f == Head(wire[s])
           r == [reading |-> TRUE, msg |-> f, n |-> 0, index |-> VersionBytes + HandleBytes]
<1>1. /\ wire[s] \in Seq(Forward) /\ wire[s] # <<>> /\ rx[s] = Idle
      /\ wire' = [wire EXCEPT ![s] = Tail(wire[s])]
  BY DEF StartProcessing, Types
<1>2. f \in Forward /\ Tail(wire[s]) \in Seq(Forward)
  BY <1>1, Queues
<1>3. wire'[s] = Tail(wire[s]) /\ \A t \in Peers : t # s => wire'[t] = wire[t]
  BY <1>1, <1>2, QueueChange
<1>4. /\ r.msg = f /\ r.n = 0 /\ r.index = 6
      /\ r # Idle
  <2>1. r.msg = f /\ r.n = 0 /\ r.index = 6 /\ r.reading
    BY DEF VersionBytes, HandleBytes
  <2> HIDE DEF r
  <2> QED
    BY <2>1, IdleOrReading
<1>5. CASE f.len <= MaxForwardSize /\ LongEnough(f)
  <2>1. rx' = [rx EXCEPT ![s] = r]
    BY <1>5 DEF StartProcessing
  <2>2. rx'[s] = r /\ \A t \in Peers : t # s => rx'[t] = rx[t]
    BY <2>1, ReceiverChange
  <2> QED
    BY <1>1, <1>2, <1>3, <1>4, <1>5, <2>2 DEF StartProcessing, senderVars
<1>6. CASE ~(f.len <= MaxForwardSize /\ LongEnough(f))
  <2>1. rx' = rx
    BY <1>6 DEF StartProcessing
  <2> QED
    BY <1>1, <1>2, <1>3, <1>6, <2>1 DEF StartProcessing, senderVars
<1> QED
  BY <1>5, <1>6

\* What one that reads a number does.
LEMMA ReadNumber ==
    ASSUME Types, NEW s \in Peers, ReadHandle(s)
    PROVE  /\ rx[s] \in Reading /\ rx[s] # Idle /\ rx'[s] # Idle
           /\ rx'[s].msg = rx[s].msg /\ rx'[s].n = rx[s].n + 1 
           /\ rx'[s].index = rx[s].index + NumberBytes
           /\ \A t \in Peers : t # s => rx'[t] = rx[t]
           /\ UNCHANGED <<size, targets, todo, failed, wire, delivered, acks>>
<1> DEFINE q == [rx[s] EXCEPT !.n = @ + 1, !.index = @ + NumberBytes]
<1>1. rx[s] \in Reading /\ rx[s] # Idle
  BY Receivers DEF ReadHandle
<1>2. rx' = [rx EXCEPT ![s] = q]
  BY DEF ReadHandle
<1>3. /\ q \in Reading /\ q.msg = rx[s].msg /\ q.n = rx[s].n + 1
      /\ q.index = rx[s].index + NumberBytes
  BY <1>1, ReadOn
<1> HIDE DEF q
<1>4. rx'[s] = q /\ \A t \in Peers : t # s => rx'[t] = rx[t]
  BY <1>2, ReceiverChange
<1>5. q # Idle
  BY <1>3, IdleOrReading
<1> QED
  BY <1>1, <1>3, <1>4, <1>5 DEF ReadHandle, senderVars

\* What one that has read all numbers does.
LEMMA Finished ==
    ASSUME Types, NEW s \in Peers, NEW taken, NEW acked, FinishProcessing(s, taken, acked)
    PROVE  LET f == rx[s].msg IN
           /\ rx[s] # Idle /\ rx[s] \in Reading /\ f \in Forward /\ rx[s].n = f.count
           /\ rx'[s] = Idle /\ \A t \in Peers : t # s => rx'[t] = rx[t]
           /\ \A m \in Messages, h \in Handles :
                 delivered'[m][h] = IF m = f.payload /\ h \in taken
                                    THEN delivered[m][h] + 1 ELSE delivered[m][h]
           /\ \A t \in Peers, m \in Messages :
                 acks'[t][m] = IF t = s /\ m = f.payload /\ acked
                               THEN acks[t][m] + 1 ELSE acks[t][m]
           /\ taken \subseteq f.numbers /\ failed \subseteq failed'
           /\ f.payload \in Messages \ failed' => taken = f.numbers /\ acked
           /\ UNCHANGED <<size, targets, todo, wire>>
<1> DEFINE f == rx[s].msg
<1>1. rx[s] # Idle /\ rx[s] \in Reading /\ f \in Forward /\ rx[s].n = f.count
  BY Receivers DEF FinishProcessing
<1>2. rx'[s] = Idle /\ \A t \in Peers : t # s => rx'[t] = rx[t]
  BY ReceiverChange DEF FinishProcessing
<1>3. \A m \in Messages, h \in Handles :
        delivered'[m][h] = IF m = f.payload /\ h \in taken
                           THEN delivered[m][h] + 1 ELSE delivered[m][h]
  <2>1. CASE f.payload \in Messages
    <3>1. delivered' = Served(delivered, f.payload, taken)
      BY <2>1 DEF FinishProcessing, PassOn, Deliver, Served
    <3>2. delivered \in [Messages -> [Handles -> Nat]]
      BY DEF Types
    <3> HIDE DEF f
    <3> QED
      BY <2>1, <3>1, <3>2, OneMore
  <2>2. CASE f.payload \notin Messages
    BY <2>2 DEF FinishProcessing, PassOn
  <2> QED
    BY <2>1, <2>2
<1>4. \A t \in Peers, m \in Messages :
        acks'[t][m] = IF t = s /\ m = f.payload /\ acked THEN acks[t][m] + 1 ELSE acks[t][m]
  <2>1. f.payload \in All /\ acks \in [Peers -> [All -> Nat]] /\ \A m \in Messages : m \in All
    BY <1>1 DEF Forward, Types, All
  <2>2. acks' = IF acked THEN [acks EXCEPT ![s] = [acks[s] EXCEPT ![f.payload] = @ + 1]] ELSE acks
    BY DEF FinishProcessing, Acknowledge
  <2> HIDE DEF f
  <2> QED
    BY <2>1, <2>2
<1>5. /\ taken \subseteq f.numbers /\ failed \subseteq failed'
      /\ f.payload \in Messages \ failed' => taken = f.numbers /\ acked
  BY DEF FinishProcessing, PassOn, NoteUnless
<1> QED
  BY <1>1, <1>2, <1>3, <1>4, <1>5 DEF FinishProcessing, senderVars

LEMMA NextRead == Types /\ ReadInv /\ [Next]_vars => ReadInv'
<1> SUFFICES ASSUME Types, ReadInv, [Next]_vars PROVE ReadInv'
  OBVIOUS
<1> DEFINE Inside(r) ==
      r # Idle => /\ r.index = FieldsSize(r.n) /\ r.index < r.msg.len
                  /\ r.n <= r.msg.count
<1>1. ASSUME rx' = rx PROVE ReadInv'
  BY <1>1 DEF ReadInv
<1>2. ASSUME NEW s \in Peers, \A t \in Peers : t # s => rx'[t] = rx[t], Inside(rx'[s])
      PROVE  ReadInv'
  BY <1>2 DEF ReadInv
<1>3. ASSUME NEW s \in Peers, StartProcessing(s) PROVE ReadInv'
  <2> DEFINE f == Head(wire[s])
  <2>1. /\ f \in Forward /\ \A t \in Peers : t # s => rx'[t] = rx[t]
        /\ f.len <= MaxForwardSize /\ LongEnough(f) =>
             rx'[s] # Idle /\ rx'[s].msg = f /\ rx'[s].n = 0 /\ rx'[s].index = 6
        /\ ~(f.len <= MaxForwardSize /\ LongEnough(f)) => rx' = rx
    BY <1>3, Started
  <2>2. f.len \in Nat /\ f.count \in Nat
    BY <2>1 DEF Forward
  <2> HIDE DEF f
  <2>3. CASE f.len <= MaxForwardSize /\ LongEnough(f)
    <3>1. f.len >= 7
      BY <2>2, <2>3, MinimumNeverSmall DEF LongEnough
    <3>2. FieldsSize(0) = 6
      BY Offsets
    <3>3. /\ rx'[s].msg.len = f.len /\ rx'[s].msg.count = f.count
          /\ rx'[s].n = 0 /\ rx'[s].index = 6
      BY <2>1, <2>3
    <3>4. Inside(rx'[s])
      BY <2>2, <3>1, <3>2, <3>3
    <3> QED
      BY <1>2, <2>1, <3>4
  <2>4. CASE ~(f.len <= MaxForwardSize /\ LongEnough(f))
    BY <1>1, <2>1, <2>4
  <2> QED
    BY <2>3, <2>4
<1>4. ASSUME NEW s \in Peers, ReadHandle(s) PROVE ReadInv'
  <2>1. /\ rx[s] \in Reading /\ rx[s] # Idle /\ rx'[s] # Idle
        /\ rx'[s].msg = rx[s].msg /\ rx'[s].n = rx[s].n + 1 
        /\ rx'[s].index = rx[s].index + NumberBytes
        /\ \A t \in Peers : t # s => rx'[t] = rx[t]
    BY <1>4, ReadNumber
  <2>2. rx[s].n \in Nat /\ rx[s].msg.count \in Nat
    BY <2>1 DEF Reading, Forward
  <2>3. rx[s].n < rx[s].msg.count /\ rx[s].index + NumberBytes < rx[s].msg.len
    BY <1>4 DEF ReadHandle, HasRoom
  <2>4. rx[s].index = FieldsSize(rx[s].n)
    BY <2>1 DEF ReadInv
  <2>5. FieldsSize(rx[s].n + 1) = FieldsSize(rx[s].n) + NumberBytes
    BY <2>2, Offsets
  <2>6. rx[s].n + 1 <= rx[s].msg.count
    BY <2>2, <2>3
  <2>7. Inside(rx'[s])
    BY <2>1, <2>3, <2>4, <2>5, <2>6
  <2> QED
    BY <1>2, <2>1, <2>7
<1>5. ASSUME NEW s \in Peers, ReadHandleRefused(s) \/ ReadHandleFails(s) PROVE ReadInv'
  <2>1. rx'[s] = Idle /\ \A t \in Peers : t # s => rx'[t] = rx[t]
    BY <1>5, ReceiverChange DEF ReadHandleRefused, ReadHandleFails
  <2> QED
    BY <1>2, <2>1
<1>6. ASSUME NEW s \in Peers, NEW taken, NEW acked, FinishProcessing(s, taken, acked) PROVE ReadInv'
  <2>1. rx'[s] = Idle /\ \A t \in Peers : t # s => rx'[t] = rx[t]
    BY <1>6, Finished
  <2> QED
    BY <1>2, <2>1
<1>7. CASE \E m \in Messages : Sender(m)
  BY <1>1, <1>7 DEF Sender, Send, CreateLocal, CreateFails, CreateForward, ForwardRefused
<1>8. CASE \E x \in Strangers : Stranger(x)
  BY <1>1, <1>8 DEF Stranger, ReceiveStrange
<1>9. ASSUME NEW s \in Peers, Lose(s) PROVE ReadInv'
  BY <1>1, <1>9 DEF Lose
<1>10. CASE UNCHANGED vars
  BY <1>1, <1>10 DEF vars
<1> QED
  BY <1>3, <1>4, <1>5, <1>6, <1>7, <1>8, <1>9, <1>10 DEF Next, Receiver

-------------------------------------------------------------------------------
(* Sending and delivering                                                    *)

\* What a sender that gives up handles does to the rest: it shrinks todo.
Shrinks(m) ==
    /\ todo' \in [Messages -> SUBSET Handles] /\ todo'[m] \subseteq todo[m]
    /\ \A k \in Messages : k # m => todo'[k] = todo[k]
    /\ UNCHANGED <<size, targets>>

LEMMA Creates ==
    ASSUME Types, NEW m \in Messages, NEW s, NEW chunk,
           \/ CreateLocal(m, chunk) \/ CreateFails(m, s) \/ CreateForward(m, s, chunk)
           \/ ForwardRefused(m, s, chunk)
    PROVE  Shrinks(m)
<1>1. \E T \in SUBSET Handles : todo' = [todo EXCEPT ![m] = @ \ T] /\ UNCHANGED <<size, targets>>
  <2>1. todo[m] \in SUBSET Handles /\ \A t : HandlesAt(m, t) \in SUBSET Handles
    BY DEF Types, HandlesAt
  <2>2. CASE CreateLocal(m, chunk)
    BY <2>1, <2>2 DEF CreateLocal, EraseChunk
  <2>3. CASE CreateFails(m, s)
    BY <2>1, <2>3 DEF CreateFails
  <2>4. CASE CreateForward(m, s, chunk)
    <3>1. chunk \in SUBSET Handles
      BY <2>1, <2>4 DEF CreateForward, IsChunk
    <3> QED
      BY <2>1, <2>4, <3>1 DEF CreateForward, EraseChunk
  <2>5. CASE ForwardRefused(m, s, chunk)
    <3>1. chunk \in SUBSET Handles
      BY <2>1, <2>5 DEF ForwardRefused, IsChunk
    <3> QED
      BY <2>1, <2>5, <3>1 DEF ForwardRefused, EraseChunk
  <2> QED
    BY <2>2, <2>3, <2>4, <2>5
<1> QED
  BY <1>1 DEF Types, Shrinks

\* What delivering to the local clients does.
LEMMA Locally ==
    ASSUME Types, NEW m \in Messages, NEW taken, CreateLocal(m, taken)
    PROVE  /\ \A k \in Messages, h \in Handles :
                 delivered'[k][h] = IF k = m /\ h \in taken
                                    THEN delivered[k][h] + 1 ELSE delivered[k][h]
           /\ todo'[m] = todo[m] \ HandlesAt(m, Local)
           /\ taken \subseteq HandlesAt(m, Local) /\ failed \subseteq failed'
           /\ m \notin failed' => taken = HandlesAt(m, Local)
           /\ UNCHANGED <<size, targets, wire, rx, acks>>
<1>1. delivered' = Served(delivered, m, taken)
  BY DEF CreateLocal, Deliver, Served
<1>2. delivered \in [Messages -> [Handles -> Nat]]
  BY DEF Types
<1>3. \A k \in Messages, h \in Handles :
        delivered'[k][h] = IF k = m /\ h \in taken
                           THEN delivered[k][h] + 1 ELSE delivered[k][h]
  BY <1>1, <1>2, OneMore
<1>4. /\ taken \subseteq HandlesAt(m, Local) /\ failed \subseteq failed'
      /\ m \notin failed' => taken = HandlesAt(m, Local)
  BY DEF CreateLocal, NoteUnless
<1> QED
  BY <1>3, <1>4 DEF CreateLocal, EraseChunk, Types

LEMMA NextSender == Types /\ WayInv /\ SenderInv /\ [Next]_vars => SenderInv'
<1> SUFFICES ASSUME Types, WayInv, SenderInv, [Next]_vars PROVE SenderInv'
  OBVIOUS
<1>0. MaxPayload \in Nat
  BY Constants
<1>1. ASSUME NEW m \in Messages, NEW n \in 1..MaxPayload, NEW handles \in SUBSET Handles,
             Send(m, handles, n)
      PROVE  SenderInv'
  <2>1. /\ size'[m] = n /\ targets'[m] = handles /\ todo'[m] = handles /\ size[m] = 0
        /\ \A k \in Messages : k # m =>
              size'[k] = size[k] /\ targets'[k] = targets[k] /\ todo'[k] = todo[k]
        /\ delivered' = delivered
    BY <1>1 DEF Send, Types, All
  <2>2. \A h \in Handles : delivered[m][h] = 0
    BY <2>1 DEF SenderInv
  <2>3. n # 0 /\ n <= MaxPayload
    BY <1>0
  <2> QED
    BY <2>1, <2>2, <2>3 DEF SenderInv
<1>2. ASSUME NEW m \in Messages, Shrinks(m), delivered' = delivered PROVE SenderInv'
  BY <1>2 DEF Shrinks, SenderInv
<1>3. ASSUME NEW m \in Messages, NEW taken, CreateLocal(m, taken) PROVE SenderInv'
  <2>1. Shrinks(m)
    BY <1>3, Creates
  <2>2. /\ \A k \in Messages, h \in Handles :
              delivered'[k][h] = IF k = m /\ h \in taken
                                 THEN delivered[k][h] + 1 ELSE delivered[k][h]
        /\ todo'[m] = todo[m] \ HandlesAt(m, Local) /\ taken \subseteq HandlesAt(m, Local)
    BY <1>3, Locally
  <2>3. \A h \in HandlesAt(m, Local) :
          h \in Handles /\ h \in todo[m] /\ h \in targets[m] /\ delivered[m][h] = 0
    BY DEF HandlesAt, SenderInv, Types
  <2> SUFFICES ASSUME NEW k \in Messages
               PROVE  (/\ size[k] <= MaxPayload
                       /\ size[k] = 0 => /\ targets[k] = {} 
                                         /\ \A h \in Handles : delivered[k][h] = 0
                       /\ todo[k] \subseteq targets[k]
                       /\ \A h \in todo[k] : delivered[k][h] = 0
                       /\ \A h \in Handles : /\ delivered[k][h] <= 1
                                             /\ delivered[k][h] = 1 => h \in targets[k])'
    BY DEF SenderInv
  <2>4. CASE k # m
    BY <2>1, <2>2, <2>4 DEF Shrinks, SenderInv, Types
  <2>5. CASE k = m
    <3>1. size[m] = 0 => HandlesAt(m, Local) = {}
      BY <2>3 DEF SenderInv
    <3>2. size'[m] = 0 => /\ targets'[m] = {} 
                          /\ \A h \in Handles : delivered'[m][h] = 0
      BY <2>1, <2>2, <3>1 DEF Shrinks, SenderInv
    <3>3. \A h \in todo'[m] : delivered'[m][h] = 0
      BY <2>2 DEF SenderInv, Types
    <3>4. \A h \in Handles : delivered'[m][h] <= 1 /\ (delivered'[m][h] = 1 => h \in targets'[m])
      BY <2>1, <2>2, <2>3 DEF SenderInv, Types, Shrinks
    <3> QED
      BY <2>1, <2>5, <3>2, <3>3, <3>4 DEF Shrinks, SenderInv
  <2> QED
    BY <2>4, <2>5
<1>4. ASSUME NEW m \in Messages, NEW s, CreateFails(m, s) PROVE SenderInv'
  BY <1>2, <1>4, Creates DEF CreateFails
<1>5. ASSUME NEW m \in Messages, NEW s \in Peers, NEW chunk \in SUBSET HandlesAt(m, s),
             CreateForward(m, s, chunk) \/ ForwardRefused(m, s, chunk)
      PROVE  SenderInv'
  BY <1>2, <1>5, Creates DEF CreateForward, ForwardRefused
<1>6. ASSUME NEW x \in Strangers, NEW s \in Peers, NEW n \in StrangeCounts,
             NEW len \in 1..MaxForwardSize, ReceiveStrange(x, s, n, len)
      PROVE  SenderInv'
  <2>1. \A m \in Messages : size'[m] = size[m]
    BY <1>6, Constants DEF ReceiveStrange, Types, All
  <2> QED
    BY <1>6, <2>1 DEF ReceiveStrange, SenderInv
<1>7. ASSUME UNCHANGED <<senderVars, delivered>> PROVE SenderInv'
  BY <1>7 DEF senderVars, SenderInv
<1>8. ASSUME NEW s \in Peers, NEW taken, NEW acked, FinishProcessing(s, taken, acked) PROVE SenderInv'
  <2> DEFINE f == rx[s].msg
  <2>1. /\ rx[s] # Idle /\ f \in Forward
        /\ \A m \in Messages, h \in Handles :
              delivered'[m][h] = IF m = f.payload /\ h \in taken
                                 THEN delivered[m][h] + 1 ELSE delivered[m][h]
        /\ taken \subseteq f.numbers
        /\ UNCHANGED <<size, targets, todo, wire>>
    BY <1>8, Finished
  <2>2. Sound(f, s)
    BY <2>1 DEF WayInv, Way
  <2> HIDE DEF f
  <2> SUFFICES ASSUME NEW k \in Messages
               PROVE  (/\ size[k] <= MaxPayload
                       /\ size[k] = 0 => /\ targets[k] = {} 
                                         /\ \A h \in Handles : delivered[k][h] = 0
                       /\ todo[k] \subseteq targets[k]
                       /\ \A h \in todo[k] : delivered[k][h] = 0
                       /\ \A h \in Handles : /\ delivered[k][h] <= 1
                                             /\ delivered[k][h] = 1 => h \in targets[k])'
    BY DEF SenderInv
  <2>3. CASE k # f.payload
    BY <2>1, <2>3 DEF SenderInv, Types
  <2>4. CASE k = f.payload
    <3>1. /\ size[k] # 0 /\ f.numbers \subseteq targets[k]
          /\ \A h \in f.numbers : h \notin todo[k] /\ delivered[k][h] = 0
      BY <2>2, <2>4 DEF Sound, Types, All
    <3>2. /\ \A h \in taken : h \in targets[k] /\ h \notin todo[k] /\ delivered[k][h] = 0
          /\ \A h \in Handles :
                delivered'[k][h] = IF h \in taken THEN delivered[k][h] + 1 ELSE delivered[k][h]
      BY <2>1, <2>4, <3>1
    <3>3. todo[k] \subseteq Handles
      BY DEF Types
    <3>4. \A h \in todo'[k] : delivered'[k][h] = 0
      BY <2>1, <3>2, <3>3 DEF SenderInv
    <3>5. \A h \in Handles : delivered'[k][h] <= 1 /\ (delivered'[k][h] = 1 => h \in targets'[k])
      BY <2>1, <3>2 DEF SenderInv
    <3> QED
      BY <2>1, <3>1, <3>4, <3>5 DEF SenderInv
  <2> QED
    BY <2>3, <2>4
<1>9. ASSUME NEW s \in Peers, Lose(s) \/ StartProcessing(s) \/ ReadHandle(s) \/ ReadHandleRefused(s)
                                \/ ReadHandleFails(s)
      PROVE  SenderInv'
  BY <1>7, <1>9 DEF Lose, StartProcessing, ReadHandle, ReadHandleRefused, ReadHandleFails
<1>10. CASE UNCHANGED vars
  BY <1>7, <1>10 DEF vars, senderVars
<1> QED
  BY <1>1, <1>3, <1>4, <1>5, <1>6, <1>8, <1>9, <1>10 DEF Next, Sender, Stranger, Receiver

-------------------------------------------------------------------------------
(* On the way                                                                *)

\* A step that leaves the message, its targets and their deliveries alone.
LEMMA SoundKept ==
    ASSUME NEW f, NEW s, Sound(f, s),
           f.payload \in Messages =>
              /\ size'[f.payload] = size[f.payload] /\ targets'[f.payload] = targets[f.payload]
              /\ todo'[f.payload] \subseteq todo[f.payload]
              /\ \A h \in f.numbers : delivered'[f.payload][h] = delivered[f.payload][h]
    PROVE  Sound(f, s)'
BY DEF Sound

Queued(f, s) == \E i \in 1..Len(wire[s]) : f = wire[s][i]
Read(f, s) == rx[s] # Idle /\ f = rx[s].msg

\* One that leaves the queue alone, and the request or ends it.
LEMMA WayKept ==
    ASSUME NEW s \in Peers, Way(s), wire'[s] = wire[s],
           rx'[s] = Idle \/ (rx[s] # Idle /\ rx'[s].msg = rx[s].msg),
           \A f : Queued(f, s) => Sound(f, s)',
           rx'[s] # Idle => \A f : Read(f, s) => Sound(f, s)'
    PROVE  Way(s)'
<1>1. \A i \in 1..Len(wire'[s]) : Sound(wire[s][i], s)'
  BY DEF Sound, Queued
<1>2. rx'[s] # Idle => Sound(rx[s].msg, s)'
  BY DEF Sound, Read
<1> QED
  BY <1>1, <1>2 DEF Way, Apart

\* One that appends a forwarded response for handles that are not on the way.
LEMMA WayLonger ==
    ASSUME Types, NEW s \in Peers, Way(s), NEW g \in Forward,
           wire'[s] = Append(wire[s], g), rx'[s] = rx[s],
           Sound(g, s)',
           \A f : Queued(f, s) \/ Read(f, s) => Sound(f, s)' /\ Apart(f, g)
    PROVE  Way(s)'
<1>1. /\ wire[s] \in Seq(Forward) /\ Len(wire'[s]) = Len(wire[s]) + 1 /\ Len(wire[s]) \in Nat
      /\ \A i \in 1..Len(wire[s]) : wire'[s][i] = wire[s][i]
      /\ wire'[s][Len(wire[s]) + 1] = g
  BY Queues DEF Types
<1>2. \A i \in 1..Len(wire'[s]) : Sound(wire[s][i], s)'
  <2> SUFFICES ASSUME NEW i \in 1..Len(wire'[s]) PROVE Sound(wire[s][i], s)'
    OBVIOUS
  <2>1. CASE i = Len(wire[s]) + 1
    BY <1>1, <2>1 DEF Sound
  <2>2. CASE i # Len(wire[s]) + 1
    <3>1. i \in 1..Len(wire[s]) /\ wire'[s][i] = wire[s][i]
      BY <1>1, <2>2
    <3> QED
      BY <3>1 DEF Sound, Queued
  <2> QED
    BY <2>1, <2>2
<1>3. \A i \in 1..Len(wire[s]) : Apart(wire[s][i], g) /\ Apart(g, wire[s][i])
  BY DEF Queued, Apart
<1>4. \A i, j \in 1..Len(wire'[s]) : i # j => Apart(wire[s][i], wire[s][j])'
  <2> SUFFICES ASSUME NEW i \in 1..Len(wire'[s]), NEW j \in 1..Len(wire'[s]), i # j
               PROVE  Apart(wire'[s][i], wire'[s][j])
    BY DEF Apart
  <2>1. i \in 1..Len(wire[s]) \/ i = Len(wire[s]) + 1
    BY <1>1
  <2>2. j \in 1..Len(wire[s]) \/ j = Len(wire[s]) + 1
    BY <1>1
  <2> QED
    BY <1>1, <1>3, <2>1, <2>2 DEF Way
<1>5. rx'[s] # Idle => /\ Sound(rx[s].msg, s)'
                       /\ \A i \in 1..Len(wire'[s]) : Apart(rx[s].msg, wire[s][i])'
  <2> SUFFICES ASSUME rx[s] # Idle
               PROVE  /\ Sound(rx[s].msg, s)'
                      /\ \A i \in 1..Len(wire'[s]) : Apart(rx[s].msg, wire'[s][i])
    BY DEF Apart
  <2>1. Sound(rx[s].msg, s)' /\ Apart(rx[s].msg, g)
    BY DEF Read, Sound
  <2>2. \A i \in 1..Len(wire[s]) : Apart(rx[s].msg, wire[s][i])
    BY DEF Way
  <2> QED
    BY <1>1, <2>1, <2>2
<1> QED
  BY <1>2, <1>4, <1>5 DEF Way

\* One that takes the first forwarded response, for the receiver or to lose it.
LEMMA WayShorter ==
    ASSUME Types, NEW s \in Peers, Way(s), wire[s] # <<>>, wire'[s] = Tail(wire[s]),
           rx'[s] = rx[s] \/ rx'[s].msg = Head(wire[s]),
           UNCHANGED <<size, targets, todo, delivered>>
    PROVE  Way(s)'
<1>1. /\ wire[s] \in Seq(Forward) /\ Len(wire'[s]) = Len(wire[s]) - 1
      /\ Len(wire[s]) \in Nat /\ Len(wire[s]) > 0
      /\ \A i \in 1..(Len(wire[s]) - 1) : wire'[s][i] = wire[s][i + 1]
      /\ Head(wire[s]) = wire[s][1]
  BY Queues DEF Types
<1>2. \A f : Sound(f, s) => Sound(f, s)'
  BY DEF Sound
<1>3. \A i \in 1..Len(wire'[s]) : i + 1 \in 1..Len(wire[s]) /\ wire'[s][i] = wire[s][i + 1]
  BY <1>1
<1>4. \A i \in 1..Len(wire'[s]) : Sound(wire[s][i], s)'
  <2> SUFFICES ASSUME NEW i \in 1..Len(wire'[s]) PROVE Sound(wire[s][i], s)'
    OBVIOUS
  <2>1. Sound(wire[s][i + 1], s) /\ wire'[s][i] = wire[s][i + 1]
    BY <1>3 DEF Way
  <2> QED
    BY <1>2, <2>1 DEF Sound
<1>5. \A i, j \in 1..Len(wire'[s]) : i # j => Apart(wire[s][i], wire[s][j])'
  <2> SUFFICES ASSUME NEW i \in 1..Len(wire'[s]), NEW j \in 1..Len(wire'[s]), i # j
               PROVE  Apart(wire'[s][i], wire'[s][j])
    BY DEF Apart
  <2>1. i + 1 # j + 1
    BY <1>1
  <2> QED
    BY <1>3, <2>1 DEF Way
<1>6. rx'[s] # Idle => /\ Sound(rx[s].msg, s)'
                       /\ \A i \in 1..Len(wire'[s]) : Apart(rx[s].msg, wire[s][i])'
  <2> SUFFICES ASSUME rx'[s] # Idle
               PROVE  /\ Sound(rx[s].msg, s)'
                      /\ \A i \in 1..Len(wire'[s]) : Apart(rx'[s].msg, wire'[s][i])
    BY DEF Apart
  <2>1. CASE rx'[s] = rx[s]
    <3>1. Sound(rx[s].msg, s)'
      BY <1>2, <2>1 DEF Way, Sound
    <3> QED
      BY <1>3, <2>1, <3>1 DEF Way
  <2>2. CASE rx'[s].msg = Head(wire[s])
    <3>1. 1 \in 1..Len(wire[s]) /\ \A i \in 1..Len(wire'[s]) : i + 1 # 1
      BY <1>1
    <3>2. Sound(wire[s][1], s) /\ rx'[s].msg = wire[s][1]
      BY <1>1, <2>2, <3>1 DEF Way
    <3>3. Sound(rx[s].msg, s)'
      BY <1>2, <3>2 DEF Sound
    <3>4. \A i \in 1..Len(wire'[s]) : Apart(wire[s][1], wire[s][i + 1])
      BY <1>3, <3>1 DEF Way
    <3> QED
      BY <1>3, <3>2, <3>3, <3>4
  <2> QED
    BY <2>1, <2>2
<1> QED
  BY <1>4, <1>5, <1>6 DEF Way

LEMMA NextWay == Inv /\ [Next]_vars => WayInv'
<1> SUFFICES ASSUME Inv, [Next]_vars PROVE WayInv'
  OBVIOUS
<1> USE DEF Inv
<1>1. ASSUME NEW m \in Messages, NEW n \in 1..MaxPayload, NEW handles \in SUBSET Handles,
             Send(m, handles, n)
      PROVE  WayInv'
  <2>1. /\ size[m] = 0 /\ \A k \in Messages : k # m =>
              size'[k] = size[k] /\ targets'[k] = targets[k] /\ todo'[k] = todo[k]
        /\ delivered' = delivered /\ wire' = wire /\ rx' = rx
    BY <1>1 DEF Send, Types, All
  <2>2. \A f, s : Sound(f, s) => Sound(f, s)'
    <3> SUFFICES ASSUME NEW f, NEW s, Sound(f, s) PROVE Sound(f, s)'
      OBVIOUS
    <3>1. f.payload # m
      BY <2>1 DEF Sound
    <3> QED
      BY <2>1, <3>1, SoundKept
  <2> SUFFICES ASSUME NEW s \in Peers PROVE Way(s)'
    BY DEF WayInv
  <2>3. Way(s)
    BY DEF WayInv
  <2>4. \A f : Queued(f, s) \/ Read(f, s) => Sound(f, s)'
    BY <2>2, <2>3 DEF Way, Queued, Read
  <2> QED
    BY <2>1, <2>3, <2>4, WayKept
<1>2. ASSUME NEW m \in Messages, Shrinks(m), UNCHANGED <<wire, rx, delivered>> PROVE WayInv'
  <2> SUFFICES ASSUME NEW s \in Peers PROVE Way(s)'
    BY DEF WayInv
  <2>1. Way(s)
    BY DEF WayInv
  <2>2. \A f : Sound(f, s) => Sound(f, s)'
    BY <1>2, SoundKept DEF Shrinks
  <2>3. \A f : Queued(f, s) \/ Read(f, s) => Sound(f, s)'
    BY <2>1, <2>2 DEF Way, Queued, Read
  <2> QED
    BY <1>2, <2>1, <2>3, WayKept
<1>3. ASSUME NEW m \in Messages, NEW taken, CreateLocal(m, taken) PROVE WayInv'
  <2>1. Shrinks(m)
    BY <1>3, Creates
  <2>2. /\ \A k \in Messages, h \in Handles :
              delivered'[k][h] = IF k = m /\ h \in taken
                                 THEN delivered[k][h] + 1 ELSE delivered[k][h]
        /\ taken \subseteq HandlesAt(m, Local)
        /\ UNCHANGED <<wire, rx>>
    BY <1>3, Locally
  <2> SUFFICES ASSUME NEW s \in Peers PROVE Way(s)'
    BY DEF WayInv
  <2>3. Way(s)
    BY DEF WayInv
  <2>4. ASSUME NEW f, Sound(f, s) PROVE Sound(f, s)'
    <3> SUFFICES ASSUME f.payload \in Messages PROVE Sound(f, s)'
      BY DEF Sound
    <3>1. \A h \in f.numbers : h \in Handles /\ h \notin HandlesAt(m, Local)
      BY <2>4 DEF Sound, HandlesAt, Peers, Types
    <3>2. \A h \in f.numbers : delivered'[f.payload][h] = delivered[f.payload][h]
      BY <2>2, <3>1
    <3> QED
      BY <2>1, <2>4, <3>2, SoundKept DEF Shrinks
  <2>5. \A f : Queued(f, s) \/ Read(f, s) => Sound(f, s)'
    BY <2>3, <2>4 DEF Way, Queued, Read
  <2> QED
    BY <2>2, <2>3, <2>5, WayKept
<1>4. ASSUME NEW m \in Messages, NEW s, CreateFails(m, s) PROVE WayInv'
  BY <1>2, <1>4, Creates DEF CreateFails
<1>5. ASSUME NEW m \in Messages, NEW s \in Peers, NEW chunk \in SUBSET HandlesAt(m, s),
             ForwardRefused(m, s, chunk)
      PROVE  WayInv'
  BY <1>2, <1>5, Creates DEF ForwardRefused
<1>6. ASSUME NEW m \in Messages, NEW s \in Peers, NEW chunk \in SUBSET HandlesAt(m, s),
             CreateForward(m, s, chunk)
      PROVE  WayInv'
  <2>1. Shrinks(m)
    BY <1>6, Creates
  <2>2. CASE ~(Construct(m, chunk).len <= MaxForwardSize)
    BY <1>2, <1>6, <2>1, <2>2 DEF CreateForward
  <2>3. CASE Construct(m, chunk).len <= MaxForwardSize
    <3> DEFINE c == Construct(m, chunk)
    <3>1. /\ chunk \subseteq todo[m] /\ chunk \subseteq Handles /\ chunk # {}
          /\ \A h \in chunk : ServerOf[h] = s
          /\ Cardinality(chunk) <= MaxHandles
          /\ c \in Forward
          /\ c.len = FieldsSize(Cardinality(chunk)) + size[m]
          /\ c.count = Cardinality(chunk) /\ c.numbers = chunk /\ c.payload = m
          /\ c.payloadAt = FieldsSize(Cardinality(chunk))
      BY <1>6, Constructed DEF CreateForward
    <3>2. wire' = [wire EXCEPT ![s] = Append(wire[s], c)] /\ todo' = [todo EXCEPT ![m] = @ \ chunk]
      BY <1>6, <2>3 DEF CreateForward, EraseChunk
    <3> SUFFICES ASSUME NEW g \in Forward, g = c PROVE WayInv'
      BY <3>1
    <3> HIDE DEF c
    <3>3. Append(wire[s], g) \in Seq(Forward)
      BY Queues DEF Types
    <3>4. wire'[s] = Append(wire[s], g) /\ \A t \in Peers : t # s => wire'[t] = wire[t]
      BY <3>2, <3>3, QueueChange
    <3>5. todo'[m] = todo[m] \ chunk /\ UNCHANGED <<size, targets, rx, delivered>>
      BY <1>6, <3>2 DEF CreateForward, Types
    <3>6. size[m] > 0 /\ todo[m] \subseteq targets[m] /\ \A h \in todo[m] : delivered[m][h] = 0
      <4>1. todo[m] \subseteq targets[m] /\ \A h \in todo[m] : delivered[m][h] = 0
        BY DEF SenderInv
      <4>2. size[m] \in Nat /\ size[m] # 0
        BY <3>1, <4>1 DEF SenderInv, Types, All
      <4> QED
        BY <4>1, <4>2
    <3>7. Sound(g, s)'
      BY <3>1, <3>5, <3>6 DEF Sound
    <3>8. \A f, t : Sound(f, t) => Sound(f, t)'
      BY <2>1, <3>5, SoundKept DEF Shrinks
    <3>9. \A f : Sound(f, s) => Apart(f, g)
      BY <3>1 DEF Sound, Apart
    <3>10. ASSUME NEW t \in Peers PROVE Way(t)'
      <4>1. Way(t)
        BY DEF WayInv
      <4>2. \A f : Queued(f, t) \/ Read(f, t) => Sound(f, t)
        BY <4>1 DEF Way, Queued, Read
      <4>3. CASE t = s
        BY <3>4, <3>5, <3>7, <3>8, <3>9, <4>1, <4>2, <4>3, WayLonger
      <4>4. CASE t # s
        BY <3>4, <3>5, <3>8, <4>1, <4>2, <4>4, WayKept
      <4> QED
        BY <4>3, <4>4
    <3> QED
      BY <3>10 DEF WayInv
  <2> QED
    BY <2>2, <2>3
<1>7. ASSUME NEW x \in Strangers, NEW s \in Peers, NEW n \in StrangeCounts,
             NEW len \in 1..MaxForwardSize, ReceiveStrange(x, s, n, len)
      PROVE  WayInv'
  <2> DEFINE g == [len |-> len, count |-> n, numbers |-> {}, payload |-> x, payloadAt |-> 0]
  <2>1. g \in Forward /\ g.payload = x /\ g.numbers = {} /\ x \notin Messages
    BY Constants, Offsets DEF Forward, All
  <2>2. wire' = [wire EXCEPT ![s] = Append(wire[s], g)]
    BY <1>7 DEF ReceiveStrange
  <2> HIDE DEF g
  <2>3. Append(wire[s], g) \in Seq(Forward)
    BY <2>1, Queues DEF Types
  <2>4. wire'[s] = Append(wire[s], g) /\ \A t \in Peers : t # s => wire'[t] = wire[t]
    BY <2>2, <2>3, QueueChange
  <2>5. /\ \A m \in Messages : size'[m] = size[m]
        /\ UNCHANGED <<targets, todo, delivered, rx>>
    BY <1>7, <2>1 DEF ReceiveStrange, Types, All
  <2>6. \A f, t : Sound(f, t) => Sound(f, t)'
    BY <2>5, SoundKept
  <2>7. Sound(g, s)' /\ \A f : Apart(f, g)
    BY <2>1 DEF Sound, Apart
  <2>8. ASSUME NEW t \in Peers PROVE Way(t)'
    <3>1. Way(t)
      BY DEF WayInv
    <3>2. \A f : Queued(f, t) \/ Read(f, t) => Sound(f, t)
      BY <3>1 DEF Way, Queued, Read
    <3>3. CASE t = s
      BY <2>1, <2>4, <2>5, <2>6, <2>7, <3>1, <3>2, <3>3, WayLonger
    <3>4. CASE t # s
      BY <2>4, <2>5, <2>6, <3>1, <3>2, <3>4, WayKept
    <3> QED
      BY <3>3, <3>4
  <2> QED
    BY <2>8 DEF WayInv
<1>8. ASSUME NEW s \in Peers, wire[s] # <<>>, wire'[s] = Tail(wire[s]),
             rx'[s] = rx[s] \/ rx'[s].msg = Head(wire[s]),
             \A t \in Peers : t # s => wire'[t] = wire[t] /\ rx'[t] = rx[t],
             UNCHANGED <<size, targets, todo, delivered>>
      PROVE  WayInv'
  <2>1. \A f, t : Sound(f, t) => Sound(f, t)'
    BY <1>8 DEF Sound
  <2>2. ASSUME NEW t \in Peers PROVE Way(t)'
    <3>1. Way(t)
      BY DEF WayInv
    <3>2. \A f : Queued(f, t) \/ Read(f, t) => Sound(f, t)
      BY <3>1 DEF Way, Queued, Read
    <3>3. CASE t = s
      BY <1>8, <3>1, <3>3, WayShorter
    <3>4. CASE t # s
      BY <1>8, <2>1, <3>1, <3>2, <3>4, WayKept
    <3> QED
      BY <3>3, <3>4
  <2> QED
    BY <2>2 DEF WayInv
<1>9. ASSUME NEW s \in Peers, Lose(s) PROVE WayInv'
  <2>1. wire[s] # <<>> /\ Tail(wire[s]) \in Seq(Forward) /\ wire' = [wire EXCEPT ![s] = Tail(wire[s])]
    BY <1>9, Queues DEF Lose, Types
  <2>2. wire'[s] = Tail(wire[s]) /\ \A t \in Peers : t # s => wire'[t] = wire[t]
    BY <2>1, QueueChange
  <2> QED
    BY <1>8, <1>9, <2>1, <2>2 DEF Lose, senderVars
<1>10. ASSUME NEW s \in Peers, StartProcessing(s) PROVE WayInv'
  <2>1. /\ wire[s] # <<>> /\ wire'[s] = Tail(wire[s])
        /\ \A t \in Peers : t # s => wire'[t] = wire[t] /\ rx'[t] = rx[t]
        /\ rx'[s] = rx[s] \/ rx'[s].msg = Head(wire[s])
        /\ UNCHANGED <<size, targets, todo, delivered>>
    BY <1>10, Started
  <2> QED
    BY <1>8, <2>1
<1>11. ASSUME NEW s \in Peers, wire' = wire,
              \A t \in Peers : t # s => rx'[t] = rx[t],
              rx'[s] = Idle \/ (rx[s] # Idle /\ rx'[s].msg = rx[s].msg),
              UNCHANGED <<size, targets, todo, delivered>>
       PROVE  WayInv'
  <2>1. \A f, t : Sound(f, t) => Sound(f, t)'
    BY <1>11 DEF Sound
  <2>2. ASSUME NEW t \in Peers PROVE Way(t)'
    <3>1. Way(t)
      BY DEF WayInv
    <3>2. \A f : Queued(f, t) \/ Read(f, t) => Sound(f, t)
      BY <3>1 DEF Way, Queued, Read
    <3>3. rx'[t] = Idle \/ (rx[t] # Idle /\ rx'[t].msg = rx[t].msg)
      BY <1>11
    <3> QED
      BY <1>11, <2>1, <3>1, <3>2, <3>3, WayKept
  <2> QED
    BY <2>2 DEF WayInv
<1>12. ASSUME NEW s \in Peers, ReadHandle(s) PROVE WayInv'
  BY <1>11, <1>12, ReadNumber
<1>13. ASSUME NEW s \in Peers, ReadHandleRefused(s) \/ ReadHandleFails(s) PROVE WayInv'
  <2>1. rx'[s] = Idle /\ \A t \in Peers : t # s => rx'[t] = rx[t]
    BY <1>13, ReceiverChange DEF ReadHandleRefused, ReadHandleFails
  <2> QED
    BY <1>11, <1>13, <2>1 DEF ReadHandleRefused, ReadHandleFails, senderVars
<1>14. ASSUME NEW s \in Peers, NEW taken, NEW acked, FinishProcessing(s, taken, acked) PROVE WayInv'
  <2> DEFINE g == rx[s].msg
  <2>1. /\ rx[s] # Idle /\ g \in Forward
        /\ rx'[s] = Idle /\ \A t \in Peers : t # s => rx'[t] = rx[t]
        /\ \A m \in Messages, h \in Handles :
              delivered'[m][h] = IF m = g.payload /\ h \in taken
                                 THEN delivered[m][h] + 1 ELSE delivered[m][h]
        /\ taken \subseteq g.numbers
        /\ UNCHANGED <<size, targets, todo, wire>>
    BY <1>14, Finished
  <2>2. Sound(g, s) /\ \A f : Queued(f, s) => Apart(f, g)
    BY <2>1 DEF WayInv, Way, Queued, Apart
  <2> HIDE DEF g
  <2>3. ASSUME NEW f, NEW t \in Peers, Sound(f, t), t # s \/ Apart(f, g) PROVE Sound(f, t)'
    <3> SUFFICES ASSUME f.payload \in Messages PROVE Sound(f, t)'
      BY DEF Sound
    <3>1. ASSUME NEW h \in f.numbers, f.payload = g.payload, h \in g.numbers PROVE FALSE
      BY <2>2, <2>3, <3>1 DEF Sound, Apart
    <3>2. \A h \in f.numbers : h \in Handles
      BY <2>3 DEF Sound, Types
    <3>3. \A h \in f.numbers : delivered'[f.payload][h] = delivered[f.payload][h]
      BY <2>1, <3>1, <3>2
    <3> QED
      BY <2>1, <2>3, <3>3, SoundKept
  <2>4. ASSUME NEW t \in Peers PROVE Way(t)'
    <3>1. Way(t)
      BY DEF WayInv
    <3>2. \A f : Queued(f, t) \/ Read(f, t) => Sound(f, t)
      BY <3>1 DEF Way, Queued, Read
    <3>3. CASE t = s
      BY <2>1, <2>2, <2>3, <3>1, <3>2, <3>3, WayKept
    <3>4. CASE t # s
      BY <2>1, <2>3, <3>1, <3>2, <3>4, WayKept
    <3> QED
      BY <3>3, <3>4
  <2> QED
    BY <2>4 DEF WayInv
<1>15. CASE UNCHANGED vars
  BY <1>15 DEF vars, WayInv, Way, Sound, Apart
<1> QED
  BY <1>1, <1>3, <1>4, <1>5, <1>6, <1>7, <1>9, <1>10, <1>12, <1>13, <1>14, <1>15
  DEF Next, Sender, Stranger, Receiver

-------------------------------------------------------------------------------
(* What this shows                                                           *)

LEMMA Invariant == Spec => []Inv
<1>1. Inv /\ [Next]_vars => Inv'
  BY NextTypes, NextRead, NextSender, NextWay DEF Inv
<1> QED
  BY InitInv, <1>1, PTL DEF Spec

\* Whatever number of handles a request claims to hold, a peer reads inside the request and
\* leaves at least a byte for the response (RequestProcessor_ForwardedResponses::
\* ProcessRequest).
THEOREM ReadInsideCorrect == Spec => []HandlesReadInside
<1>1. Inv => HandlesReadInside
  BY Receivers DEF Inv, ReadInv, HandlesReadInside
<1> QED
  BY Invariant, <1>1, PTL

\* What a peer delivers begins where the sender put the response and is as long.
THEOREM PayloadCorrect == Spec => []PayloadIntact
<1>1. Inv => PayloadIntact
  <2> SUFFICES ASSUME Inv, NEW s \in Peers, rx[s].reading, rx[s].n = rx[s].msg.count,
                      rx[s].msg.payload \in Messages
               PROVE  /\ rx[s].index = rx[s].msg.payloadAt
                      /\ rx[s].msg.len - rx[s].index = size[rx[s].msg.payload]
    BY DEF PayloadIntact
  <2> DEFINE f == rx[s].msg
  <2>1. rx[s] # Idle /\ f \in Forward
    BY Receivers DEF Inv
  <2>2. Sound(f, s) /\ rx[s].index = FieldsSize(f.count)
    BY <2>1 DEF Inv, WayInv, Way, ReadInv
  <2>3. f.count \in Nat /\ size[f.payload] \in Nat
    BY <2>1 DEF Inv, Types, Forward, All
  <2>4. FieldsSize(f.count) \in Nat
    BY <2>3, Offsets
  <2>5. f.payloadAt = FieldsSize(f.count) /\ f.len = FieldsSize(f.count) + size[f.payload]
    BY <2>2 DEF Sound
  <2> QED
    BY <2>2, <2>3, <2>4, <2>5
<1> QED
  BY Invariant, <1>1, PTL

\* No handle gets a message twice, and none gets one that was not sent to it
\* (CreateResponseAndAddToQueues erases the handles it has served).
THEOREM AtMostOnceCorrect == Spec => []DeliveredAtMostOnce
<1>1. Inv => DeliveredAtMostOnce
  <2> SUFFICES ASSUME Inv, NEW m \in Messages, NEW h \in Handles
               PROVE  delivered[m][h] <= IF h \in targets[m] THEN 1 ELSE 0
    BY DEF DeliveredAtMostOnce
  <2>1. delivered[m][h] \in Nat /\ delivered[m][h] <= 1 /\ (delivered[m][h] = 1 => h \in targets[m])
    BY DEF Inv, Types, SenderInv
  <2> QED
    BY <2>1
<1> QED
  BY Invariant, <1>1, PTL

-------------------------------------------------------------------------------
(* Nothing is refused                                                        *)

\* A response the framework constructed fits, and its handles are all there.
LEMMA NeverRefused ==
    ASSUME Inv, NEW s \in Peers, NEW f \in Forward, Sound(f, s), f.payload \in Messages
    PROVE  /\ f.len <= MaxForwardSize /\ LongEnough(f)
           /\ \A n \in Nat : n < f.count => FieldsSize(n) + NumberBytes < f.len
<1>1. /\ f.count \in Nat /\ f.count <= MaxHandles /\ size[f.payload] \in Nat /\ size[f.payload] > 0
      /\ size[f.payload] <= MaxPayload /\ f.len = FieldsSize(f.count) + size[f.payload]
  BY DEF Inv, Types, Forward, All, Sound, SenderInv
<1>2. MaxHandles \in Nat /\ MaxPayload \in Nat /\ Word \in Nat /\ NumberBytes \in Nat
  BY Constants
<1>3. /\ FieldsSize(f.count) \in Nat /\ FieldsSize(f.count) >= 6
      /\ FieldsSize(MaxHandles) \in Nat /\ FieldsSize(f.count) <= FieldsSize(MaxHandles)
      /\ MaxForwardSize = FieldsSize(MaxHandles) + MaxPayload /\ MaxForwardSize < Word
  BY <1>1, <1>2, Offsets
<1> DEFINE a == FieldsSize(f.count)
           b == FieldsSize(MaxHandles)
<1>4. f.len \in Nat /\ f.len <= MaxForwardSize /\ f.len >= a + 1 /\ a + 1 < Word /\ f.len >= 6
  <2> HIDE DEF a, b
  <2>1. /\ a \in Nat /\ a >= 6 /\ b \in Nat /\ a <= b /\ MaxForwardSize = b + MaxPayload
        /\ MaxForwardSize < Word /\ f.len = a + size[f.payload]
    BY <1>1, <1>3 DEF a, b
  <2> QED
    BY <1>1, <1>2, <2>1
<1>5. MinimumLength(f.count) = a + 1
  BY <1>1, <1>4, MinimumExact
<1>6. LongEnough(f)
  BY <1>4, <1>5 DEF LongEnough, VersionBytes, HandleBytes
<1>7. ASSUME NEW n \in Nat, n < f.count PROVE FieldsSize(n) + NumberBytes < f.len
  <2>1. n + 1 \in Nat /\ n + 1 <= f.count
    BY <1>1, <1>7
  <2>2. FieldsSize(n + 1) = FieldsSize(n) + NumberBytes /\ FieldsSize(n + 1) <= a
    BY <1>1, <2>1, Offsets
  <2>3. FieldsSize(n) \in Nat /\ a \in Nat
    BY <1>3, Offsets
  <2> HIDE DEF a
  <2> QED
    BY <1>2, <1>4, <2>2, <2>3
<1> QED
  BY <1>4, <1>6, <1>7

\* The receiver begins to process each of them.
LEMMA StartsSound ==
    ASSUME Inv, NEW s \in Peers, StartProcessing(s), Head(wire[s]).payload \in Messages
    PROVE  rx'[s] # Idle /\ rx'[s].msg = Head(wire[s])
<1>1. wire[s] # <<>> /\ Head(wire[s]) \in Forward
  BY Started DEF Inv
<1>2. Head(wire[s]) = wire[s][1] /\ 1 \in 1..Len(wire[s])
  BY <1>1, Queues DEF Inv, Types
<1>3. Sound(Head(wire[s]), s)
  BY <1>2 DEF Inv, WayInv, Way
<1>4. Head(wire[s]).len <= MaxForwardSize /\ LongEnough(Head(wire[s]))
  BY <1>1, <1>3, NeverRefused
<1> QED
  BY <1>4, Started DEF Inv

\* It refuses none of them half way.
LEMMA ReadsSound ==
    ASSUME Inv, NEW s \in Peers, ReadHandleRefused(s)
    PROVE  rx[s] # Idle /\ rx[s].msg.payload \notin Messages
<1>1. rx[s] # Idle /\ rx[s] \in Reading /\ rx[s].msg \in Forward
  BY Receivers DEF ReadHandleRefused, Inv
<1>2. Sound(rx[s].msg, s) /\ rx[s].index = FieldsSize(rx[s].n) /\ rx[s].n \in Nat
  BY <1>1 DEF Inv, WayInv, Way, ReadInv, Reading
<1>3. rx[s].n < rx[s].msg.count /\ ~(rx[s].index + NumberBytes < rx[s].msg.len)
  BY DEF ReadHandleRefused, HasRoom
<1> QED
  BY <1>1, <1>2, <1>3, NeverRefused

\* The sender never gives up handles because a response would be too long.
LEMMA NeverTooLong ==
    ASSUME Inv, NEW m \in Messages, NEW s \in Peers, NEW chunk, CreateForward(m, s, chunk)
    PROVE  /\ wire'[s] = Append(wire[s], Construct(m, chunk))
           /\ \A t \in Peers : t # s => wire'[t] = wire[t]
           /\ todo'[m] = todo[m] \ chunk /\ \A k \in Messages : k # m => todo'[k] = todo[k]
           /\ UNCHANGED <<size, targets, failed, rx, delivered, acks>>
<1> DEFINE c == Construct(m, chunk)
           n == Cardinality(chunk)
<1>1. /\ n \in Nat /\ n <= MaxHandles /\ c \in Forward /\ c.len = FieldsSize(n) + size[m]
  BY Constructed DEF CreateForward, Inv
<1> HIDE DEF n
<1>2. size[m] \in Nat /\ size[m] <= MaxPayload /\ MaxPayload \in Nat /\ MaxHandles \in Nat
  BY Constants DEF Inv, Types, All, SenderInv
<1>3. /\ FieldsSize(n) \in Nat /\ FieldsSize(MaxHandles) \in Nat
      /\ FieldsSize(n) <= FieldsSize(MaxHandles)
      /\ MaxForwardSize = FieldsSize(MaxHandles) + MaxPayload
  BY <1>1, <1>2, Offsets
<1>4. c.len <= MaxForwardSize
  BY <1>1, <1>2, <1>3
<1>5. /\ wire' = [wire EXCEPT ![s] = Append(wire[s], c)] /\ todo' = [todo EXCEPT ![m] = @ \ chunk]
      /\ UNCHANGED <<size, targets, failed, rx, delivered, acks>>
  BY <1>4 DEF CreateForward, EraseChunk
<1> HIDE DEF c
<1>6. Append(wire[s], c) \in Seq(Forward)
  BY <1>1, Queues DEF Inv, Types
<1>7. wire'[s] = Append(wire[s], c) /\ \A t \in Peers : t # s => wire'[t] = wire[t]
  BY <1>5, <1>6, QueueChange DEF Inv
<1>8. todo'[m] = todo[m] \ chunk /\ \A k \in Messages : k # m => todo'[k] = todo[k]
  BY <1>5 DEF Inv, Types
<1> QED
  BY <1>5, <1>7, <1>8 DEF c

-------------------------------------------------------------------------------
(* Nothing is forgotten                                                      *)

LEMMA UnderForm ==
    \A m, h, s : Under(m, h, s) <=> \E f : /\ Queued(f, s) \/ Read(f, s)
                                           /\ f.payload = m /\ h \in f.numbers
BY DEF Under, Queued, Read

\* What a step must see to.
LEMMA KeptStep ==
    ASSUME KeptInv, failed \subseteq failed', targets' = targets,
           \A m \in Messages : \A h : delivered[m][h] = 1 => delivered'[m][h] = 1 \/ m \in failed',
           \A m \in Messages : \A h \in targets[m] \cap todo[m] :
              \/ m \in failed' \/ h \in todo'[m] \/ delivered'[m][h] = 1
              \/ \E s \in Peers : Under(m, h, s)',
           \A s \in Peers : \A f :
              (Queued(f, s) \/ Read(f, s)) /\ f.payload \in Messages =>
                 \/ f.payload \in failed' \/ Queued(f, s)' \/ Read(f, s)'
                 \/ \A h \in f.numbers : delivered'[f.payload][h] = 1
    PROVE  KeptInv'
<1> SUFFICES ASSUME NEW m \in Messages, m \notin failed', NEW h \in targets[m]
             PROVE  h \in todo'[m] \/ delivered'[m][h] = 1 \/ \E s \in Peers : Under(m, h, s)'
  BY DEF KeptInv
<1>1. h \in todo[m] \/ delivered[m][h] = 1 \/ \E s \in Peers : Under(m, h, s)
  BY DEF KeptInv
<1>2. CASE h \in todo[m]
  BY <1>2
<1>3. CASE delivered[m][h] = 1
  BY <1>3
<1>4. ASSUME NEW s \in Peers, Under(m, h, s)
      PROVE  delivered'[m][h] = 1 \/ Under(m, h, s)'
  <2>1. PICK f : (Queued(f, s) \/ Read(f, s)) /\ f.payload = m /\ h \in f.numbers
    BY <1>4, UnderForm
  <2>2. Queued(f, s)' \/ Read(f, s)' \/ delivered'[m][h] = 1
    BY <2>1
  <2>3. Queued(f, s)' \/ Read(f, s)' => Under(m, h, s)'
    BY <2>1 DEF Queued, Read, Under
  <2> QED
    BY <2>2, <2>3
<1> QED
  BY <1>1, <1>2, <1>3, <1>4

\* Taking the first forwarded response.
LEMMA Taken ==
    ASSUME Types, NEW s \in Peers, wire[s] # <<>>, wire'[s] = Tail(wire[s]), NEW f, Queued(f, s)
    PROVE  f = Head(wire[s]) \/ Queued(f, s)'
<1>1. /\ Len(wire'[s]) = Len(wire[s]) - 1 /\ Len(wire[s]) \in Nat /\ Len(wire[s]) > 0
      /\ \A i \in 1..(Len(wire[s]) - 1) : wire'[s][i] = wire[s][i + 1]
      /\ Head(wire[s]) = wire[s][1]
  BY Queues DEF Types
<1>2. PICK i \in 1..Len(wire[s]) : f = wire[s][i]
  BY DEF Queued
<1>3. CASE i = 1
  BY <1>1, <1>2, <1>3
<1>4. CASE i # 1
  <2>1. i - 1 \in 1..(Len(wire[s]) - 1) /\ (i - 1) + 1 = i
    BY <1>1, <1>4
  <2>2. f = wire'[s][i - 1]
    BY <1>1, <1>2, <2>1
  <2> QED
    BY <1>1, <2>1, <2>2 DEF Queued
<1> QED
  BY <1>3, <1>4

\* Appending one.
LEMMA Appended ==
    ASSUME Types, NEW s \in Peers, NEW g \in Forward, wire'[s] = Append(wire[s], g)
    PROVE  Queued(g, s)' /\ \A f : Queued(f, s) => Queued(f, s)'
<1>1. /\ Len(wire'[s]) = Len(wire[s]) + 1 /\ Len(wire[s]) \in Nat
      /\ \A i \in 1..Len(wire[s]) : wire'[s][i] = wire[s][i]
      /\ wire'[s][Len(wire[s]) + 1] = g
  BY Queues DEF Types
<1>2. Len(wire[s]) + 1 \in 1..Len(wire'[s]) /\ \A i \in 1..Len(wire[s]) : i \in 1..Len(wire'[s])
  BY <1>1
<1> QED
  BY <1>1, <1>2 DEF Queued

LEMMA NextKept == Inv /\ KeptInv /\ [Next]_vars => KeptInv'
<1> SUFFICES ASSUME Inv, KeptInv, [Next]_vars PROVE KeptInv'
  OBVIOUS
<1>0. Types
  BY DEF Inv
<1>1. ASSUME NEW m \in Messages, NEW n \in 1..MaxPayload, NEW handles \in SUBSET Handles,
             Send(m, handles, n)
      PROVE  KeptInv'
  <2>1. /\ targets'[m] = handles /\ todo'[m] = handles
        /\ \A k \in Messages : k # m => targets'[k] = targets[k] /\ todo'[k] = todo[k]
        /\ UNCHANGED <<failed, delivered, wire, rx>>
    BY <1>0, <1>1 DEF Send, Types
  <2>2. \A k, h, s : Under(k, h, s)' <=> Under(k, h, s)
    BY <2>1 DEF Under
  <2> QED
    BY <2>1, <2>2 DEF KeptInv
<1>2. ASSUME NEW m \in Messages, NEW taken, CreateLocal(m, taken) PROVE KeptInv'
  <2>1. /\ \A k \in Messages, h \in Handles :
              delivered'[k][h] = IF k = m /\ h \in taken
                                 THEN delivered[k][h] + 1 ELSE delivered[k][h]
        /\ todo'[m] = todo[m] \ HandlesAt(m, Local) /\ taken \subseteq HandlesAt(m, Local)
        /\ failed \subseteq failed' /\ (m \notin failed' => taken = HandlesAt(m, Local))
        /\ UNCHANGED <<size, targets, wire, rx, acks>>
    BY <1>0, <1>2, Locally
  <2>2. \A k \in Messages : k # m => todo'[k] = todo[k]
    BY <1>0, <1>2, Creates DEF Shrinks
  <2>3. \A h \in taken : h \in Handles /\ delivered'[m][h] = 1
    BY <1>0, <2>1 DEF HandlesAt, Inv, SenderInv, Types
  <2>4. \A k \in Messages, h \in Handles : delivered[k][h] = 1 => delivered'[k][h] = 1
    BY <2>1, <2>3
  <2>5. \A k, h, s : Under(k, h, s)' <=> Under(k, h, s)
    BY <2>1 DEF Under
  <2> SUFFICES ASSUME NEW k \in Messages \ failed', NEW h \in targets[k]
               PROVE  h \in todo'[k] \/ delivered'[k][h] = 1 \/ \E s \in Peers : Under(k, h, s)
    BY <2>1, <2>5 DEF KeptInv
  <2>6. h \in Handles
    BY <1>0 DEF Types
  <2>7. h \in todo[k] \/ delivered[k][h] = 1 \/ \E s \in Peers : Under(k, h, s)
    BY <2>1 DEF KeptInv
  <2> QED
    BY <2>1, <2>2, <2>3, <2>4, <2>6, <2>7
<1>3. ASSUME NEW m \in Messages, failed' = failed \cup {m}, Shrinks(m),
             UNCHANGED <<wire, rx, delivered>>
      PROVE  KeptInv'
  <2>1. \A k, h, s : Under(k, h, s)' <=> Under(k, h, s)
    BY <1>3 DEF Under
  <2> QED
    BY <1>3, <2>1 DEF KeptInv, Shrinks
<1>4. ASSUME NEW m \in Messages, NEW s, CreateFails(m, s) PROVE KeptInv'
  BY <1>0, <1>3, <1>4, Creates DEF CreateFails
<1>5. ASSUME NEW m \in Messages, NEW s \in Peers, NEW chunk \in SUBSET HandlesAt(m, s),
             ForwardRefused(m, s, chunk)
      PROVE  KeptInv'
  BY <1>0, <1>3, <1>5, Creates DEF ForwardRefused
<1>6. ASSUME NEW m \in Messages, NEW s \in Peers, NEW chunk \in SUBSET HandlesAt(m, s),
             CreateForward(m, s, chunk)
      PROVE  KeptInv'
  <2>1. /\ wire'[s] = Append(wire[s], Construct(m, chunk))
        /\ \A t \in Peers : t # s => wire'[t] = wire[t]
        /\ todo'[m] = todo[m] \ chunk /\ \A k \in Messages : k # m => todo'[k] = todo[k]
        /\ UNCHANGED <<size, targets, failed, rx, delivered, acks>>
    BY <1>6, NeverTooLong
  <2>2. /\ Construct(m, chunk) \in Forward /\ Construct(m, chunk).payload = m
        /\ Construct(m, chunk).numbers = chunk
    BY <1>0, <1>6, Constructed DEF CreateForward
  <2>3. PICK g \in Forward : g = Construct(m, chunk)
    BY <2>2
  <2>4. Queued(g, s)' /\ \A f : Queued(f, s) => Queued(f, s)'
    BY <1>0, <2>1, <2>3, Appended
  <2>5. \A t \in Peers : \A f : Queued(f, t) \/ Read(f, t) => Queued(f, t)' \/ Read(f, t)'
    BY <2>1, <2>4 DEF Queued, Read
  <2>6. \A h \in chunk : Under(m, h, s)'
    BY <2>2, <2>3, <2>4 DEF Under, Queued
  <2>7. \A k \in Messages : \A h \in targets[k] \cap todo[k] :
          h \in todo'[k] \/ \E t \in Peers : Under(k, h, t)'
    BY <2>1, <2>6
  <2> QED
    BY <2>1, <2>5, <2>7, KeptStep
<1>7. ASSUME NEW x \in Strangers, NEW s \in Peers, NEW n \in StrangeCounts,
             NEW len \in 1..MaxForwardSize, ReceiveStrange(x, s, n, len)
      PROVE  KeptInv'
  <2> DEFINE g == [len |-> len, count |-> n, numbers |-> {}, payload |-> x, payloadAt |-> 0]
  <2>1. g \in Forward
    BY Constants, Offsets DEF Forward, All
  <2>2. wire' = [wire EXCEPT ![s] = Append(wire[s], g)]
    BY <1>7 DEF ReceiveStrange
  <2> HIDE DEF g
  <2>3. Append(wire[s], g) \in Seq(Forward)
    BY <1>0, <2>1, Queues DEF Types
  <2>4. wire'[s] = Append(wire[s], g) /\ \A t \in Peers : t # s => wire'[t] = wire[t]
    BY <1>0, <2>2, <2>3, QueueChange
  <2>5. UNCHANGED <<targets, todo, failed, rx, delivered>>
    BY <1>7 DEF ReceiveStrange
  <2>6. \A f : Queued(f, s) => Queued(f, s)'
    BY <1>0, <2>1, <2>4, Appended
  <2>7. \A t \in Peers : \A f : Queued(f, t) \/ Read(f, t) => Queued(f, t)' \/ Read(f, t)'
    BY <2>4, <2>5, <2>6 DEF Queued, Read
  <2> QED
    BY <2>5, <2>7, KeptStep
<1>8. ASSUME NEW s \in Peers, Lose(s) PROVE KeptInv'
  <2>1. wire[s] # <<>> /\ Tail(wire[s]) \in Seq(Forward) /\ wire' = [wire EXCEPT ![s] = Tail(wire[s])]
    BY <1>0, <1>8, Queues DEF Lose, Types
  <2>2. wire'[s] = Tail(wire[s]) /\ \A t \in Peers : t # s => wire'[t] = wire[t]
    BY <1>0, <2>1, QueueChange
  <2>3. \A f : Queued(f, s) => f = Head(wire[s]) \/ Queued(f, s)'
    BY <1>0, <2>1, <2>2, Taken
  <2>4. /\ failed' = failed \cup ({Head(wire[s]).payload} \cap Messages)
        /\ UNCHANGED <<targets, todo, rx, delivered>>
    BY <1>8 DEF Lose, senderVars
  <2>5. \A t \in Peers : \A f : (Queued(f, t) \/ Read(f, t)) /\ f.payload \in Messages =>
          f.payload \in failed' \/ Queued(f, t)' \/ Read(f, t)'
    <3>1. \A f : Read(f, s) => Read(f, s)'
      BY <2>4 DEF Read
    <3>2. \A t \in Peers : \A f : t # s =>
            (Queued(f, t) => Queued(f, t)') /\ (Read(f, t) => Read(f, t)')
      BY <2>2, <2>4 DEF Queued, Read
    <3> QED
      BY <2>3, <2>4, <3>1, <3>2
  <2> QED
    BY <2>4, <2>5, KeptStep
<1>9. ASSUME NEW s \in Peers, StartProcessing(s) PROVE KeptInv'
  <2>1. /\ wire[s] # <<>> /\ rx[s] = Idle /\ wire'[s] = Tail(wire[s])
        /\ \A t \in Peers : t # s => wire'[t] = wire[t] /\ rx'[t] = rx[t]
        /\ UNCHANGED <<targets, todo, failed, delivered>>
    BY <1>0, <1>9, Started
  <2>2. Head(wire[s]).payload \in Messages => rx'[s] # Idle /\ rx'[s].msg = Head(wire[s])
    BY <1>9, StartsSound
  <2>3. \A f : Queued(f, s) => f = Head(wire[s]) \/ Queued(f, s)'
    BY <1>0, <2>1, Taken
  <2>4. \A f : ~Read(f, s)
    BY <2>1 DEF Read
  <2>5. \A t \in Peers : \A f : (Queued(f, t) \/ Read(f, t)) /\ f.payload \in Messages =>
          Queued(f, t)' \/ Read(f, t)'
    <3>1. Head(wire[s]).payload \in Messages => \A f : f = Head(wire[s]) => Read(f, s)'
      BY <2>2 DEF Read
    <3>2. \A t \in Peers : \A f : t # s =>
            (Queued(f, t) => Queued(f, t)') /\ (Read(f, t) => Read(f, t)')
      BY <2>1 DEF Queued, Read
    <3> QED
      BY <2>3, <2>4, <3>1, <3>2
  <2> QED
    BY <2>1, <2>5, KeptStep
<1>10. ASSUME NEW s \in Peers, ReadHandle(s) PROVE KeptInv'
  <2>1. /\ rx[s] # Idle /\ rx'[s] # Idle /\ rx'[s].msg = rx[s].msg
        /\ \A t \in Peers : t # s => rx'[t] = rx[t]
        /\ UNCHANGED <<size, targets, todo, failed, wire, delivered, acks>>
    BY <1>0, <1>10, ReadNumber
  <2>2. \A t \in Peers : \A f : Queued(f, t) \/ Read(f, t) => Queued(f, t)' \/ Read(f, t)'
    BY <2>1 DEF Queued, Read
  <2> QED
    BY <2>1, <2>2, KeptStep
<1>11. ASSUME NEW s \in Peers, ReadHandleRefused(s) PROVE KeptInv'
  <2>1. rx'[s] = Idle /\ \A t \in Peers : t # s => rx'[t] = rx[t]
    BY <1>0, <1>11, ReceiverChange DEF ReadHandleRefused
  <2>2. rx[s].msg.payload \notin Messages
    BY <1>11, ReadsSound
  <2>3. UNCHANGED <<targets, todo, failed, wire, delivered>>
    BY <1>11 DEF ReadHandleRefused, senderVars
  <2>4. \A t \in Peers : \A f : (Queued(f, t) \/ Read(f, t)) /\ f.payload \in Messages =>
          Queued(f, t)' \/ Read(f, t)'
    BY <2>1, <2>2, <2>3 DEF Queued, Read
  <2> QED
    BY <2>3, <2>4, KeptStep
<1>12. ASSUME NEW s \in Peers, ReadHandleFails(s) PROVE KeptInv'
  <2>1. rx'[s] = Idle /\ \A t \in Peers : t # s => rx'[t] = rx[t]
    BY <1>0, <1>12, ReceiverChange DEF ReadHandleFails
  <2>2. /\ failed' = failed \cup ({rx[s].msg.payload} \cap Messages)
        /\ UNCHANGED <<targets, todo, wire, delivered>>
    BY <1>12 DEF ReadHandleFails, senderVars
  <2>3. \A t \in Peers : \A f : (Queued(f, t) \/ Read(f, t)) /\ f.payload \in Messages =>
          f.payload \in failed' \/ Queued(f, t)' \/ Read(f, t)'
    BY <2>1, <2>2 DEF Queued, Read
  <2> QED
    BY <2>2, <2>3, KeptStep
<1>13. ASSUME NEW s \in Peers, NEW taken, NEW acked, FinishProcessing(s, taken, acked) PROVE KeptInv'
  <2> DEFINE g == rx[s].msg
  <2>1. /\ rx[s] # Idle /\ g \in Forward
        /\ rx'[s] = Idle /\ \A t \in Peers : t # s => rx'[t] = rx[t]
        /\ \A m \in Messages, h \in Handles :
              delivered'[m][h] = IF m = g.payload /\ h \in taken
                                 THEN delivered[m][h] + 1 ELSE delivered[m][h]
        /\ taken \subseteq g.numbers /\ failed \subseteq failed'
        /\ g.payload \in Messages \ failed' => taken = g.numbers
        /\ UNCHANGED <<size, targets, todo, wire>>
    BY <1>0, <1>13, Finished
  <2>2. Sound(g, s) /\ \A f : Read(f, s) => f = g
    BY <2>1 DEF Inv, WayInv, Way, Read
  <2> HIDE DEF g
  <2>3. g.payload \in Messages => \A h \in taken : h \in Handles /\ delivered'[g.payload][h] = 1
    <3> SUFFICES ASSUME g.payload \in Messages, NEW h \in taken
                 PROVE  h \in Handles /\ delivered'[g.payload][h] = 1
      OBVIOUS
    <3>1. h \in Handles /\ delivered[g.payload][h] = 0
      BY <1>0, <2>1, <2>2 DEF Sound, Types
    <3> QED
      BY <2>1, <3>1
  <2>4. \A t \in Peers : \A f : (Queued(f, t) \/ Read(f, t)) /\ f.payload \in Messages \ failed' =>
          \/ Queued(f, t)' \/ Read(f, t)' \/ \A h \in f.numbers : delivered'[f.payload][h] = 1
    BY <2>1, <2>2, <2>3 DEF Queued, Read
  <2>5. \A m \in Messages, h \in Handles : delivered[m][h] = 1 => delivered'[m][h] = 1
    BY <2>1, <2>3
  <2> SUFFICES ASSUME NEW k \in Messages \ failed', NEW h \in targets[k]
               PROVE  h \in todo'[k] \/ delivered'[k][h] = 1 \/ \E t \in Peers : Under(k, h, t)'
    BY <2>1 DEF KeptInv
  <2>6. h \in Handles
    BY <1>0 DEF Types
  <2>7. h \in todo[k] \/ delivered[k][h] = 1 \/ \E t \in Peers : Under(k, h, t)
    BY <2>1 DEF KeptInv
  <2>8. ASSUME NEW t \in Peers, Under(k, h, t) PROVE Under(k, h, t)' \/ delivered'[k][h] = 1
    <3>1. PICK f : (Queued(f, t) \/ Read(f, t)) /\ f.payload = k /\ h \in f.numbers
      BY <2>8, UnderForm
    <3>2. Queued(f, t)' \/ Read(f, t)' => Under(k, h, t)'
      BY <3>1 DEF Queued, Read, Under
    <3> QED
      BY <2>4, <3>1, <3>2
  <2> QED
    BY <2>1, <2>5, <2>6, <2>7, <2>8
<1>14. CASE UNCHANGED vars
  BY <1>14 DEF vars, KeptInv, Under
<1> QED
  BY <1>1, <1>2, <1>4, <1>5, <1>6, <1>7, <1>8, <1>9, <1>10, <1>11, <1>12, <1>13, <1>14
  DEF Next, Sender, Stranger, Receiver

-------------------------------------------------------------------------------
(* Every part is acknowledged                                                *)

PlacesOf(m, q) == {i \in 1..Len(q) : q[i].payload = m}

LEMMA PlacesFinite ==
    ASSUME NEW q \in Seq(Forward), NEW m
    PROVE  /\ IsFiniteSet(PlacesOf(m, q)) /\ Carried(m, q) = Cardinality(PlacesOf(m, q))
           /\ Carried(m, q) \in Nat
           /\ (\A i \in 1..Len(q) : q[i].payload # m) => Carried(m, q) = 0
<1>1. Len(q) \in Nat
  OBVIOUS
<1>2. IsFiniteSet(1..Len(q)) /\ PlacesOf(m, q) \in SUBSET (1..Len(q))
  BY <1>1, FS_Interval DEF PlacesOf
<1>3. IsFiniteSet(PlacesOf(m, q))
  BY <1>2, FS_Subset
<1>4. Carried(m, q) = Cardinality(PlacesOf(m, q))
  BY DEF Carried, PlacesOf
<1>5. (\A i \in 1..Len(q) : q[i].payload # m) => PlacesOf(m, q) = {}
  BY DEF PlacesOf
<1> QED
  BY <1>3, <1>4, <1>5, FS_CardinalityType, FS_EmptySet

LEMMA CarriedAppend ==
    ASSUME NEW q \in Seq(Forward), NEW f \in Forward, NEW m
    PROVE  Carried(m, Append(q, f)) = Carried(m, q) + IF f.payload = m THEN 1 ELSE 0
<1> DEFINE k == Len(q) + 1
<1>1. /\ Append(q, f) \in Seq(Forward) /\ Len(Append(q, f)) = k /\ Len(q) \in Nat
      /\ \A i \in 1..Len(q) : Append(q, f)[i] = q[i]
      /\ Append(q, f)[k] = f
  BY Queues
<1>2. k \notin PlacesOf(m, q) /\ 1..k = 1..Len(q) \cup {k}
  BY <1>1 DEF PlacesOf
<1> HIDE DEF k
<1>3. CASE f.payload = m
  <2>1. PlacesOf(m, Append(q, f)) = PlacesOf(m, q) \cup {k}
    BY <1>1, <1>2, <1>3 DEF PlacesOf
  <2>2. Cardinality(PlacesOf(m, q) \cup {k}) = Cardinality(PlacesOf(m, q)) + 1
    BY <1>2, PlacesFinite, FS_AddElement
  <2>3. /\ Carried(m, Append(q, f)) = Cardinality(PlacesOf(m, Append(q, f)))
        /\ Carried(m, q) = Cardinality(PlacesOf(m, q))
    BY <1>1, PlacesFinite
  <2> QED
    BY <1>3, <2>1, <2>2, <2>3
<1>4. CASE f.payload # m
  <2>1. PlacesOf(m, Append(q, f)) = PlacesOf(m, q)
    BY <1>1, <1>2, <1>4 DEF PlacesOf
  <2>2. Carried(m, Append(q, f)) = Carried(m, q) /\ Carried(m, q) \in Nat
    BY <1>1, <2>1, PlacesFinite
  <2> QED
    BY <1>4, <2>2
<1> QED
  BY <1>3, <1>4

LEMMA CarriedTail ==
    ASSUME NEW q \in Seq(Forward), q # <<>>, NEW m
    PROVE  Carried(m, q) = Carried(m, Tail(q)) + IF Head(q).payload = m THEN 1 ELSE 0
<1>1. /\ Tail(q) \in Seq(Forward) /\ Len(Tail(q)) = Len(q) - 1 /\ Len(q) \in Nat /\ Len(q) > 0
      /\ \A i \in 1..(Len(q) - 1) : Tail(q)[i] = q[i + 1]
      /\ Head(q) = q[1]
  BY Queues
<1> DEFINE Rest == PlacesOf(m, q) \ {1}
<1>2. Cardinality(PlacesOf(m, Tail(q))) = Cardinality(Rest)
  <2> DEFINE f == [i \in Rest |-> i - 1]
  <2>1. f \in Bijection(Rest, PlacesOf(m, Tail(q)))
    <3>1. f \in [Rest -> PlacesOf(m, Tail(q))]
      BY <1>1 DEF PlacesOf
    <3>2. \A i, j \in Rest : f[i] = f[j] => i = j
      BY <1>1 DEF PlacesOf
    <3>3. \A j \in PlacesOf(m, Tail(q)) : j + 1 \in Rest /\ f[j + 1] = j
      BY <1>1 DEF PlacesOf
    <3>4. \A j \in PlacesOf(m, Tail(q)) : \E i \in Rest : f[i] = j
      BY <3>3
    <3> QED
      BY <3>1, <3>2, <3>4 DEF Bijection, Injection, Surjection, IsInjective
  <2>2. ExistsBijection(Rest, PlacesOf(m, Tail(q)))
    BY <2>1 DEF ExistsBijection
  <2>3. IsFiniteSet(Rest)
    BY PlacesFinite, FS_RemoveElement
  <2> QED
    BY <2>2, <2>3, FS_Bijection
<1>3. Cardinality(Rest) = IF 1 \in PlacesOf(m, q) THEN Cardinality(PlacesOf(m, q)) - 1
                          ELSE Cardinality(PlacesOf(m, q))
  BY PlacesFinite, FS_RemoveElement
<1>4. 1 \in PlacesOf(m, q) <=> Head(q).payload = m
  BY <1>1 DEF PlacesOf
<1>5. /\ Carried(m, q) = Cardinality(PlacesOf(m, q)) /\ Carried(m, q) \in Nat
      /\ Carried(m, Tail(q)) = Cardinality(PlacesOf(m, Tail(q)))
  BY <1>1, PlacesFinite
<1> QED
  BY <1>2, <1>3, <1>4, <1>5

\* A chunk makes one part, and the handles that are left make the others.
LEMMA ChunkIsPart ==
    ASSUME NEW all \in SUBSET Handles, NEW chunk, IsChunk(all, chunk)
    PROVE  Parts(Cardinality(all)) = Parts(Cardinality(all \ chunk)) + 1
<1>1. /\ IsFiniteSet(all) /\ Cardinality(all) \in Nat
      /\ chunk \in SUBSET all /\ chunk # {} /\ all \cap chunk = chunk
  BY HandleSets DEF IsChunk
<1>2. Cardinality(all \ chunk) = Cardinality(all) - Cardinality(chunk)
  <2>1. Cardinality(all \ chunk) = Cardinality(all) - Cardinality(all \cap chunk)
    BY <1>1, FS_Difference
  <2> QED
    BY <1>1, <2>1
<1>3. MaxHandles \in Nat
  BY Constants
<1>4. CASE Cardinality(all) > MaxHandles
  <2>1. Cardinality(all \ chunk) = Cardinality(all) - MaxHandles
    BY <1>2, <1>4 DEF IsChunk
  <2> QED
    BY <1>1, <1>4, <2>1, PartsStep
<1>5. CASE ~(Cardinality(all) > MaxHandles)
  <2>1. all \ chunk = {} /\ all # {}
    BY <1>1, <1>5 DEF IsChunk
  <2>2. Cardinality(all \ chunk) = 0 /\ Cardinality(all) # 0
    BY <1>1, <2>1, FS_EmptySet
  <2>3. Cardinality(all) \in 1..MaxHandles
    BY <1>1, <1>3, <1>5, <2>2
  <2> QED
    BY <2>2, <2>3, PartsStep
<1> QED
  BY <1>4, <1>5

\* The numbers that are added up.
LEMMA Summands ==
    ASSUME Types, NEW m \in Messages, NEW s \in Peers
    PROVE  /\ acks[s][m] \in Nat /\ Carried(m, wire[s]) \in Nat /\ BeingRead(m, s) \in 0..1
           /\ Parts(Cardinality(HandlesAt(m, s))) \in Int
<1>1. HandlesAt(m, s) \in SUBSET Handles /\ acks[s][m] \in Nat /\ wire[s] \in Seq(Forward)
  BY DEF Types, HandlesAt, All
<1>2. Cardinality(HandlesAt(m, s)) \in Nat
  BY <1>1, HandleSets
<1>3. BeingRead(m, s) \in 0..1
  BY DEF BeingRead
<1> QED
  BY <1>1, <1>2, <1>3, PlacesFinite, PartsStep

LEMMA InitParts == Init => KeptInv /\ PartsInv
<1> SUFFICES ASSUME Init PROVE KeptInv /\ PartsInv
  OBVIOUS
<1>1. KeptInv
  BY DEF Init, KeptInv
<1>2. ASSUME NEW m \in Messages, NEW s \in Peers PROVE Sum(m, s) = Parts(Cardinality(TargetsAt(m, s)))
  <2>1. acks[s][m] = 0 /\ wire[s] = <<>> /\ rx[s] = Idle
    BY DEF Init
  <2>2. HandlesAt(m, s) = {} /\ TargetsAt(m, s) = {}
    BY DEF Init, HandlesAt, TargetsAt
  <2>3. Cardinality({}) = 0
    BY FS_EmptySet
  <2>4. Carried(m, wire[s]) = 0
    <3>1. {i \in 1..Len(<<>>) : <<>>[i].payload = m} = {}
      OBVIOUS
    <3> QED
      BY <2>1, <2>3, <3>1 DEF Carried
  <2>5. BeingRead(m, s) = 0
    BY <2>1 DEF BeingRead
  <2> QED
    BY <2>1, <2>2, <2>3, <2>4, <2>5, PartsStep DEF Sum
<1> QED
  BY <1>1, <1>2 DEF PartsInv

\* A step that leaves the sum alone.
LEMMA SumKept ==
    ASSUME PartsInv, failed \subseteq failed', targets' = targets,
           \A m \in Messages, s \in Peers : m \notin failed' => Sum(m, s)' = Sum(m, s)
    PROVE  PartsInv'
<1>1. \A m, s : TargetsAt(m, s)' = TargetsAt(m, s)
  BY DEF TargetsAt
<1> SUFFICES ASSUME NEW m \in Messages, m \notin failed', NEW s \in Peers
             PROVE  Sum(m, s)' = Parts(Cardinality(TargetsAt(m, s)'))
  BY DEF PartsInv
<1>2. Sum(m, s) = Parts(Cardinality(TargetsAt(m, s)))
  BY DEF PartsInv
<1> QED
  BY <1>1, <1>2

\* What the sum is made of, in the next state.
LEMMA SumNext ==
    \A m, s : Sum(m, s)' = acks'[s][m] + Carried(m, wire'[s]) + BeingRead(m, s)'
                             + Parts(Cardinality(HandlesAt(m, s)'))
BY DEF Sum

LEMMA NextParts == Inv /\ PartsInv /\ [Next]_vars => PartsInv'
<1> SUFFICES ASSUME Inv, PartsInv, [Next]_vars PROVE PartsInv'
  OBVIOUS
<1>0. Types
  BY DEF Inv
<1>1. ASSUME NEW m \in Messages, NEW n \in 1..MaxPayload, NEW handles \in SUBSET Handles,
             Send(m, handles, n)
      PROVE  PartsInv'
  <2>1. /\ targets'[m] = handles /\ todo'[m] = handles /\ size[m] = 0
        /\ \A k \in Messages : k # m => targets'[k] = targets[k] /\ todo'[k] = todo[k]
        /\ UNCHANGED <<failed, wire, rx, acks>>
    BY <1>0, <1>1 DEF Send, Types
  <2>2. \A k, s : BeingRead(k, s)' = BeingRead(k, s)
    BY <2>1 DEF BeingRead
  <2>3. \A k \in Messages : \A s : k # m => /\ HandlesAt(k, s)' = HandlesAt(k, s)
                                            /\ TargetsAt(k, s)' = TargetsAt(k, s)
    BY <2>1 DEF HandlesAt, TargetsAt
  <2>4. \A s : HandlesAt(m, s)' = TargetsAt(m, s)'
    BY <2>1 DEF HandlesAt, TargetsAt
  <2> SUFFICES ASSUME NEW k \in Messages, k \notin failed, NEW s \in Peers
               PROVE  Sum(k, s)' = Parts(Cardinality(TargetsAt(k, s)'))
    BY <2>1 DEF PartsInv
  <2>5. Sum(k, s) = Parts(Cardinality(TargetsAt(k, s)))
    BY DEF PartsInv
  <2>6. CASE k # m
    BY <2>1, <2>2, <2>3, <2>5, <2>6, SumNext DEF Sum
  <2>7. CASE k = m
    <3>1. TargetsAt(m, s) = {} /\ HandlesAt(m, s) = {}
      BY <2>1 DEF TargetsAt, HandlesAt, Inv, SenderInv
    <3>2. Parts(Cardinality(TargetsAt(m, s))) = 0 /\ Parts(Cardinality(HandlesAt(m, s))) = 0
      BY <3>1, FS_EmptySet, PartsStep
    <3>3. acks[s][m] = 0 /\ Carried(m, wire[s]) = 0 /\ BeingRead(m, s) = 0
      BY <1>0, <2>5, <2>7, <3>2, Summands DEF Sum
    <3>4. Parts(Cardinality(HandlesAt(m, s)')) \in Int
      <4>1. HandlesAt(m, s)' \in SUBSET Handles
        BY <2>1 DEF HandlesAt
      <4>2. Cardinality(HandlesAt(m, s)') \in Nat
        BY <4>1, HandleSets
      <4> QED
        BY <4>2, PartsStep
    <3> QED
      BY <2>1, <2>2, <2>4, <2>7, <3>3, <3>4, SumNext
  <2> QED
    BY <2>6, <2>7
<1>2. ASSUME NEW m \in Messages, NEW taken, CreateLocal(m, taken) PROVE PartsInv'
  <2>1. /\ todo'[m] = todo[m] \ HandlesAt(m, Local) /\ failed \subseteq failed'
        /\ UNCHANGED <<targets, wire, rx, acks>>
    BY <1>0, <1>2, Locally
  <2>2. \A k \in Messages : k # m => todo'[k] = todo[k]
    BY <1>0, <1>2, Creates DEF Shrinks
  <2>3. \A k \in Messages, s \in Peers : HandlesAt(k, s)' = HandlesAt(k, s)
    BY <2>1, <2>2 DEF HandlesAt, Peers
  <2>4. \A k, s : BeingRead(k, s)' = BeingRead(k, s)
    BY <2>1 DEF BeingRead
  <2>5. \A k \in Messages, s \in Peers : Sum(k, s)' = Sum(k, s)
    BY <2>1, <2>3, <2>4, SumNext DEF Sum
  <2> QED
    BY <2>1, <2>5, SumKept
<1>3. ASSUME NEW m \in Messages, failed' = failed \cup {m}, Shrinks(m), UNCHANGED <<wire, rx, acks>>
      PROVE  PartsInv'
  <2>1. \A k \in Messages, s \in Peers : k # m => HandlesAt(k, s)' = HandlesAt(k, s)
    BY <1>3 DEF HandlesAt, Shrinks
  <2>2. \A k, s : BeingRead(k, s)' = BeingRead(k, s)
    BY <1>3 DEF BeingRead
  <2>3. \A k \in Messages, s \in Peers : k # m => Sum(k, s)' = Sum(k, s)
    BY <1>3, <2>1, <2>2, SumNext DEF Sum
  <2> QED
    BY <1>3, <2>3, SumKept DEF Shrinks
<1>4. ASSUME NEW m \in Messages, NEW s, CreateFails(m, s) PROVE PartsInv'
  BY <1>0, <1>3, <1>4, Creates DEF CreateFails
<1>5. ASSUME NEW m \in Messages, NEW s \in Peers, NEW chunk \in SUBSET HandlesAt(m, s),
             ForwardRefused(m, s, chunk)
      PROVE  PartsInv'
  BY <1>0, <1>3, <1>5, Creates DEF ForwardRefused
<1>6. ASSUME NEW m \in Messages, NEW s \in Peers, NEW chunk \in SUBSET HandlesAt(m, s),
             CreateForward(m, s, chunk)
      PROVE  PartsInv'
  <2>1. /\ wire'[s] = Append(wire[s], Construct(m, chunk))
        /\ \A t \in Peers : t # s => wire'[t] = wire[t]
        /\ todo'[m] = todo[m] \ chunk /\ \A k \in Messages : k # m => todo'[k] = todo[k]
        /\ UNCHANGED <<size, targets, failed, rx, delivered, acks>>
    BY <1>6, NeverTooLong
  <2>2. Construct(m, chunk) \in Forward /\ Construct(m, chunk).payload = m
    BY <1>0, <1>6, Constructed DEF CreateForward
  <2>3. \A k, t : BeingRead(k, t)' = BeingRead(k, t)
    BY <2>1 DEF BeingRead
  <2>4. \A k \in Messages : Carried(k, wire'[s]) = Carried(k, wire[s]) + IF k = m THEN 1 ELSE 0
    BY <1>0, <2>1, <2>2, CarriedAppend DEF Types
  <2>5. HandlesAt(m, s)' = HandlesAt(m, s) \ chunk
    BY <2>1 DEF HandlesAt
  <2>6. \A k \in Messages, t \in Peers : k # m \/ t # s => HandlesAt(k, t)' = HandlesAt(k, t)
    BY <2>1 DEF HandlesAt
  <2>7. Parts(Cardinality(HandlesAt(m, s))) = Parts(Cardinality(HandlesAt(m, s)')) + 1
    <3>1. HandlesAt(m, s) \in SUBSET Handles /\ IsChunk(HandlesAt(m, s), chunk)
      BY <1>0, <1>6 DEF HandlesAt, Types, CreateForward
    <3> QED
      BY <2>5, <3>1, ChunkIsPart
  <2>8. ASSUME NEW k \in Messages, NEW t \in Peers PROVE Sum(k, t)' = Sum(k, t)
    <3>1. CASE k = m /\ t = s
      <4>1. Parts(Cardinality(HandlesAt(m, s)')) \in Int
        <5>1. HandlesAt(m, s) \ chunk \in SUBSET Handles
          BY <1>0 DEF HandlesAt, Types
        <5>2. Cardinality(HandlesAt(m, s)') \in Nat
          BY <2>5, <5>1, HandleSets
        <5> QED
          BY <5>2, PartsStep
      <4>2. Carried(m, wire'[s]) = Carried(m, wire[s]) + 1
        BY <2>4
      <4>3. acks[s][m] \in Nat /\ Carried(m, wire[s]) \in Nat /\ BeingRead(m, s) \in 0..1
        BY <1>0, Summands
      <4>4. Sum(m, s)' = acks[s][m] + Carried(m, wire'[s]) + BeingRead(m, s)
                           + Parts(Cardinality(HandlesAt(m, s)'))
        BY <2>1, <2>3, SumNext
      <4>5. Sum(m, s)' = Sum(m, s)
        BY <2>7, <4>1, <4>2, <4>3, <4>4 DEF Sum
      <4> QED
        BY <3>1, <4>5
    <3>2. CASE ~(k = m /\ t = s)
      <4>1. Carried(k, wire'[t]) = Carried(k, wire[t])
        <5>1. CASE t # s
          BY <2>1, <5>1
        <5>2. CASE t = s
          BY <1>0, <2>4, <3>2, <5>2, Summands
        <5> QED
          BY <5>1, <5>2
      <4>2. HandlesAt(k, t)' = HandlesAt(k, t)
        BY <2>6, <3>2
      <4> QED
        BY <2>1, <2>3, <4>1, <4>2, SumNext DEF Sum
    <3> QED
      BY <3>1, <3>2
  <2> QED
    BY <2>1, <2>8, SumKept
<1>7. ASSUME NEW x \in Strangers, NEW s \in Peers, NEW n \in StrangeCounts,
             NEW len \in 1..MaxForwardSize, ReceiveStrange(x, s, n, len)
      PROVE  PartsInv'
  <2> DEFINE g == [len |-> len, count |-> n, numbers |-> {}, payload |-> x, payloadAt |-> 0]
  <2>1. g \in Forward /\ g.payload = x /\ x \notin Messages
    BY Constants, Offsets DEF Forward, All
  <2>2. wire' = [wire EXCEPT ![s] = Append(wire[s], g)]
    BY <1>7 DEF ReceiveStrange
  <2> HIDE DEF g
  <2>3. Append(wire[s], g) \in Seq(Forward)
    BY <1>0, <2>1, Queues DEF Types
  <2>4. wire'[s] = Append(wire[s], g) /\ \A t \in Peers : t # s => wire'[t] = wire[t]
    BY <1>0, <2>2, <2>3, QueueChange
  <2>5. UNCHANGED <<targets, todo, failed, rx, acks>>
    BY <1>7 DEF ReceiveStrange
  <2>6. \A k, t : BeingRead(k, t)' = BeingRead(k, t) /\ HandlesAt(k, t)' = HandlesAt(k, t)
    BY <2>5 DEF BeingRead, HandlesAt
  <2>7. \A k \in Messages, t \in Peers : Carried(k, wire'[t]) = Carried(k, wire[t])
    <3>1. \A k \in Messages : Carried(k, wire'[s]) = Carried(k, wire[s]) + 0
      BY <1>0, <2>1, <2>4, CarriedAppend DEF Types
    <3>2. \A k \in Messages : Carried(k, wire[s]) \in Nat
      BY <1>0, Summands
    <3>3. \A k \in Messages : Carried(k, wire'[s]) = Carried(k, wire[s])
      BY <3>1, <3>2
    <3> QED
      BY <2>4, <3>3
  <2>8. \A k \in Messages, t \in Peers : Sum(k, t)' = Sum(k, t)
    BY <2>5, <2>6, <2>7, SumNext DEF Sum
  <2> QED
    BY <2>5, <2>8, SumKept
<1>8. ASSUME NEW s \in Peers, Lose(s) PROVE PartsInv'
  <2>1. wire[s] # <<>> /\ Tail(wire[s]) \in Seq(Forward) /\ wire' = [wire EXCEPT ![s] = Tail(wire[s])]
    BY <1>0, <1>8, Queues DEF Lose, Types
  <2>2. wire'[s] = Tail(wire[s]) /\ \A t \in Peers : t # s => wire'[t] = wire[t]
    BY <1>0, <2>1, QueueChange
  <2>3. /\ failed' = failed \cup ({Head(wire[s]).payload} \cap Messages)
        /\ UNCHANGED <<targets, todo, rx, acks>>
    BY <1>8 DEF Lose, senderVars
  <2>4. \A k, t : BeingRead(k, t)' = BeingRead(k, t) /\ HandlesAt(k, t)' = HandlesAt(k, t)
    BY <2>3 DEF BeingRead, HandlesAt
  <2>5. ASSUME NEW k \in Messages, k \notin failed', NEW t \in Peers
        PROVE  Carried(k, wire'[t]) = Carried(k, wire[t])
    <3>1. CASE t # s
      BY <2>2, <3>1
    <3>2. CASE t = s
      <4>1. Head(wire[s]).payload # k
        BY <2>3, <2>5
      <4>2. Carried(k, wire[s]) = Carried(k, Tail(wire[s])) + 0
        BY <1>0, <2>1, <4>1, CarriedTail DEF Types
      <4>3. Carried(k, Tail(wire[s])) \in Nat
        BY <2>1, PlacesFinite
      <4> QED
        BY <2>2, <3>2, <4>2, <4>3
    <3> QED
      BY <3>1, <3>2
  <2>6. \A k \in Messages, t \in Peers : k \notin failed' => Sum(k, t)' = Sum(k, t)
    BY <2>3, <2>4, <2>5, SumNext DEF Sum
  <2> QED
    BY <2>3, <2>6, SumKept
<1>9. ASSUME NEW s \in Peers, StartProcessing(s) PROVE PartsInv'
  <2> DEFINE f == Head(wire[s])
  <2>1. /\ wire[s] # <<>> /\ rx[s] = Idle /\ wire'[s] = Tail(wire[s])
        /\ \A t \in Peers : t # s => wire'[t] = wire[t] /\ rx'[t] = rx[t]
        /\ rx'[s] = rx[s] \/ rx'[s].msg = f
        /\ UNCHANGED <<targets, todo, failed, acks>>
    BY <1>0, <1>9, Started
  <2>2. f.payload \in Messages => rx'[s] # Idle /\ rx'[s].msg = f
    BY <1>9, StartsSound
  <2>3. \A k, t : HandlesAt(k, t)' = HandlesAt(k, t)
    BY <2>1 DEF HandlesAt
  <2>4. \A k, t : t \in Peers /\ t # s => BeingRead(k, t)' = BeingRead(k, t)
    BY <2>1 DEF BeingRead
  <2>5. \A k \in Messages : /\ BeingRead(k, s) = 0
                            /\ BeingRead(k, s)' = IF f.payload = k THEN 1 ELSE 0
    BY <2>1, <2>2 DEF BeingRead
  <2>6. \A k \in Messages : Carried(k, wire[s]) = Carried(k, wire'[s]) + IF f.payload = k THEN 1 ELSE 0
    BY <1>0, <2>1, CarriedTail DEF Types
  <2> HIDE DEF f
  <2>7. \A k \in Messages : Carried(k, wire'[s]) \in Nat
    <3>1. wire'[s] \in Seq(Forward)
      BY <1>0, <2>1, Queues DEF Types
    <3> QED
      BY <3>1, PlacesFinite
  <2>8. ASSUME NEW k \in Messages, NEW t \in Peers PROVE Sum(k, t)' = Sum(k, t)
    <3>1. CASE t # s
      BY <2>1, <2>3, <2>4, <3>1, SumNext DEF Sum
    <3>2. CASE t = s
      <4>1. Carried(k, wire[s]) + BeingRead(k, s) = Carried(k, wire'[s]) + BeingRead(k, s)'
        BY <2>5, <2>6, <2>7
      <4>2. Carried(k, wire'[s]) \in Nat /\ BeingRead(k, s)' \in Nat
        BY <2>5, <2>7
      <4> QED
        BY <1>0, <2>1, <2>3, <3>2, <4>1, <4>2, Summands, SumNext DEF Sum
    <3> QED
      BY <3>1, <3>2
  <2> QED
    BY <2>1, <2>8, SumKept
<1>10. ASSUME NEW s \in Peers, ReadHandle(s) PROVE PartsInv'
  <2>1. /\ rx[s] # Idle /\ rx'[s] # Idle /\ rx'[s].msg = rx[s].msg
        /\ \A t \in Peers : t # s => rx'[t] = rx[t]
        /\ UNCHANGED <<size, targets, todo, failed, wire, delivered, acks>>
    BY <1>0, <1>10, ReadNumber
  <2>2. \A k, t : t \in Peers => BeingRead(k, t)' = BeingRead(k, t) /\ HandlesAt(k, t)' = HandlesAt(k, t)
    BY <2>1 DEF BeingRead, HandlesAt
  <2>3. \A k \in Messages, t \in Peers : Sum(k, t)' = Sum(k, t)
    BY <2>1, <2>2, SumNext DEF Sum
  <2> QED
    BY <2>1, <2>3, SumKept
<1>11. ASSUME NEW s \in Peers, ReadHandleRefused(s) \/ ReadHandleFails(s) PROVE PartsInv'
  <2>1. rx'[s] = Idle /\ \A t \in Peers : t # s => rx'[t] = rx[t]
    BY <1>0, <1>11, ReceiverChange DEF ReadHandleRefused, ReadHandleFails
  <2>2. /\ failed \subseteq failed'
        /\ rx[s].msg.payload \in Messages => rx[s].msg.payload \in failed'
        /\ UNCHANGED <<targets, todo, wire, acks>>
    BY <1>11, ReadsSound DEF ReadHandleRefused, ReadHandleFails, senderVars
  <2>3. \A k \in Messages, t \in Peers : k \notin failed' => BeingRead(k, t)' = BeingRead(k, t)
    BY <2>1, <2>2 DEF BeingRead
  <2>4. \A k, t : HandlesAt(k, t)' = HandlesAt(k, t)
    BY <2>2 DEF HandlesAt
  <2>5. \A k \in Messages, t \in Peers : k \notin failed' => Sum(k, t)' = Sum(k, t)
    BY <2>2, <2>3, <2>4, SumNext DEF Sum
  <2> QED
    BY <2>2, <2>5, SumKept
<1>12. ASSUME NEW s \in Peers, NEW taken, NEW acked, FinishProcessing(s, taken, acked) PROVE PartsInv'
  <2> DEFINE f == rx[s].msg
  <2>1. /\ rx[s] # Idle /\ rx'[s] = Idle /\ \A t \in Peers : t # s => rx'[t] = rx[t]
        /\ \A t \in Peers, m \in Messages :
              acks'[t][m] = IF t = s /\ m = f.payload /\ acked
                            THEN acks[t][m] + 1 ELSE acks[t][m]
        /\ failed \subseteq failed' /\ (f.payload \in Messages \ failed' => acked)
        /\ UNCHANGED <<size, targets, todo, wire>>
    BY <1>0, <1>12, Finished
  <2>2. \A k, t : HandlesAt(k, t)' = HandlesAt(k, t)
    BY <2>1 DEF HandlesAt
  <2>3. \A k, t : t \in Peers /\ t # s => BeingRead(k, t)' = BeingRead(k, t)
    BY <2>1 DEF BeingRead
  <2>4. \A k \in Messages : /\ BeingRead(k, s)' = 0
                            /\ BeingRead(k, s) = IF k = f.payload THEN 1 ELSE 0
    BY <2>1 DEF BeingRead
  <2> HIDE DEF f
  <2>5. ASSUME NEW k \in Messages \ failed', NEW t \in Peers PROVE Sum(k, t)' = Sum(k, t)
    <3>1. CASE t # s
      BY <2>1, <2>2, <2>3, <3>1, SumNext DEF Sum
    <3>2. CASE t = s
      <4>1. acks[s][k] + BeingRead(k, s) = acks'[s][k] + BeingRead(k, s)'
        BY <1>0, <2>1, <2>4, Summands
      <4>2. acks'[s][k] \in Nat /\ BeingRead(k, s)' = 0
        BY <1>0, <2>1, <2>4, Summands
      <4> QED
        BY <1>0, <2>1, <2>2, <3>2, <4>1, <4>2, Summands, SumNext DEF Sum
    <3> QED
      BY <3>1, <3>2
  <2> QED
    BY <2>1, <2>5, SumKept
<1>13. CASE UNCHANGED vars
  <2>1. UNCHANGED <<targets, todo, failed, wire, rx, acks>>
    BY <1>13 DEF vars
  <2>2. \A k, t : BeingRead(k, t)' = BeingRead(k, t) /\ HandlesAt(k, t)' = HandlesAt(k, t)
    BY <2>1 DEF BeingRead, HandlesAt
  <2>3. \A k \in Messages, t \in Peers : Sum(k, t)' = Sum(k, t)
    BY <2>1, <2>2, SumNext DEF Sum
  <2> QED
    BY <2>1, <2>3, SumKept
<1> QED
  BY <1>1, <1>2, <1>4, <1>5, <1>6, <1>7, <1>8, <1>9, <1>10, <1>11, <1>12, <1>13
  DEF Next, Sender, Stranger, Receiver

\* A message of which nothing failed or is under way has reached all of its handles, and
\* each of the parts it took is acknowledged once: no part is too long for the sender, none
\* too long or too short for the peer.
THEOREM DeliveredToAllCorrect == Spec => []DeliveredToAll
<1>1. Inv /\ KeptInv /\ PartsInv => DeliveredToAll
  <2> SUFFICES ASSUME Inv, KeptInv, PartsInv, NEW m \in Messages, Quiet(m), m \notin failed
               PROVE  /\ \A h \in targets[m] : delivered[m][h] = 1
                      /\ \A s \in Peers : acks[s][m] = Parts(Cardinality(TargetsAt(m, s)))
    BY DEF DeliveredToAll, TargetsAt
  <2>1. /\ todo[m] = {}
        /\ \A s \in Peers : /\ \A i \in 1..Len(wire[s]) : wire[s][i].payload # m
                            /\ rx[s] # Idle => rx[s].msg.payload # m
    BY Receivers DEF Quiet, Inv
  <2>2. \A h \in targets[m] : delivered[m][h] = 1
    BY <2>1 DEF KeptInv, Under
  <2>3. ASSUME NEW s \in Peers PROVE acks[s][m] = Parts(Cardinality(TargetsAt(m, s)))
    <3>1. Sum(m, s) = Parts(Cardinality(TargetsAt(m, s)))
      BY DEF PartsInv
    <3>2. Carried(m, wire[s]) = 0
      BY <2>1, PlacesFinite DEF Inv, Types
    <3>3. BeingRead(m, s) = 0
      BY <2>1 DEF BeingRead
    <3>4. HandlesAt(m, s) = {}
      BY <2>1 DEF HandlesAt
    <3>5. Parts(Cardinality(HandlesAt(m, s))) = 0
      BY <3>4, FS_EmptySet, PartsStep
    <3>6. acks[s][m] \in Nat
      BY Summands DEF Inv
    <3> QED
      BY <3>1, <3>2, <3>3, <3>5, <3>6 DEF Sum
  <2> QED
    BY <2>2, <2>3
<1>2. Inv /\ KeptInv /\ PartsInv /\ [Next]_vars => Inv' /\ KeptInv' /\ PartsInv'
  BY NextTypes, NextRead, NextSender, NextWay, NextKept, NextParts DEF Inv
<1> QED
  BY InitInv, InitParts, <1>1, <1>2, PTL DEF Spec
===============================================================================
