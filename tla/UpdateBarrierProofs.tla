--------------------------- MODULE UpdateBarrierProofs ---------------------------
(***************************************************************************)
(* SendUpdate is correct for every number of request threads: the barrier  *)
(* keeps its two turnstiles in order however often it is used again, an    *)
(* update has been looked at when its thread is let through, and the whole *)
(* implements UpdateCalls.                                                 *)
(***************************************************************************)
EXTENDS UpdateBarrier, TLAPS

-------------------------------------------------------------------------------
(* The inductive invariant                                                   *)

\* Where the loop is in the barrier of processor t; "idle" if it serves another one.
L(t) == IF serving = t THEN loopAt ELSE "idle"

\* Who has passed the mutex on the way in, and not yet on the way out.
Inside == {"open", "wait1", "post1", "leave"}

One(b) == IF b THEN 1 ELSE 0

\* A turnstile together with whoever has come through it and not posted it again.
Token1(t) == turnstile1[t] + One(at[t] = "post1") + One(L(t) = "post1")
Token2(t) == turnstile2[t] + One(at[t] = "post2") + One(L(t) = "post2")

\* One of the two turnstiles is open, the count and the mutex are those of thread and loop.
BarrierState(t) ==
    /\ Token1(t) + Token2(t) = 1
    /\ count[t] = One(at[t] \in Inside) + One(L(t) \in Inside)
    /\ t \in locked <=> at[t] \in {"open", "close"} \/ L(t) \in {"open", "close"}

\* The first turnstile is open: both have arrived, and one of them has yet to leave.
Passing(t) ==
    /\ Token1(t) = 1
    /\ t \notin asyncSent
    /\ at[t] \in {"wait1", "post1", "leave", "close", "wait2"}
    /\ L(t) \in {"wait1", "post1", "leave", "close", "wait2"}
    /\ at[t] = "close" => L(t) = "wait2"
    /\ L(t) = "close" => at[t] = "wait2"
    /\ ~(at[t] = "wait2" /\ L(t) = "wait2")

\* It is closed: at most one has arrived, and the loop may still be on its way out of the
\* round before.
Meeting(t) ==
    /\ Token1(t) = 0
    /\ \/ at[t] \in {"idle", "stored", "wait2", "post2"} /\ t \notin asyncSent
            /\ L(t) \in {"idle", "wait2", "post2"}
       \/ at[t] \in {"enter", "wait1"} /\ t \in asyncSent /\ L(t) \in {"idle", "wait2", "post2"}
       \/ at[t] \in {"enter", "wait1"} /\ t \notin asyncSent /\ L(t) \in {"activities", "enter"}
       \/ t \notin asyncSent /\ at[t] = "enter" /\ L(t) = "wait1"
       \/ t \notin asyncSent /\ at[t] = "wait1" /\ L(t) = "open"
       \/ t \notin asyncSent /\ at[t] = "open" /\ L(t) = "wait1"

\* An update that was not looked at belongs to a call that waits for it, or failed.
PendingState(t) ==
    t \in pending => \/ at[t] \in {"idle", "stored"}
                     \/ at[t] \in {"enter", "wait1"} /\ (t \in asyncSent \/ L(t) = "activities")

RoundInv(t) == BarrierState(t) /\ (Passing(t) \/ Meeting(t)) /\ PendingState(t)

BarrierInv ==
    /\ BarrierTypeOK
    /\ serving = NoThread <=> loopAt = "idle"
    /\ \A t \in Threads : RoundInv(t)

-------------------------------------------------------------------------------
(* It is inductive                                                           *)

\* RoundInv(t) is about what belongs to processor t.
LEMMA RoundFrame ==
    ASSUME NEW t \in Threads, RoundInv(t),
           at'[t] = at[t], L(t)' = L(t), count'[t] = count[t],
           turnstile1'[t] = turnstile1[t], turnstile2'[t] = turnstile2[t],
           t \in asyncSent' <=> t \in asyncSent, t \in locked' <=> t \in locked,
           t \in pending' => t \in pending
    PROVE  RoundInv(t)'
BY DEF RoundInv, BarrierState, Passing, Meeting, PendingState, Token1, Token2

LEMMA InitInv == Init => BarrierInv
BY UpdateBarrierAssumption
DEF Init, BarrierInv, BarrierTypeOK, BarrierSteps, RoundInv, BarrierState, Passing, Meeting,
    PendingState, Token1, Token2, L, One, Inside

\* What a step of uv_barrier_wait does to the barrier of processor t, by values.
Effect(t, s, s2) ==
    \/ /\ s = "enter" /\ t \notin locked /\ count'[t] = count[t] + 1
       /\ s2 = (IF count[t] = 1 THEN "open" ELSE "wait1") /\ (t \in locked' <=> count[t] = 1)
       /\ turnstile1'[t] = turnstile1[t] /\ turnstile2'[t] = turnstile2[t]
    \/ /\ s = "open" /\ s2 = "wait1" /\ t \notin locked' /\ count'[t] = count[t]
       /\ turnstile2[t] > 0
       /\ turnstile1'[t] = turnstile1[t] + 1 /\ turnstile2'[t] = turnstile2[t] - 1
    \/ /\ s = "wait1" /\ s2 = "post1" /\ turnstile1[t] > 0
       /\ turnstile1'[t] = turnstile1[t] - 1 /\ turnstile2'[t] = turnstile2[t]
       /\ count'[t] = count[t] /\ (t \in locked' <=> t \in locked)
    \/ /\ s = "post1" /\ s2 = "leave"
       /\ turnstile1'[t] = turnstile1[t] + 1 /\ turnstile2'[t] = turnstile2[t]
       /\ count'[t] = count[t] /\ (t \in locked' <=> t \in locked)
    \/ /\ s = "leave" /\ t \notin locked /\ count'[t] = count[t] - 1
       /\ s2 = (IF count[t] = 1 THEN "close" ELSE "wait2") /\ (t \in locked' <=> count[t] = 1)
       /\ turnstile1'[t] = turnstile1[t] /\ turnstile2'[t] = turnstile2[t]
    \/ /\ s = "close" /\ s2 = "wait2" /\ t \notin locked' /\ count'[t] = count[t]
       /\ turnstile1[t] > 0
       /\ turnstile1'[t] = turnstile1[t] - 1 /\ turnstile2'[t] = turnstile2[t] + 1
    \/ /\ s = "wait2" /\ s2 = "post2" /\ turnstile2[t] > 0
       /\ turnstile1'[t] = turnstile1[t] /\ turnstile2'[t] = turnstile2[t] - 1
       /\ count'[t] = count[t] /\ (t \in locked' <=> t \in locked)
    \/ /\ s = "post2" /\ s2 = "idle"
       /\ turnstile1'[t] = turnstile1[t] /\ turnstile2'[t] = turnstile2[t] + 1
       /\ count'[t] = count[t] /\ (t \in locked' <=> t \in locked)

LEMMA BarrierWaitEffect ==
    ASSUME BarrierTypeOK, NEW t \in Threads, NEW s, NEW s2, BarrierWait(t, s, s2)
    PROVE  /\ Effect(t, s, s2)
           /\ count' = [count EXCEPT ![t] = count'[t]]
           /\ turnstile1' = [turnstile1 EXCEPT ![t] = turnstile1'[t]]
           /\ turnstile2' = [turnstile2 EXCEPT ![t] = turnstile2'[t]]
           /\ \A u \in Threads \ {t} : u \in locked' <=> u \in locked
           /\ locked' \subseteq Threads
<1> USE DEF BarrierTypeOK
<1>1. CASE Enter(t, s, s2)
  BY <1>1 DEF Enter, Effect
<1>2. CASE Open(t, s, s2)
  BY <1>2 DEF Open, Effect
<1>3. CASE Wait1(t, s, s2)
  BY <1>3 DEF Wait1, Effect
<1>4. CASE Post1(t, s, s2)
  BY <1>4 DEF Post1, Effect
<1>5. CASE Leave(t, s, s2)
  BY <1>5 DEF Leave, Effect
<1>6. CASE Close(t, s, s2)
  BY <1>6 DEF Close, Effect
<1>7. CASE Wait2(t, s, s2)
  BY <1>7 DEF Wait2, Effect
<1>8. CASE Post2(t, s, s2)
  BY <1>8 DEF Post2, Effect
<1> QED
  BY <1>1, <1>2, <1>3, <1>4, <1>5, <1>6, <1>7, <1>8 DEF BarrierWait

\* The types follow from the invariant at the processor that moved.
LEMMA BarrierWaitType ==
    ASSUME BarrierTypeOK, NEW t \in Threads, NEW s, NEW s2, BarrierWait(t, s, s2),
           RoundInv(t)', at' \in [Threads -> {"idle", "stored"} \cup BarrierSteps]
    PROVE  /\ count' \in [Threads -> 0..2]
           /\ turnstile1' \in [Threads -> 0..1] /\ turnstile2' \in [Threads -> 0..1]
<1>1. /\ count[t] \in 0..2 /\ turnstile1[t] \in 0..1 /\ turnstile2[t] \in 0..1
  BY DEF BarrierTypeOK
<1>2. turnstile1'[t] \in Nat /\ turnstile2'[t] \in Nat
  BY <1>1, BarrierWaitEffect DEF Effect
<1>3. count'[t] \in 0..2 /\ turnstile1'[t] \in 0..1 /\ turnstile2'[t] \in 0..1
  BY <1>2 DEF RoundInv, BarrierState, Token1, Token2, One
<1> QED
  BY <1>3, BarrierWaitEffect DEF BarrierTypeOK

\* A step of the thread in its barrier.
LEMMA ThreadWaitsInv ==
    ASSUME BarrierInv, NEW t \in Threads, ThreadWaits(t)
    PROVE  BarrierInv'
<1>1. PICK s2 \in BarrierSteps \cup {"idle"} :
          BarrierWait(t, at[t], s2) /\ at' = [at EXCEPT ![t] = s2]
  BY DEF ThreadWaits
<1>2. UNCHANGED <<loopAt, serving, asyncSent, pending>>
  BY DEF ThreadWaits
<1>3. \A u \in Threads : L(u)' = L(u)
  BY <1>2 DEF L
<1>4. BarrierTypeOK /\ RoundInv(t)
  BY DEF BarrierInv
<1>5. at' \in [Threads -> {"idle", "stored"} \cup BarrierSteps] /\ at'[t] = s2
  BY <1>1, <1>4 DEF BarrierTypeOK
<1>6. ASSUME NEW u \in Threads, u # t
      PROVE  RoundInv(u)'
  <2>1. /\ count'[u] = count[u] /\ turnstile1'[u] = turnstile1[u]
        /\ turnstile2'[u] = turnstile2[u] /\ (u \in locked' <=> u \in locked)
    BY <1>1, <1>4, <1>6, BarrierWaitEffect DEF BarrierTypeOK
  <2>2. at'[u] = at[u] /\ RoundInv(u)
    BY <1>1, <1>4, <1>6 DEF BarrierInv, BarrierTypeOK
  <2> QED
    BY <1>2, <1>3, <2>1, <2>2, RoundFrame
<1>7. RoundInv(t)'
  <2>1. /\ Effect(t, at[t], s2) /\ count[t] \in 0..2
        /\ turnstile1[t] \in 0..1 /\ turnstile2[t] \in 0..1
    BY <1>1, <1>4, BarrierWaitEffect DEF BarrierTypeOK
  <2>2. L(t)' = L(t)
    BY <1>3
  <2>3. PendingState(t)'
    BY <1>2, <1>4, <1>5, <2>1, <2>2
    DEF RoundInv, BarrierState, Passing, Meeting, PendingState, Token1, Token2, One, Inside, Effect
  <2>4. BarrierState(t)'
    BY <1>2, <1>4, <1>5, <2>1, <2>2
    DEF RoundInv, BarrierState, Passing, Meeting, Token1, Token2, One, Inside, Effect
  <2>5. Passing(t)' \/ Meeting(t)'
    BY <1>2, <1>4, <1>5, <2>1, <2>2
    DEF RoundInv, BarrierState, Passing, Meeting, Token1, Token2, One, Inside, Effect
  <2> QED
    BY <2>3, <2>4, <2>5 DEF RoundInv
<1> QED
  BY <1>1, <1>2, <1>4, <1>5, <1>6, <1>7, BarrierWaitType, BarrierWaitEffect
  DEF BarrierInv, BarrierTypeOK

\* A step of the event loop in the barrier of the processor it serves.
LEMMA LoopWaitsInv ==
    ASSUME BarrierInv, LoopWaits
    PROVE  BarrierInv'
<1>1. PICK t \in Threads : t = serving
  BY DEF LoopWaits, BarrierInv, BarrierTypeOK
<1>2. PICK s2 \in BarrierSteps \cup {"idle"} :
          /\ BarrierWait(t, loopAt, s2) /\ loopAt' = s2
          /\ serving' = IF s2 = "idle" THEN NoThread ELSE t
  BY <1>1 DEF LoopWaits
<1>3. UNCHANGED <<at, asyncSent, pending>>
  BY DEF LoopWaits
<1>4. L(t) = loopAt /\ L(t)' = s2
  BY <1>1, <1>2, UpdateBarrierAssumption DEF L
<1>5. BarrierTypeOK /\ RoundInv(t)
  BY DEF BarrierInv
<1>6. ASSUME NEW u \in Threads, u # t
      PROVE  RoundInv(u)'
  <2>1. /\ count'[u] = count[u] /\ turnstile1'[u] = turnstile1[u]
        /\ turnstile2'[u] = turnstile2[u] /\ (u \in locked' <=> u \in locked)
    BY <1>2, <1>5, <1>6, BarrierWaitEffect DEF BarrierTypeOK
  <2>2. L(u)' = L(u)
    BY <1>1, <1>2, <1>6, UpdateBarrierAssumption DEF L
  <2>3. RoundInv(u)
    BY DEF BarrierInv
  <2> QED
    BY <1>3, <2>1, <2>2, <2>3, RoundFrame
<1>7. RoundInv(t)'
  <2>1. /\ Effect(t, L(t), s2) /\ count[t] \in 0..2
        /\ turnstile1[t] \in 0..1 /\ turnstile2[t] \in 0..1
    BY <1>2, <1>4, <1>5, BarrierWaitEffect DEF BarrierTypeOK
  <2>2. L(t)' = s2 /\ at'[t] = at[t]
    BY <1>3, <1>4
  <2>3. PendingState(t)'
    BY <1>3, <1>5, <2>1, <2>2 DEF PendingState, RoundInv, Effect
  <2>4. BarrierState(t)'
    BY <1>3, <1>5, <2>1, <2>2
    DEF RoundInv, BarrierState, Passing, Meeting, Token1, Token2, One, Inside, Effect
  <2>5. Passing(t)' \/ Meeting(t)'
    BY <1>3, <1>5, <2>1, <2>2
    DEF RoundInv, BarrierState, Passing, Meeting, Token1, Token2, One, Inside, Effect
  <2> QED
    BY <2>3, <2>4, <2>5 DEF RoundInv
<1>8. serving' = NoThread <=> loopAt' = "idle"
  BY <1>2, UpdateBarrierAssumption
<1>9. at' \in [Threads -> {"idle", "stored"} \cup BarrierSteps]
  BY <1>3, <1>5 DEF BarrierTypeOK
<1> QED
  BY <1>2, <1>3, <1>5, <1>6, <1>7, <1>8, <1>9, BarrierWaitType, BarrierWaitEffect
  DEF BarrierInv, BarrierTypeOK, BarrierSteps

\* The other steps leave the barriers alone.
LEMMA OtherStepsInv ==
    ASSUME BarrierInv,
           \/ Timer \/ Activities
           \/ \E t \in Threads : Store(t) \/ StoreFails(t) \/ AsyncSend(t) \/ WakeUp(t)
    PROVE  BarrierInv'
<1> USE DEF BarrierInv, BarrierTypeOK, BarrierSteps
<1>1. SUFFICES ASSUME NEW u \in Threads
               PROVE  BarrierTypeOK' /\ (serving' = NoThread <=> loopAt' = "idle") /\ RoundInv(u)'
  <2>1. CASE Threads = {}
    BY <2>1 DEF Timer, Activities, barrierVars
  <2> QED
    BY <2>1
<1>2. RoundInv(u) /\ at[u] \in {"idle", "stored"} \cup BarrierSteps
  OBVIOUS
<1>3. CASE Timer
  BY <1>2, <1>3, RoundFrame DEF Timer, L, barrierVars
<1>4. CASE Activities
  <2>1. RoundInv(u)'
    BY <1>2, <1>4
    DEF Activities, RoundInv, BarrierState, Passing, Meeting, PendingState, Token1, Token2, One,
        Inside, L, barrierVars
  <2> QED
    BY <1>4, <2>1 DEF Activities, barrierVars
<1>5. ASSUME NEW t \in Threads, Store(t) \/ StoreFails(t) \/ AsyncSend(t)
      PROVE  BarrierTypeOK' /\ (serving' = NoThread <=> loopAt' = "idle") /\ RoundInv(u)'
  <2>1. RoundInv(u)'
    BY <1>2, <1>5
    DEF Store, StoreFails, AsyncSend, RoundInv, BarrierState, Passing, Meeting, PendingState,
        Token1, Token2, One, Inside, L, barrierVars
  <2> QED
    BY <1>5, <2>1 DEF Store, StoreFails, AsyncSend, barrierVars
<1>6. ASSUME NEW t \in Threads, WakeUp(t)
      PROVE  BarrierTypeOK' /\ (serving' = NoThread <=> loopAt' = "idle") /\ RoundInv(u)'
  <2>1. RoundInv(u)'
    BY <1>2, <1>6, UpdateBarrierAssumption
    DEF WakeUp, RoundInv, BarrierState, Passing, Meeting, PendingState, Token1, Token2, One,
        Inside, L, barrierVars
  <2> QED
    BY <1>6, <2>1, UpdateBarrierAssumption DEF WakeUp, barrierVars
<1> QED
  BY <1>3, <1>4, <1>5, <1>6

LEMMA NextInv == BarrierInv /\ [Next]_vars => BarrierInv'
<1> SUFFICES ASSUME BarrierInv, [Next]_vars
             PROVE  BarrierInv'
  OBVIOUS
<1>1. CASE UNCHANGED vars
  BY <1>1
  DEF vars, barrierVars, BarrierInv, BarrierTypeOK, RoundInv, BarrierState, Passing, Meeting,
      PendingState, Token1, Token2, L
<1>2. CASE LoopWaits
  BY <1>2, LoopWaitsInv
<1>3. ASSUME NEW t \in Threads, ThreadWaits(t)
      PROVE  BarrierInv'
  BY <1>3, ThreadWaitsInv
<1> QED
  BY <1>1, <1>2, <1>3, OtherStepsInv DEF Next, Loop, Thread

\* The turnstiles, the counts and the mutexes of all barriers are in step with the threads
\* and the event loop, in every round.
THEOREM BarrierInvariant == Spec => []BarrierInv
<1>1. Init => BarrierInv
  BY InitInv
<1>2. BarrierInv /\ [Next]_vars => BarrierInv'
  BY NextInv
<1> QED
  BY <1>1, <1>2, PTL DEF Spec

\* uv_barrier_wait keeps its semaphores binary and never counts more than two.
THEOREM TypeCorrect == Spec => []BarrierTypeOK
<1>1. BarrierInv => BarrierTypeOK
  BY DEF BarrierInv
<1> QED
  BY <1>1, BarrierInvariant, PTL

\* A thread that the barrier lets through has had its update looked at by the event loop,
\* for any number of threads that send updates at the same time (StoreMessage).
THEOREM UpdateSeenCorrect == Spec => []UpdateSeen
<1>1. BarrierInv => UpdateSeen
  BY DEF BarrierInv, RoundInv, PendingState, UpdateSeen
<1> QED
  BY <1>1, BarrierInvariant, PTL

-------------------------------------------------------------------------------
(* It implements UpdateCalls                                                 *)

\* The call of a thread, from where thread and loop stand.
Asked(t) == t \in asyncSent \/ L(t) = "activities"

LEMMA CallOf ==
    ASSUME NEW t \in Threads
    PROVE  /\ at[t] \in {"idle", "stored"} => call[t] = at[t]
           /\ at[t] \notin {"idle", "stored"} => call[t] = IF Asked(t) THEN "asked" ELSE "served"
BY DEF call, Asked, L

\* A step that moves no thread into or out of SendUpdate, and no call from asked to served,
\* changes no call.
LEMMA CallFrame ==
    ASSUME \A t \in Threads :
              \/ at'[t] = at[t] /\ (Asked(t)' <=> Asked(t))
              \/ /\ at[t] \notin {"idle", "stored"} /\ at'[t] \notin {"idle", "stored"}
                 /\ (Asked(t)' <=> Asked(t))
    PROVE  call' = call
BY DEF call, Asked, L

LEMMA StepRefines ==
    ASSUME BarrierInv, [Next]_vars
    PROVE  [Calls!Next]_(Calls!vars)
<1> USE DEF BarrierInv, BarrierTypeOK, BarrierSteps
<1>1. CASE UNCHANGED vars
  BY <1>1 DEF vars, barrierVars, call, Calls!vars
<1>2. CASE Timer
  BY <1>2 DEF Timer, call, Calls!Next, Calls!Look
<1>3. CASE Activities
  <2>1. PICK t \in Threads : t = serving
    BY <1>3 DEF Activities
  <2>2. at[t] \in {"enter", "wait1"} /\ t \notin asyncSent
    <3>1. L(t) = "activities" /\ RoundInv(t)
      BY <1>3, <2>1 DEF Activities, L
    <3> QED
      BY <3>1 DEF RoundInv, Passing, Meeting
  <2>3. call[t] = "asked"
    BY <1>3, <2>1, <2>2 DEF call, Activities
  <2>4. call' = [call EXCEPT ![t] = "served"]
    BY <1>3, <2>1, <2>2 DEF call, Activities
  <2> QED
    BY <1>3, <2>3, <2>4 DEF Activities, Calls!Next, Calls!Serve
<1>4. ASSUME NEW t \in Threads, Store(t)
      PROVE  Calls!Store(t)
  BY <1>4 DEF Store, call, Calls!Store
<1>5. ASSUME NEW t \in Threads, StoreFails(t)
      PROVE  Calls!Fail(t)
  BY <1>5 DEF StoreFails, call, Calls!Fail
<1>6. ASSUME NEW t \in Threads, AsyncSend(t)
      PROVE  Calls!Ask(t)
  BY <1>6 DEF AsyncSend, call, Calls!Ask
<1>7. ASSUME NEW t \in Threads, WakeUp(t)
      PROVE  UNCHANGED Calls!vars
  <2>1. \A u \in Threads : at'[u] = at[u] /\ (Asked(u)' <=> Asked(u))
    BY <1>7, UpdateBarrierAssumption DEF WakeUp, Asked, L
  <2> QED
    BY <1>7, <2>1, CallFrame DEF WakeUp, Calls!vars
<1>8. CASE LoopWaits
  <2>1. \A u \in Threads : at'[u] = at[u] /\ (Asked(u)' <=> Asked(u))
    BY <1>8, UpdateBarrierAssumption
    DEF LoopWaits, Asked, L, BarrierWait, Enter, Open, Wait1, Post1, Leave, Close, Wait2, Post2
  <2> QED
    BY <1>8, <2>1, CallFrame DEF LoopWaits, Calls!vars
<1>9. ASSUME NEW t \in Threads, ThreadWaits(t)
      PROVE  Calls!Return(t) \/ UNCHANGED Calls!vars
  <2>1. PICK s2 \in BarrierSteps \cup {"idle"} :
            BarrierWait(t, at[t], s2) /\ at' = [at EXCEPT ![t] = s2]
    BY <1>9 DEF ThreadWaits
  <2>2. UNCHANGED <<loopAt, serving, asyncSent, pending>>
    BY <1>9 DEF ThreadWaits
  <2>3. \A u \in Threads : Asked(u)' <=> Asked(u)
    BY <2>2 DEF Asked, L
  <2>4. CASE at[t] = "post2"
    <3>1. s2 = "idle"
      BY <2>1, <2>4 DEF BarrierWait, Enter, Open, Wait1, Post1, Leave, Close, Wait2, Post2
    <3>2. ~Asked(t)
      <4>1. RoundInv(t)
        OBVIOUS
      <4> QED
        BY <2>4, <4>1 DEF RoundInv, Passing, Meeting, Asked
    <3>3. call[t] = "served"
      BY <2>4, <3>2, CallOf
    <3>4. call' = [call EXCEPT ![t] = "idle"]
      BY <2>1, <2>2, <3>1 DEF call
    <3> QED
      BY <2>2, <3>3, <3>4 DEF Calls!Return
  <2>5. CASE at[t] # "post2"
    <3>1. at[t] \notin {"idle", "stored"} /\ s2 \notin {"idle", "stored"}
      BY <2>1, <2>5 DEF BarrierWait, Enter, Open, Wait1, Post1, Leave, Close, Wait2, Post2
    <3>2. call' = call
      BY <2>1, <2>3, <3>1, CallFrame
    <3> QED
      BY <2>2, <3>2 DEF Calls!vars
  <2> QED
    BY <2>4, <2>5
<1> QED
  BY <1>1, <1>2, <1>3, <1>4, <1>5, <1>6, <1>7, <1>8, <1>9
  DEF Next, Loop, Thread, Calls!Next

\* Asynchronous handle and barrier implement the promise of SendUpdate: for any number of
\* threads, a call returns only after the event loop has looked at its update because of it.
THEOREM CallsImplemented == Spec => ImplementsCalls
<1>1. Init => Calls!Init
  BY DEF Init, call, Calls!Init
<1>2. BarrierInv /\ [Next]_vars => [Calls!Next]_(Calls!vars)
  BY StepRefines
<1> QED
  BY <1>1, <1>2, BarrierInvariant, PTL DEF Spec, ImplementsCalls, Calls!Spec
===============================================================================
