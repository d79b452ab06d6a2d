------------------------------ MODULE UpdateBarrier ------------------------------
(***************************************************************************)
(* SendUpdate: a request thread stores an update, sends to the             *)
(* asynchronous handle of its processor and waits on the processor's       *)
(* barrier; the handle's callback runs the periodic activities and waits   *)
(* on the same barrier, in the event loop.                                 *)
(*                                                                         *)
(* The barrier is libuv's for Windows: a counter, a mutex and two          *)
(* semaphores, the turnstiles, used again for every update.  Whoever waits *)
(* on it is at "enter" (to lock the mutex and count up), "open" (last one  *)
(* to arrive, with the mutex), "wait1" and "post1" (the first turnstile),  *)
(* "leave" (to lock and count down), "close" (last one to leave, with the  *)
(* mutex), "wait2" and "post2" (the second turnstile).                     *)
(***************************************************************************)
EXTENDS Integers

CONSTANTS
    Threads,  \* request processing threads, each with a processor of its own
    NoThread  \* the loop runs no callback

ASSUME UpdateBarrierAssumption == NoThread \notin Threads

VARIABLES
    at,         \* where a thread is: "idle", "stored" or a step of the barrier
    loopAt,     \* where the loop is: "idle", "activities" or a step of the barrier
    serving,    \* the thread whose callback the loop runs
    asyncSent,  \* the processors whose handle has async_sent set
    pending,    \* threads whose last update the periodic activities have not seen
    count,      \* barrier->count
    locked,     \* the barriers whose mutex is held across a wait for a turnstile
    turnstile1, \* barrier->turnstile1
    turnstile2  \* barrier->turnstile2

barrierVars == <<count, locked, turnstile1, turnstile2>>
vars == <<at, loopAt, serving, asyncSent, pending, barrierVars>>

BarrierSteps == {"enter", "open", "wait1", "post1", "leave", "close", "wait2", "post2"}

\* Every variable has the type of the field it models; the semaphores stay binary.
BarrierTypeOK ==
    /\ at \in [Threads -> {"idle", "stored"} \cup BarrierSteps]
    /\ loopAt \in {"idle", "activities"} \cup BarrierSteps
    /\ serving \in Threads \cup {NoThread}
    /\ asyncSent \subseteq Threads /\ pending \subseteq Threads /\ locked \subseteq Threads
    /\ count \in [Threads -> 0..2]
    /\ turnstile1 \in [Threads -> 0..1] /\ turnstile2 \in [Threads -> 0..1]

\* RequestProcessor::Initialize with uv_barrier_init(&m_Barrier, 2).
Init ==
    /\ at = [t \in Threads |-> "idle"]
    /\ loopAt = "idle" /\ serving = NoThread
    /\ asyncSent = {} /\ pending = {} /\ locked = {}
    /\ count = [t \in Threads |-> 0]
    /\ turnstile1 = [t \in Threads |-> 0]
    /\ turnstile2 = [t \in Threads |-> 1]

-------------------------------------------------------------------------------
(* uv_barrier_wait on the barrier of processor t: a step from s to s2        *)

Enter(t, s, s2) ==
    /\ s = "enter" /\ t \notin locked
    /\ count' = [count EXCEPT ![t] = @ + 1]
    /\ s2 = IF count[t] + 1 = 2 THEN "open" ELSE "wait1"
    /\ locked' = IF count[t] + 1 = 2 THEN locked \cup {t} ELSE locked
    /\ UNCHANGED <<turnstile1, turnstile2>>

\* Mutant: the first turnstile is posted once for each of the two.
OpenForBoth(t, s, s2) ==
    /\ s = "open" /\ turnstile2[t] > 0
    /\ turnstile2' = [turnstile2 EXCEPT ![t] = @ - 1]
    /\ turnstile1' = [turnstile1 EXCEPT ![t] = @ + 2]
    /\ locked' = locked \ {t}
    /\ s2 = "wait1"
    /\ UNCHANGED count

\* The last one to arrive closes the second turnstile and opens the first.
Open(t, s, s2) ==
    /\ s = "open" /\ turnstile2[t] > 0
    /\ turnstile2' = [turnstile2 EXCEPT ![t] = @ - 1]
    /\ turnstile1' = [turnstile1 EXCEPT ![t] = @ + 1]
    /\ locked' = locked \ {t}
    /\ s2 = "wait1"
    /\ UNCHANGED count

Wait1(t, s, s2) ==
    /\ s = "wait1" /\ turnstile1[t] > 0
    /\ turnstile1' = [turnstile1 EXCEPT ![t] = @ - 1]
    /\ s2 = "post1"
    /\ UNCHANGED <<count, locked, turnstile2>>

Post1(t, s, s2) ==
    /\ s = "post1"
    /\ turnstile1' = [turnstile1 EXCEPT ![t] = @ + 1]
    /\ s2 = "leave"
    /\ UNCHANGED <<count, locked, turnstile2>>

Leave(t, s, s2) ==
    /\ s = "leave" /\ t \notin locked
    /\ count' = [count EXCEPT ![t] = @ - 1]
    /\ s2 = IF count[t] - 1 = 0 THEN "close" ELSE "wait2"
    /\ locked' = IF count[t] - 1 = 0 THEN locked \cup {t} ELSE locked
    /\ UNCHANGED <<turnstile1, turnstile2>>

\* Mutant: the first turnstile is left open.
CloseSecondOnly(t, s, s2) ==
    /\ s = "close"
    /\ turnstile2' = [turnstile2 EXCEPT ![t] = @ + 1]
    /\ locked' = locked \ {t}
    /\ s2 = "wait2"
    /\ UNCHANGED <<count, turnstile1>>

\* The last one to leave closes the first turnstile and opens the second.
Close(t, s, s2) ==
    /\ s = "close" /\ turnstile1[t] > 0
    /\ turnstile1' = [turnstile1 EXCEPT ![t] = @ - 1]
    /\ turnstile2' = [turnstile2 EXCEPT ![t] = @ + 1]
    /\ locked' = locked \ {t}
    /\ s2 = "wait2"
    /\ UNCHANGED count

Wait2(t, s, s2) ==
    /\ s = "wait2" /\ turnstile2[t] > 0
    /\ turnstile2' = [turnstile2 EXCEPT ![t] = @ - 1]
    /\ s2 = "post2"
    /\ UNCHANGED <<count, locked, turnstile1>>

Post2(t, s, s2) ==
    /\ s = "post2"
    /\ turnstile2' = [turnstile2 EXCEPT ![t] = @ + 1]
    /\ s2 = "idle"
    /\ UNCHANGED <<count, locked, turnstile1>>

BarrierWait(t, s, s2) ==
    \/ Enter(t, s, s2) \/ Open(t, s, s2) \/ Wait1(t, s, s2) \/ Post1(t, s, s2)
    \/ Leave(t, s, s2) \/ Close(t, s, s2) \/ Wait2(t, s, s2) \/ Post2(t, s, s2)

-------------------------------------------------------------------------------
(* The request thread: StoreMessage with bIsUpdate                           *)

Store(t) ==
    /\ at[t] = "idle"
    /\ at' = [at EXCEPT ![t] = "stored"]
    /\ pending' = pending \cup {t}
    /\ UNCHANGED <<loopAt, serving, asyncSent, barrierVars>>

\* std::bad_alloc for a later response of the same update: StoreMessage returns.
StoreFails(t) ==
    /\ at[t] = "stored"
    /\ at' = [at EXCEPT ![t] = "idle"]
    /\ UNCHANGED <<loopAt, serving, asyncSent, pending, barrierVars>>

\* uv_async_send.
AsyncSend(t) ==
    /\ at[t] = "stored"
    /\ at' = [at EXCEPT ![t] = "enter"]
    /\ asyncSent' = asyncSent \cup {t}
    /\ UNCHANGED <<loopAt, serving, pending, barrierVars>>

\* WaitOnBarrier.
ThreadWaits(t) ==
    /\ \E s2 \in BarrierSteps \cup {"idle"} :
          BarrierWait(t, at[t], s2) /\ at' = [at EXCEPT ![t] = s2]
    /\ UNCHANGED <<loopAt, serving, asyncSent, pending>>

-------------------------------------------------------------------------------
(* The event loop                                                            *)

\* Mutant: the handles are not told apart.
WakeUpOnly(t) ==
    /\ loopAt = "idle" /\ asyncSent = {t}
    /\ asyncSent' = {}
    /\ loopAt' = "activities"
    /\ serving' = t
    /\ UNCHANGED <<at, pending, barrierVars>>

\* uv_process_async_wakeup_req calls send_update_callback.
WakeUp(t) ==
    /\ loopAt = "idle" /\ t \in asyncSent
    /\ asyncSent' = asyncSent \ {t}
    /\ loopAt' = "activities"
    /\ serving' = t
    /\ UNCHANGED <<at, pending, barrierVars>>

\* Mutant: only the update of the calling thread is looked at.
ActivitiesForOne ==
    /\ loopAt = "activities"
    /\ loopAt' = "enter"
    /\ pending' = pending \ {serving}
    /\ UNCHANGED <<at, serving, asyncSent, barrierVars>>

\* send_update_callback: DoPeriodicActivities.
Activities ==
    /\ loopAt = "activities"
    /\ loopAt' = "enter"
    /\ pending' = {}
    /\ UNCHANGED <<at, serving, asyncSent, barrierVars>>

\* send_update_callback: WaitOnBarrier.
LoopWaits ==
    /\ serving # NoThread
    /\ \E s2 \in BarrierSteps \cup {"idle"} :
          /\ BarrierWait(serving, loopAt, s2)
          /\ loopAt' = s2
          /\ serving' = IF s2 = "idle" THEN NoThread ELSE serving
    /\ UNCHANGED <<at, asyncSent, pending>>

\* on_timer and other callbacks run the periodic activities as well.
Timer ==
    /\ loopAt = "idle"
    /\ pending' = {}
    /\ UNCHANGED <<at, loopAt, serving, asyncSent, barrierVars>>

-------------------------------------------------------------------------------
Thread(t) == AsyncSend(t) \/ StoreFails(t) \/ ThreadWaits(t)

Loop == Activities \/ LoopWaits \/ \E t \in Threads : WakeUp(t)

Next == Loop \/ Timer \/ \E t \in Threads : Store(t) \/ Thread(t)

\* Threads and loop run on; every handle that was sent to gets its callback; whoever
\* waits for a semaphore that is posted again and again gets it.
Fairness ==
    /\ \A t \in Threads : SF_vars(Thread(t)) /\ SF_vars(WakeUp(t))
    /\ SF_vars(Loop)

Spec == Init /\ [][Next]_vars /\ Fairness

-------------------------------------------------------------------------------
(* Properties                                                                *)

\* A thread that is through the barrier has had its update looked at by the periodic
\* activities, and so has had one that returns from SendUpdate.
UpdateSeen ==
    \A t \in Threads :
        at[t] \in {"post1", "leave", "close", "wait2", "post2"} => t \notin pending

\* The call of SendUpdate a thread is in, seen from outside.
call ==
    [t \in Threads |->
        CASE at[t] \in {"idle", "stored"} -> at[t]
          [] at[t] \notin {"idle", "stored"}
               /\ (t \in asyncSent \/ (serving = t /\ loopAt = "activities")) -> "asked"
          [] OTHER -> "served"]

Calls == INSTANCE UpdateCalls WITH call <- call, pending <- pending

\* Asynchronous handle and barrier implement the call: it returns only after the loop has
\* looked at the update because of it.
ImplementsCalls == Calls!Spec

\* Every SendUpdate returns: neither the thread nor the loop waits for ever.
UpdateReturns ==
    \A t \in Threads : at[t] # "idle" ~> at[t] = "idle"
===============================================================================
