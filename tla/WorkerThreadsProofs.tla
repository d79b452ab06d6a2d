--------------------------- MODULE WorkerThreadsProofs ---------------------------
(***************************************************************************)
(* libuv's pool serves the framework for every number of threads and every *)
(* set of works: a work is in one place, no thread sleeps on work, threads *)
(* that process requests have numbers below the number of processors, and  *)
(* logger and file writer end with nothing left behind.                    *)
(***************************************************************************)
EXTENDS WorkerThreads, FiniteSetTheorems, TLAPS

-------------------------------------------------------------------------------
(* Counting                                                                  *)

LEMMA Constants ==
    /\ MaxRequestProcessingThreads \in Nat /\ MaxRequestProcessingThreads # 0
    /\ NoWork \notin Works
    /\ \A w \in ClientWorks : w \notin Drains /\ w \notin Others
    /\ \A o \in Others : o \notin Drains
    /\ Requests \subseteq ClientWorks /\ ClientWorks \subseteq Works
BY WorkerThreadsAssumption DEF Works, ClientWorks, Drains, NoWork

LEMMA PoolFinite ==
    /\ IsFiniteSet(Pool) /\ Cardinality(Pool) = MaxRequestProcessingThreads + 2
    /\ \A S \in SUBSET Pool :
          /\ IsFiniteSet(S) /\ Cardinality(S) \in Nat /\ Cardinality(S) <= Cardinality(Pool)
          /\ Cardinality(S) = 0 <=> S = {}
          /\ \A t \in Pool : /\ t \notin S => Cardinality(S \cup {t}) = Cardinality(S) + 1
                             /\ t \in S => Cardinality(S \ {t}) = Cardinality(S) - 1
<1>1. IsFiniteSet(Pool) /\ Cardinality(Pool) = MaxRequestProcessingThreads + 2
  BY Constants, FS_Interval DEF Pool
<1>2. ASSUME NEW S \in SUBSET Pool
      PROVE  /\ IsFiniteSet(S) /\ Cardinality(S) \in Nat /\ Cardinality(S) <= Cardinality(Pool)
             /\ Cardinality(S) = 0 <=> S = {}
             /\ \A t \in Pool : /\ t \notin S => Cardinality(S \cup {t}) = Cardinality(S) + 1
                                /\ t \in S => Cardinality(S \ {t}) = Cardinality(S) - 1
  <2>1. IsFiniteSet(S) /\ Cardinality(S) <= Cardinality(Pool)
    BY <1>1, FS_Subset
  <2> QED
    BY <2>1, FS_CardinalityType, FS_EmptySet, FS_AddElement, FS_RemoveElement
<1> QED
  BY <1>1, <1>2

Indexes(w, s) == {i \in 1..Len(s) : s[i] = w}

LEMMA IndexesFinite ==
    ASSUME NEW s \in Seq(Works), NEW w
    PROVE  /\ IsFiniteSet(Indexes(w, s)) /\ Occurrences(w, s) \in Nat
           /\ Occurrences(w, s) = Cardinality(Indexes(w, s))
           /\ Occurrences(w, s) = 0 <=> \A i \in 1..Len(s) : s[i] # w
<1>1. Len(s) \in Nat /\ Indexes(w, s) \in SUBSET (1..Len(s))
  BY DEF Indexes
<1>2. IsFiniteSet(1..Len(s))
  BY <1>1, FS_Interval
<1>3. IsFiniteSet(Indexes(w, s))
  BY <1>1, <1>2, FS_Subset
<1>4. Occurrences(w, s) = Cardinality(Indexes(w, s))
  BY DEF Occurrences, Indexes
<1>5. Cardinality(Indexes(w, s)) \in Nat
  BY <1>3, FS_CardinalityType
<1>6. Cardinality(Indexes(w, s)) = 0 <=> Indexes(w, s) = {}
  BY <1>3, FS_EmptySet
<1> QED
  BY <1>3, <1>4, <1>5, <1>6 DEF Indexes

\* A work that is appended occurs once more.
LEMMA OccurrencesAppend ==
    ASSUME NEW s \in Seq(Works), NEW x \in Works, NEW w
    PROVE  Occurrences(w, Append(s, x)) = Occurrences(w, s) + IF w = x THEN 1 ELSE 0
<1>1. /\ Append(s, x) \in Seq(Works) /\ Len(Append(s, x)) = Len(s) + 1 /\ Len(s) \in Nat
      /\ \A i \in 1..Len(s) : Append(s, x)[i] = s[i]
      /\ Append(s, x)[Len(s) + 1] = x
  OBVIOUS
<1>2. Len(s) + 1 \notin Indexes(w, s)
  BY <1>1 DEF Indexes
<1>3. CASE w = x
  <2>1. Indexes(w, Append(s, x)) = Indexes(w, s) \cup {Len(s) + 1}
    BY <1>1, <1>3 DEF Indexes
  <2>2. Cardinality(Indexes(w, s) \cup {Len(s) + 1}) = Cardinality(Indexes(w, s)) + 1
    BY <1>2, IndexesFinite, FS_AddElement
  <2>3. /\ Occurrences(w, Append(s, x)) = Cardinality(Indexes(w, Append(s, x)))
        /\ Occurrences(w, s) = Cardinality(Indexes(w, s))
    BY <1>1, IndexesFinite
  <2> QED
    BY <1>3, <2>1, <2>2, <2>3
<1>4. CASE w # x
  <2>1. Indexes(w, Append(s, x)) = Indexes(w, s)
    BY <1>1, <1>4 DEF Indexes
  <2>2. Occurrences(w, Append(s, x)) = Occurrences(w, s) /\ Occurrences(w, s) \in Nat
    BY <1>1, <2>1, IndexesFinite
  <2> QED
    BY <1>4, <2>2
<1> QED
  BY <1>3, <1>4

\* One that is taken off the front occurs once less.
LEMMA OccurrencesTail ==
    ASSUME NEW s \in Seq(Works), s # <<>>, NEW w
    PROVE  Occurrences(w, s) = Occurrences(w, Tail(s)) + IF w = Head(s) THEN 1 ELSE 0
<1>1. /\ Tail(s) \in Seq(Works) /\ Len(Tail(s)) = Len(s) - 1 /\ Len(s) \in Nat /\ Len(s) > 0
      /\ \A i \in 1..(Len(s) - 1) : Tail(s)[i] = s[i + 1]
      /\ Head(s) = s[1]
  OBVIOUS
<1> DEFINE Rest == Indexes(w, s) \ {1}
<1>2. Cardinality(Indexes(w, Tail(s))) = Cardinality(Rest)
  <2> DEFINE f == [i \in Rest |-> i - 1]
  <2>1. f \in Bijection(Rest, Indexes(w, Tail(s)))
    <3>1. f \in [Rest -> Indexes(w, Tail(s))]
      BY <1>1 DEF Indexes
    <3>2. \A i, j \in Rest : f[i] = f[j] => i = j
      BY <1>1 DEF Indexes
    <3>3. \A j \in Indexes(w, Tail(s)) : j + 1 \in Rest /\ f[j + 1] = j
      BY <1>1 DEF Indexes
    <3>4. \A j \in Indexes(w, Tail(s)) : \E i \in Rest : f[i] = j
      BY <3>3
    <3> QED
      BY <3>1, <3>2, <3>4 DEF Bijection, Injection, Surjection, IsInjective
  <2>2. ExistsBijection(Rest, Indexes(w, Tail(s)))
    BY <2>1 DEF ExistsBijection
  <2>3. IsFiniteSet(Rest)
    BY IndexesFinite, FS_RemoveElement
  <2> QED
    BY <2>2, <2>3, FS_Bijection
<1>3. Cardinality(Rest) = IF 1 \in Indexes(w, s) THEN Cardinality(Indexes(w, s)) - 1
                          ELSE Cardinality(Indexes(w, s))
  BY IndexesFinite, FS_RemoveElement
<1>4. 1 \in Indexes(w, s) <=> w = Head(s)
  BY <1>1 DEF Indexes
<1>5. /\ Occurrences(w, s) = Cardinality(Indexes(w, s)) /\ Occurrences(w, s) \in Nat
      /\ Occurrences(w, Tail(s)) = Cardinality(Indexes(w, Tail(s)))
  BY <1>1, IndexesFinite
<1> QED
  BY <1>2, <1>3, <1>4, <1>5

LEMMA OccurrencesEmpty == \A w : Occurrences(w, <<>>) = 0
<1>1. \A w : {i \in 1..Len(<<>>) : <<>>[i] = w} = {}
  OBVIOUS
<1> QED
  BY <1>1, FS_EmptySet DEF Occurrences

-------------------------------------------------------------------------------
(* The inductive invariant: places                                           *)

\* The type invariant, in parts; idle has one of its own.
Flags ==
    /\ asyncSent \in BOOLEAN
    /\ quit \in [Drains -> BOOLEAN]
    /\ stop \in [Drains -> BOOLEAN] /\ stopped \in [Drains -> BOOLEAN]

ThreadStates == {"ready", "waiting", "signalled", "starting", "working"}

Values ==
    /\ pc \in [Pool -> ThreadStates]
    /\ job \in [Pool -> Works \cup {NoWork}]
    /\ index \in [Pool -> Nat \cup {NoIndex}] /\ counter \in Nat
    /\ wq \in Seq(Works) /\ doneq \in Seq(Works) /\ batch \in Seq(Works)
    /\ loop \in {"start", "idle", "split", "callbacks", "stopped"}
    /\ fresh \subseteq Works /\ deferred \subseteq Requests /\ over \subseteq Works
    /\ drain \in [Drains -> {"off", "check", "sleep", "process", "end"}]
    /\ queued \in [Drains -> Nat] /\ items \in [Drains -> Nat] /\ owed \in [Drains -> Nat]

\* A thread has a job unless it is at the queue.
JobInv == \A t \in Pool : job[t] = NoWork <=> pc[t] \in {"ready", "waiting", "signalled"}

\* idle_threads counts the threads inside uv_cond_wait, woken ones included.
Idlers == {t \in Pool : pc[t] \in {"waiting", "signalled"}}
IdleInv == idle = Cardinality(Idlers)

\* How often work w is found, over all places.
Jobs(w) == {t \in Pool : job[t] = w}
One(b) == IF b THEN 1 ELSE 0
Places(w) ==
    One(w \in fresh) + One(w \in over) + Occurrences(w, wq) + Occurrences(w, doneq)
      + Occurrences(w, batch) + Cardinality(Jobs(w))

\* The loop: no batch is left behind, and the drains are queued first.
LoopInv ==
    /\ loop # "callbacks" => batch = <<>>
    /\ loop = "start" => "writer" \in fresh /\ ClientWorks \subseteq fresh
    /\ loop # "start" => Drains \cap fresh = {}

OnePlace == \A w \in Works : Places(w) = 1

PlaceInv == Values /\ JobInv /\ IdleInv /\ LoopInv /\ OnePlace /\ NoThreadSleepsOnWork

-------------------------------------------------------------------------------
(* Operators that several actions use                                        *)

USE DEF threadVars, poolVars, doneVars, loopVars, drainVars, queueVars

LEMMA DrainsWork == "logger" \in Works /\ "writer" \in Works /\ Drains \subseteq Works
BY DEF Works, Drains

\* A work that is found in one place is in no other.
LEMMA Exclusive ==
    ASSUME Values, NEW w \in Works, Places(w) = 1
    PROVE  /\ w \in fresh => /\ w \notin over /\ \A t \in Pool : job[t] # w
                             /\ \A i \in 1..Len(wq) : wq[i] # w
                             /\ \A i \in 1..Len(doneq) : doneq[i] # w
                             /\ \A i \in 1..Len(batch) : batch[i] # w
           /\ w \in over => /\ \A t \in Pool : job[t] # w
                            /\ \A i \in 1..Len(wq) : wq[i] # w
                            /\ \A i \in 1..Len(doneq) : doneq[i] # w
                            /\ \A i \in 1..Len(batch) : batch[i] # w
           /\ \A i \in 1..Len(wq) : wq[i] = w =>
                 /\ \A t \in Pool : job[t] # w
                 /\ \A j \in 1..Len(doneq) : doneq[j] # w
                 /\ \A j \in 1..Len(batch) : batch[j] # w
           /\ \A t \in Pool : job[t] = w =>
                 /\ \A j \in 1..Len(doneq) : doneq[j] # w
                 /\ \A j \in 1..Len(batch) : batch[j] # w
                 /\ \A u \in Pool : job[u] = w => u = t
           /\ \/ w \in fresh \/ w \in over \/ \E i \in 1..Len(wq) : wq[i] = w
              \/ \E i \in 1..Len(doneq) : doneq[i] = w
              \/ \E i \in 1..Len(batch) : batch[i] = w
              \/ \E t \in Pool : job[t] = w
<1>1. /\ Occurrences(w, wq) \in Nat /\ Occurrences(w, doneq) \in Nat
      /\ Occurrences(w, batch) \in Nat
      /\ Occurrences(w, wq) = 0 <=> \A i \in 1..Len(wq) : wq[i] # w
      /\ Occurrences(w, doneq) = 0 <=> \A i \in 1..Len(doneq) : doneq[i] # w
      /\ Occurrences(w, batch) = 0 <=> \A i \in 1..Len(batch) : batch[i] # w
  BY IndexesFinite DEF Values
<1>2. Jobs(w) \in SUBSET Pool
  BY DEF Jobs
<1>3. Cardinality(Jobs(w)) \in Nat /\ (Cardinality(Jobs(w)) = 0 <=> Jobs(w) = {})
  BY <1>2, PoolFinite
<1>4. Cardinality(Jobs(w)) = 0 <=> \A t \in Pool : job[t] # w
  BY <1>3 DEF Jobs
<1>5. ASSUME NEW t \in Pool, NEW u \in Pool, job[t] = w, job[u] = w PROVE t = u
  <2>1. Cardinality(Jobs(w)) = 1
    BY <1>1, <1>3, <1>4, <1>5, SMTT(30) DEF Places, One
  <2>2. Cardinality(Jobs(w) \ {t}) = 0 /\ Jobs(w) \ {t} \in SUBSET Pool
    BY <1>2, <1>5, <2>1, PoolFinite DEF Jobs
  <2>3. Jobs(w) \ {t} = {}
    BY <2>2, PoolFinite
  <2> QED
    BY <1>5, <2>3 DEF Jobs
<1> QED
  BY <1>1, <1>3, <1>4, <1>5, SMTT(30) DEF Places, One

LEMMA JobsFinite == ASSUME NEW w PROVE Jobs(w) \in SUBSET Pool /\ Cardinality(Jobs(w)) \in Nat
<1>1. Jobs(w) \in SUBSET Pool
  BY DEF Jobs
<1> QED
  BY <1>1, PoolFinite

\* A thread is given a job, or gives one back.
LEMMA JobsChange ==
    ASSUME Values, NEW t \in Pool, NEW v, v # job[t], job' = [job EXCEPT ![t] = v], NEW w
    PROVE  Cardinality(Jobs(w)') = Cardinality(Jobs(w)) + One(w = v) - One(w = job[t])
<1>1. Jobs(w) \in SUBSET Pool /\ Cardinality(Jobs(w)) \in Nat
  BY PoolFinite DEF Jobs
<1>2. CASE w = v
  <2>1. Jobs(w)' = Jobs(w) \cup {t} /\ t \notin Jobs(w)
    BY <1>2 DEF Jobs, Values
  <2>2. Cardinality(Jobs(w)') = Cardinality(Jobs(w)) + 1
    BY <1>1, <2>1, PoolFinite
  <2> QED
    BY <1>1, <1>2, <2>2 DEF One
<1>3. CASE w = job[t]
  <2>1. Jobs(w)' = Jobs(w) \ {t} /\ t \in Jobs(w)
    BY <1>3 DEF Jobs, Values
  <2>2. Cardinality(Jobs(w)') = Cardinality(Jobs(w)) - 1
    BY <1>1, <2>1, PoolFinite
  <2> QED
    BY <1>1, <1>3, <2>2 DEF One
<1>4. CASE w # v /\ w # job[t]
  <2>1. Jobs(w)' = Jobs(w)
    BY <1>4 DEF Jobs, Values
  <2> QED
    BY <1>1, <1>4, <2>1 DEF One
<1> QED
  BY <1>2, <1>3, <1>4

\* The threads inside uv_cond_wait, and those that will look at the queue.
Lookers == {t \in Pool : HasMutex(t)}

LEMMA ThreadCounts ==
    /\ IsFiniteSet(Idlers) /\ Cardinality(Idlers) \in Nat /\ Cardinality(Idlers) <= Cardinality(Pool)
    /\ Cardinality(Lookers) \in Nat
    /\ Cardinality(Idlers) > 0 <=> Idlers # {}
<1>1. Idlers \in SUBSET Pool /\ Lookers \in SUBSET Pool
  BY DEF Idlers, Lookers
<1>2. Cardinality(Idlers) \in Nat /\ (Cardinality(Idlers) = 0 <=> Idlers = {})
  BY <1>1, PoolFinite
<1> QED
  BY <1>1, <1>2, PoolFinite

\* post keeps the count of idle threads right, and wakes a thread for the new work.
LEMMA PostEffect ==
    ASSUME Values, JobInv, IdleInv, NoThreadSleepsOnWork, NEW w \in Works, Post(w), UNCHANGED job
    PROVE  /\ wq' = Append(wq, w) /\ pc' \in [Pool -> ThreadStates] /\ JobInv' /\ IdleInv'
           /\ \A t \in Pool : pc'[t] # pc[t] => pc[t] = "waiting" /\ pc'[t] = "signalled"
           /\ NoThreadSleepsOnWork'
<1>1. /\ wq' = Append(wq, w) /\ wq \in Seq(Works) /\ Len(Append(wq, w)) = Len(wq) + 1
      /\ Len(wq) \in Nat /\ idle' = idle
  BY DEF Post, Values
<1>2. CASE pc' = pc /\ Waiting = {}
  <2>1. Idlers' = Idlers /\ Waiting' = {}
    BY <1>2 DEF Idlers, Waiting
  <2> QED
    BY <1>1, <1>2, <2>1 DEF IdleInv, JobInv, NoThreadSleepsOnWork, Values
<1>3. ASSUME NEW t \in Waiting, pc' = [pc EXCEPT ![t] = "signalled"]
      PROVE  /\ pc' \in [Pool -> ThreadStates] /\ JobInv' /\ IdleInv'
             /\ \A u \in Pool : pc'[u] # pc[u] => pc[u] = "waiting" /\ pc'[u] = "signalled"
             /\ NoThreadSleepsOnWork'
  <2>1. t \in Pool /\ pc[t] = "waiting"
    BY <1>3 DEF Waiting
  <2>2. /\ pc' \in [Pool -> ThreadStates] /\ Idlers' = Idlers
        /\ \A u \in Pool : pc'[u] # pc[u] => pc[u] = "waiting" /\ pc'[u] = "signalled"
    BY <1>3, <2>1 DEF Values, ThreadStates, Idlers
  <2>3. Lookers' = Lookers \cup {t} /\ t \notin Lookers /\ Lookers \in SUBSET Pool
    BY <1>3, <2>1 DEF Lookers, HasMutex, Values
  <2>4. Cardinality(Lookers') = Cardinality(Lookers) + 1
    BY <2>1, <2>3, PoolFinite
  <2>5. Len(wq) <= Cardinality(Lookers)
    BY <1>3 DEF NoThreadSleepsOnWork, Lookers
  <2>6. Len(wq') <= Cardinality(Lookers')
    BY <1>1, <2>4, <2>5, ThreadCounts
  <2>7. NoThreadSleepsOnWork'
    BY <2>6 DEF NoThreadSleepsOnWork, Lookers
  <2>8. JobInv'
    BY <1>3, <2>1 DEF JobInv, Values
  <2> QED
    BY <1>1, <2>2, <2>7, <2>8 DEF IdleInv
<1>4. \/ pc' = pc /\ Waiting = {}
      \/ \E t \in Waiting : pc' = [pc EXCEPT ![t] = "signalled"]
  <2>1. CASE idle > 0
    BY <2>1 DEF Post, Signal
  <2>2. CASE ~(idle > 0)
    <3>1. Idlers = {}
      BY <2>2, ThreadCounts DEF IdleInv
    <3>2. Waiting = {}
      BY <3>1 DEF Waiting, Idlers
    <3> QED
      BY <2>2, <3>2 DEF Post
  <2> QED
    BY <2>1, <2>2
<1> QED
  BY <1>1, <1>2, <1>3, <1>4 DEF Values

-------------------------------------------------------------------------------
(* PlaceInv is inductive                                                     *)

LEMMA FlagsInv == Flags /\ [Next]_vars => Flags'
<1> SUFFICES ASSUME Flags, [Next]_vars PROVE Flags'
  OBVIOUS
<1> USE DEF Flags
<1>1. ASSUME NEW t \in Pool, Worker(t) \/ WakeUpSpuriously(t) PROVE Flags'
  BY <1>1 DEF Worker, Wait, TakeWork, StartWork, QueueFile, FinishWork, Announce,
              WakeUpSpuriously
<1>2. ASSUME NEW d \in Drains, Drain(d) PROVE Flags'
  BY <1>2 DEF Drain, CheckQueue, ProcessItem, Pause, ReadStopFlag, drainUnchanged
<1>3. CASE StartDrains \/ LogStat \/ \E w \in Works : Submit(w)
  BY <1>3 DEF StartDrains, LogStat, Submit, loopUnchanged
<1>4. CASE WorkDone
  BY <1>4 DEF WorkDone, WakeUpLoop, SplitQueue, RequeueDeferred, CallBack, CallbacksDone
<1>5. CASE StopDrains
  BY <1>5 DEF StopDrains, StopDrain, Drains
<1>6. CASE UNCHANGED vars
  BY <1>6 DEF vars
<1> QED
  BY <1>1, <1>2, <1>3, <1>4, <1>5, <1>6 DEF Next

LEMMA InitPlaces == Init => Flags /\ PlaceInv
<1> SUFFICES ASSUME Init PROVE Flags /\ PlaceInv
  OBVIOUS
<1>1. Flags
  BY DEF Init, Flags
<1>2. Values
  BY DEF Init, Values, ThreadStates
<1>3. JobInv
  BY DEF Init, JobInv
<1>4. Idlers = {} /\ Waiting = {}
  BY DEF Init, Idlers, Waiting
<1>5. IdleInv /\ NoThreadSleepsOnWork
  BY <1>4, FS_EmptySet DEF Init, IdleInv, NoThreadSleepsOnWork
<1>6. LoopInv
  BY DrainsWork DEF Init, LoopInv, Works
<1>7. ASSUME NEW w \in Works PROVE Places(w) = 1
  <2>1. Jobs(w) = {}
    BY Constants DEF Init, Jobs
  <2> QED
    BY <2>1, FS_EmptySet, OccurrencesEmpty DEF Init, Places, One
<1> QED
  BY <1>1, <1>2, <1>3, <1>5, <1>6, <1>7 DEF PlaceInv, OnePlace

\* Nothing of it depends on the counters of the drains.
LEMMA PlacesFrame ==
    ASSUME PlaceInv, UNCHANGED <<pc, job, idle, wq, doneq, batch, fresh, over>>
    PROVE  JobInv' /\ IdleInv' /\ OnePlace' /\ NoThreadSleepsOnWork'
BY DEF PlaceInv, JobInv, IdleInv, Idlers, OnePlace, Places, Jobs, NoThreadSleepsOnWork, Waiting,
       HasMutex

\* Threads at the queue.
LEMMA WaitInv ==
    ASSUME PlaceInv, NEW t \in Pool, Wait(t) \/ WakeUpSpuriously(t) \/ StartWork(t)
    PROVE  PlaceInv'
<1> USE DEF PlaceInv
<1>0. Idlers \in SUBSET Pool /\ Lookers \in SUBSET Pool
  BY DEF Idlers, Lookers
<1>1. CASE Wait(t)
  <2>1. /\ pc' = [pc EXCEPT ![t] = "waiting"] /\ idle' = idle - WasIdle(t) + 1 /\ wq = <<>>
        /\ pc[t] \in {"ready", "signalled"}
        /\ UNCHANGED <<job, index, counter, wq, doneVars, loopVars, deferred, drainVars, queueVars>>
    BY <1>1 DEF Wait, HasMutex
  <2>2. Values' /\ JobInv' /\ LoopInv' /\ OnePlace'
    BY <2>1 DEF Values, ThreadStates, JobInv, LoopInv, OnePlace, Places, Jobs
  <2>3. NoThreadSleepsOnWork'
    <3>1. Len(wq') = 0
      BY <2>1
    <3>2. Lookers' \in SUBSET Pool
      BY DEF Lookers
    <3>3. Cardinality(Lookers') \in Nat
      BY <3>2, PoolFinite
    <3> QED
      BY <3>1, <3>3 DEF NoThreadSleepsOnWork, Lookers
  <2>4. Idlers' = Idlers \cup {t} /\ (t \in Idlers <=> pc[t] = "signalled")
    BY <2>1 DEF Idlers, Values
  <2>5. ASSUME pc[t] = "signalled" PROVE IdleInv'
    <3>1. Idlers' = Idlers
      BY <2>4, <2>5
    <3> QED
      BY <2>1, <2>5, <3>1, ThreadCounts DEF IdleInv, WasIdle
  <2>6. ASSUME pc[t] # "signalled" PROVE IdleInv'
    <3>1. Cardinality(Idlers') = Cardinality(Idlers) + 1
      BY <1>0, <2>4, <2>6, PoolFinite
    <3> QED
      BY <2>1, <2>6, <3>1, ThreadCounts DEF IdleInv, WasIdle
  <2> QED
    BY <2>2, <2>3, <2>5, <2>6
<1>2. CASE WakeUpSpuriously(t)
  <2>1. /\ pc' = [pc EXCEPT ![t] = "signalled"] /\ pc[t] = "waiting"
        /\ UNCHANGED <<job, index, counter, poolVars, doneVars, loopVars, deferred, drainVars,
                       queueVars>>
    BY <1>2 DEF WakeUpSpuriously
  <2>2. Values' /\ JobInv' /\ LoopInv' /\ OnePlace'
    BY <2>1 DEF Values, ThreadStates, JobInv, LoopInv, OnePlace, Places, Jobs
  <2>3. Idlers' = Idlers /\ Waiting' \subseteq Waiting /\ Lookers' = Lookers \cup {t} /\ t \notin Lookers
    BY <2>1 DEF Idlers, Waiting, Lookers, HasMutex, Values
  <2>4. Cardinality(Lookers') = Cardinality(Lookers) + 1
    BY <1>0, <2>3, PoolFinite
  <2>5. Waiting' # {} => Len(wq) <= Cardinality(Lookers)
    BY <2>3 DEF NoThreadSleepsOnWork, Lookers
  <2>6. Waiting' # {} => Len(wq') <= Cardinality(Lookers')
    <3>1. Len(wq) \in Nat
      BY DEF Values
    <3> QED
      BY <2>1, <2>4, <2>5, <3>1, ThreadCounts
  <2> QED
    BY <2>1, <2>2, <2>3, <2>6 DEF IdleInv, NoThreadSleepsOnWork, Lookers
<1>3. CASE StartWork(t)
  <2>1. /\ pc' = [pc EXCEPT ![t] = "working"] /\ pc[t] = "starting"
        /\ UNCHANGED <<job, poolVars, doneVars, loopVars, deferred, quit, queueVars>>
    BY <1>3 DEF StartWork
  <2>2. Idlers' = Idlers /\ Waiting' = Waiting /\ Lookers' = Lookers
    BY <2>1 DEF Idlers, Waiting, Lookers, HasMutex, Values
  <2>3. JobInv' /\ LoopInv' /\ OnePlace'
    BY <2>1 DEF Values, JobInv, LoopInv, OnePlace, Places, Jobs
  <2>4. IdleInv' /\ NoThreadSleepsOnWork'
    BY <2>1, <2>2 DEF IdleInv, NoThreadSleepsOnWork, Lookers
  <2>5. /\ index' \in [Pool -> Nat \cup {NoIndex}] /\ counter' \in Nat
        /\ drain' \in [Drains -> {"off", "check", "sleep", "process", "end"}]
    BY <1>3 DEF StartWork, Values
  <2>6. Values'
    BY <2>1, <2>5 DEF Values, ThreadStates
  <2> QED
    BY <2>3, <2>4, <2>6
<1> QED
  BY <1>1, <1>2, <1>3

\* Threads take a work and finish it.
LEMMA TakeInv == ASSUME PlaceInv, NEW t \in Pool, TakeWork(t) PROVE PlaceInv'
<1> USE DEF PlaceInv
<1>0. Idlers \in SUBSET Pool /\ Lookers \in SUBSET Pool
  BY DEF Idlers, Lookers
<1>1. /\ wq \in Seq(Works) /\ wq # <<>> /\ Head(wq) \in Works /\ Tail(wq) \in Seq(Works)
      /\ Len(Tail(wq)) = Len(wq) - 1 /\ Len(wq) \in Nat
  BY DEF TakeWork, Values
<1>2. /\ pc' = [pc EXCEPT ![t] = "starting"] /\ pc[t] \in {"ready", "signalled"}
      /\ job' = [job EXCEPT ![t] = Head(wq)] /\ wq' = Tail(wq) /\ idle' = idle - WasIdle(t)
      /\ UNCHANGED <<index, counter, doneVars, loopVars, deferred, drainVars, queueVars>>
  BY DEF TakeWork, HasMutex
<1>3. job[t] = NoWork /\ Head(wq) # NoWork
  BY <1>1, <1>2, Constants DEF JobInv
<1>4. Values' /\ JobInv' /\ LoopInv'
  BY <1>1, <1>2, <1>3 DEF Values, ThreadStates, JobInv, LoopInv
<1>5. ASSUME NEW w \in Works PROVE Places(w)' = 1
  <2>1. Cardinality(Jobs(w)') = Cardinality(Jobs(w)) + One(w = Head(wq)) - One(w = NoWork)
    BY <1>2, <1>3, JobsChange DEF One
  <2>2. Occurrences(w, wq) = Occurrences(w, wq') + One(w = Head(wq))
    BY <1>1, <1>2, OccurrencesTail DEF One
  <2>3. /\ Occurrences(w, wq) \in Nat /\ Occurrences(w, wq') \in Nat
        /\ Occurrences(w, doneq) \in Nat /\ Occurrences(w, batch) \in Nat
    BY <1>1, <1>2, IndexesFinite DEF Values
  <2>4. Cardinality(Jobs(w)) \in Nat
    BY JobsFinite
  <2>5. w # NoWork
    BY Constants
  <2> QED
    BY <1>2, <2>1, <2>2, <2>3, <2>4, <2>5 DEF OnePlace, Places, One
<1>6. Idlers' = Idlers \ {t} /\ (t \in Idlers <=> pc[t] = "signalled")
  BY <1>2 DEF Idlers, Values
<1>7. IdleInv'
  <2>1. CASE pc[t] = "signalled"
    <3>1. Cardinality(Idlers') = Cardinality(Idlers) - 1
      BY <1>0, <1>6, <2>1, PoolFinite
    <3> QED
      BY <1>2, <2>1, <3>1 DEF IdleInv, WasIdle
  <2>2. CASE pc[t] # "signalled"
    <3>1. Idlers' = Idlers
      BY <1>6, <2>2
    <3> QED
      BY <1>2, <2>2, <3>1, ThreadCounts DEF IdleInv, WasIdle
  <2> QED
    BY <2>1, <2>2
<1>8. NoThreadSleepsOnWork'
  <2>1. Lookers' = Lookers \ {t} /\ t \in Lookers /\ Waiting' = Waiting
    BY <1>2 DEF Lookers, HasMutex, Waiting, Values
  <2>2. Cardinality(Lookers') = Cardinality(Lookers) - 1
    BY <1>0, <2>1, PoolFinite
  <2>3. Waiting # {} => Len(wq) <= Cardinality(Lookers)
    BY DEF NoThreadSleepsOnWork, Lookers
  <2>4. Waiting' # {} => Len(wq') <= Cardinality(Lookers')
    BY <1>1, <1>2, <2>1, <2>2, <2>3, ThreadCounts
  <2> QED
    BY <2>4 DEF NoThreadSleepsOnWork, Lookers
<1> QED
  BY <1>4, <1>5, <1>7, <1>8 DEF OnePlace

LEMMA FinishInv == ASSUME PlaceInv, NEW t \in Pool, FinishWork(t) PROVE PlaceInv'
<1> USE DEF PlaceInv
<1>1. /\ pc' = [pc EXCEPT ![t] = "ready"] /\ pc[t] = "working"
      /\ job' = [job EXCEPT ![t] = NoWork] /\ doneq' = Append(doneq, job[t])
      /\ UNCHANGED <<index, counter, poolVars, loopVars, drainVars, queueVars>>
      /\ deferred' = deferred \/ (job[t] \in Requests /\ deferred' = deferred \cup {job[t]})
  BY DEF FinishWork
<1>2. job[t] \in Works /\ job[t] # NoWork
  BY <1>1 DEF JobInv, Values
<1>3. doneq \in Seq(Works) /\ Append(doneq, job[t]) \in Seq(Works)
  BY <1>2 DEF Values
<1>4. Values' /\ JobInv' /\ LoopInv'
  BY <1>1, <1>2, <1>3 DEF Values, ThreadStates, JobInv, LoopInv
<1>5. ASSUME NEW w \in Works PROVE Places(w)' = 1
  <2>1. Cardinality(Jobs(w)') = Cardinality(Jobs(w)) + One(w = NoWork) - One(w = job[t])
    BY <1>1, <1>2, JobsChange DEF One
  <2>2. Occurrences(w, doneq') = Occurrences(w, doneq) + One(w = job[t])
    BY <1>1, <1>2, <1>3, OccurrencesAppend DEF One
  <2>3. /\ Occurrences(w, wq) \in Nat
        /\ Occurrences(w, doneq) \in Nat /\ Occurrences(w, batch) \in Nat
    BY IndexesFinite DEF Values
  <2>4. Cardinality(Jobs(w)) \in Nat
    BY JobsFinite
  <2>5. w # NoWork
    BY Constants
  <2> QED
    BY <1>1, <2>1, <2>2, <2>3, <2>4, <2>5 DEF OnePlace, Places, One
<1>6. Idlers' = Idlers /\ Waiting' = Waiting
  BY <1>1 DEF Idlers, Waiting, Values
<1>7. NoThreadSleepsOnWork'
  <2>1. Lookers' = Lookers \cup {t} /\ t \notin Lookers /\ Lookers \in SUBSET Pool
    BY <1>1 DEF Lookers, HasMutex, Values
  <2>2. Cardinality(Lookers') = Cardinality(Lookers) + 1
    BY <2>1, PoolFinite
  <2>3. Waiting # {} => Len(wq) <= Cardinality(Lookers)
    BY DEF NoThreadSleepsOnWork, Lookers
  <2>4. Len(wq) \in Nat
    BY DEF Values
  <2>5. Waiting' # {} => Len(wq') <= Cardinality(Lookers')
    BY <1>1, <1>6, <2>2, <2>3, <2>4, ThreadCounts
  <2> QED
    BY <2>5 DEF NoThreadSleepsOnWork, Lookers
<1> QED
  BY <1>1, <1>4, <1>5, <1>6, <1>7 DEF OnePlace, IdleInv

\* The event loop queues a work.
LEMMA PostPlaces ==
    ASSUME PlaceInv, NEW x \in Works, wq' = Append(wq, x), UNCHANGED <<job, doneq>>,
           \/ x \in fresh /\ fresh' = fresh \ {x} /\ UNCHANGED <<batch, over>>
           \/ /\ batch # <<>> /\ x = Head(batch) /\ batch' = Tail(batch)
              /\ UNCHANGED <<fresh, over>>
    PROVE  OnePlace'
<1> SUFFICES ASSUME NEW w \in Works PROVE Places(w)' = 1
  BY DEF OnePlace
<1> USE DEF PlaceInv
<1>1. Jobs(w)' = Jobs(w) /\ Cardinality(Jobs(w)) \in Nat
  BY JobsFinite DEF Jobs
<1>2. /\ wq \in Seq(Works) /\ batch \in Seq(Works) /\ Occurrences(w, wq) \in Nat
      /\ Occurrences(w, doneq) \in Nat /\ Occurrences(w, batch) \in Nat
  BY IndexesFinite DEF Values
<1>3. Occurrences(w, wq') = Occurrences(w, wq) + One(w = x)
  BY <1>2, OccurrencesAppend DEF One
<1>4. CASE x \in fresh /\ fresh' = fresh \ {x} /\ UNCHANGED <<batch, over>>
  BY <1>1, <1>2, <1>3, <1>4, SMTT(30) DEF OnePlace, Places, One
<1>5. CASE /\ batch # <<>> /\ x = Head(batch) /\ batch' = Tail(batch)
           /\ UNCHANGED <<fresh, over>>
  <2>1. Occurrences(w, batch) = Occurrences(w, batch') + One(w = x)
    BY <1>2, <1>5, OccurrencesTail DEF One
  <2>2. batch' \in Seq(Works)
    BY <1>2, <1>5
  <2>3. Occurrences(w, batch') \in Nat
    BY <2>2, IndexesFinite
  <2>4. fresh' = fresh /\ over' = over /\ doneq' = doneq
    BY <1>5
  <2>5. One(w \in fresh) + One(w \in over) + Occurrences(w, wq) + Occurrences(w, doneq)
          + Occurrences(w, batch) + Cardinality(Jobs(w)) = 1
    BY DEF OnePlace, Places
  <2>6. One(w \in fresh) \in Nat /\ One(w \in over) \in Nat /\ One(w = x) \in Nat
    BY DEF One
  <2>7. Places(w)' = One(w \in fresh) + One(w \in over) + (Occurrences(w, wq) + One(w = x))
          + Occurrences(w, doneq) + Occurrences(w, batch') + Cardinality(Jobs(w))
    BY <1>1, <1>3, <2>4 DEF Places
  <2> HIDE DEF PlaceInv
  <2> QED
    BY <1>1, <1>2, <2>1, <2>3, <2>5, <2>6, <2>7
<1> QED
  BY <1>4, <1>5

LEMMA QueueInv ==
    ASSUME PlaceInv, StartDrains \/ RequeueDeferred \/ \E w \in Works : Submit(w)
    PROVE  PlaceInv'
<1> USE DEF PlaceInv
<1>1. CASE StartDrains
  <2>1. PICK d \in {"logger", "writer"} :
            /\ Post(d) /\ d \in fresh /\ fresh' = fresh \ {d}
            /\ IF d = "logger" THEN loop' = loop ELSE "logger" \notin fresh /\ loop' = "idle"
    BY <1>1 DEF StartDrains, LoopInv
  <2>2. /\ loop = "start"
        /\ UNCHANGED <<job, index, counter, deferred, drainVars, doneVars, batch, over, queueVars>>
    BY <1>1 DEF StartDrains, loopUnchanged
  <2>3. d \in Works
    BY DrainsWork
  <2>4. /\ wq' = Append(wq, d) /\ pc' \in [Pool -> ThreadStates] /\ JobInv' /\ IdleInv'
        /\ NoThreadSleepsOnWork'
    BY <2>1, <2>2, <2>3, PostEffect
  <2>5. OnePlace'
    BY <2>1, <2>2, <2>3, <2>4, PostPlaces
  <2>6. LoopInv'
    BY <2>1, <2>2, Constants DEF LoopInv, Drains
  <2>7. wq' \in Seq(Works)
    BY <2>3, <2>4 DEF Values
  <2>8. Values'
    BY <2>1, <2>2, <2>4, <2>7 DEF Values
  <2> QED
    BY <2>4, <2>5, <2>6, <2>8
<1>2. CASE RequeueDeferred
  <2>1. /\ batch # <<>> /\ batch' = Tail(batch) /\ Post(Head(batch)) /\ loop = "callbacks"
        /\ deferred' = deferred \ {Head(batch)}
        /\ UNCHANGED <<job, index, counter, doneVars, loop, fresh, over, drainVars, queueVars>>
    BY <1>2 DEF RequeueDeferred
  <2>2. Head(batch) \in Works /\ Tail(batch) \in Seq(Works)
    BY <2>1 DEF Values
  <2>3. /\ wq' = Append(wq, Head(batch)) /\ pc' \in [Pool -> ThreadStates] /\ JobInv' /\ IdleInv'
        /\ NoThreadSleepsOnWork'
    BY <2>1, <2>2, PostEffect
  <2>4. OnePlace'
    BY <2>1, <2>2, <2>3, PostPlaces
  <2>5. LoopInv'
    BY <2>1 DEF LoopInv
  <2>6. wq' \in Seq(Works)
    BY <2>2, <2>3 DEF Values
  <2>7. Values'
    BY <2>1, <2>2, <2>3, <2>6 DEF Values
  <2> QED
    BY <2>3, <2>4, <2>5, <2>7
<1>3. ASSUME NEW w \in Works, Submit(w) PROVE PlaceInv'
  <2>1. /\ w \in fresh /\ fresh' = fresh \ {w} /\ Post(w) /\ loop # "start"
        /\ UNCHANGED <<job, index, counter, deferred, drainVars, doneVars, batch, loop, over,
                       queueVars>>
    BY <1>3 DEF Submit, loopUnchanged
  <2>2. /\ wq' = Append(wq, w) /\ pc' \in [Pool -> ThreadStates] /\ JobInv' /\ IdleInv'
        /\ NoThreadSleepsOnWork'
    BY <2>1, PostEffect
  <2>3. OnePlace'
    BY <2>1, <2>2, PostPlaces
  <2>4. LoopInv'
    BY <2>1 DEF LoopInv
  <2>5. wq' \in Seq(Works)
    BY <2>2 DEF Values
  <2>6. Values'
    BY <2>1, <2>2, <2>5 DEF Values
  <2> QED
    BY <2>2, <2>3, <2>4, <2>6
<1> QED
  BY <1>1, <1>2, <1>3

\* uv__work_done
LEMMA DoneInv == ASSUME PlaceInv, SplitQueue \/ CallBack PROVE PlaceInv'
<1> USE DEF PlaceInv
<1>1. CASE SplitQueue
  <2>1. /\ batch = <<>> /\ batch' = doneq /\ doneq' = <<>> /\ loop' = "callbacks" /\ loop = "split"
        /\ UNCHANGED <<threadVars, poolVars, fresh, over, deferred, drainVars, queueVars>>
    BY <1>1 DEF SplitQueue, LoopInv
  <2>2. JobInv' /\ IdleInv' /\ LoopInv' /\ NoThreadSleepsOnWork' /\ Values'
    BY <2>1 DEF JobInv, IdleInv, Idlers, LoopInv, NoThreadSleepsOnWork, Waiting, HasMutex, Values
  <2>3. ASSUME NEW w \in Works PROVE Places(w)' = 1
    <3>1. Occurrences(w, batch) = 0 /\ Occurrences(w, doneq') = 0
      BY <2>1, OccurrencesEmpty
    <3>2. /\ Occurrences(w, wq) \in Nat /\ Occurrences(w, doneq) \in Nat
      BY IndexesFinite DEF Values
    <3>3. Jobs(w)' = Jobs(w) /\ Cardinality(Jobs(w)) \in Nat
      BY <2>1, JobsFinite DEF Jobs
    <3> QED
      BY <2>1, <3>1, <3>2, <3>3 DEF OnePlace, Places, One
  <2> QED
    BY <2>2, <2>3 DEF OnePlace
<1>2. CASE CallBack
  <2>1. /\ batch # <<>> /\ batch' = Tail(batch) /\ over' = over \cup {Head(batch)}
        /\ loop = "callbacks"
        /\ UNCHANGED <<threadVars, poolVars, doneVars, loop, fresh, deferred, drainVars, queued,
                       items, owed>>
    BY <1>2 DEF CallBack
  <2>2. Head(batch) \in Works /\ Tail(batch) \in Seq(Works)
    BY <2>1 DEF Values
  <2>3. JobInv' /\ IdleInv' /\ LoopInv' /\ NoThreadSleepsOnWork' /\ Values'
    BY <2>1, <2>2
    DEF JobInv, IdleInv, Idlers, LoopInv, NoThreadSleepsOnWork, Waiting, HasMutex, Values
  <2>4. ASSUME NEW w \in Works PROVE Places(w)' = 1
    <3>1. Occurrences(w, batch) = Occurrences(w, batch') + One(w = Head(batch))
      BY <2>1, OccurrencesTail DEF One, Values
    <3>2. /\ Occurrences(w, wq) \in Nat /\ Occurrences(w, doneq) \in Nat
          /\ Occurrences(w, batch') \in Nat
      BY <2>1, <2>2, IndexesFinite DEF Values
    <3>3. Jobs(w)' = Jobs(w) /\ Cardinality(Jobs(w)) \in Nat
      BY <2>1, JobsFinite DEF Jobs
    <3>4. /\ fresh' = fresh /\ wq' = wq /\ doneq' = doneq
          /\ w \in over' <=> w \in over \/ w = Head(batch)
      BY <2>1
    <3> QED
      BY <3>1, <3>2, <3>3, <3>4 DEF OnePlace, Places, One
  <2> QED
    BY <2>3, <2>4 DEF OnePlace
<1> QED
  BY <1>1, <1>2

\* A drain looks at its queue, by values.
Checked(d) ==
    /\ queued' \in [Drains -> Nat] /\ owed' \in [Drains -> Nat]
    /\ drain' \in [Drains -> {"off", "check", "sleep", "process", "end"}]
    /\ \A e \in Drains \ {d} : queued'[e] = queued[e] /\ owed'[e] = owed[e] /\ drain'[e] = drain[e]
    /\ \/ /\ queued'[d] = queued[d] - 1 /\ drain'[d] = "process"
          /\ owed'[d] = 0 \/ owed'[d] = owed[d] - 1
       \/ /\ queued[d] = 0 /\ queued'[d] = 0 /\ owed'[d] = owed[d]
          /\ drain'[d] = "sleep" \/ (quit[d] /\ drain'[d] = "end")

LEMMA CheckEffect == ASSUME Values, NEW d \in Drains, CheckQueue(d) PROVE Checked(d)
<1> USE DEF Values
<1>1. CASE queued[d] > 0
  <2>1. PICK n \in Nat : /\ n = 0 \/ n = owed[d] - 1
                        /\ owed' = [owed EXCEPT ![d] = n]
    BY <1>1 DEF CheckQueue
  <2>2. /\ queued' = [queued EXCEPT ![d] = queued[d] - 1] /\ queued[d] - 1 \in Nat
        /\ drain' = [drain EXCEPT ![d] = "process"]
    BY <1>1 DEF CheckQueue
  <2> QED
    BY <2>1, <2>2 DEF Checked
<1>2. CASE ~(queued[d] > 0)
  <2>1. PICK x \in {"end", "sleep"} : (x = "end" => quit[d]) /\ drain' = [drain EXCEPT ![d] = x]
    BY <1>2 DEF CheckQueue
  <2>2. UNCHANGED <<queued, owed>> /\ queued[d] = 0
    BY <1>2 DEF CheckQueue
  <2> QED
    BY <2>1, <2>2 DEF Checked
<1> QED
  BY <1>1, <1>2

\* The steps that move no work.
LEMMA RestInv ==
    ASSUME Flags, PlaceInv,
           \/ \E t \in Pool : QueueFile(t)
           \/ \E d \in Drains : Drain(d)
           \/ LogStat \/ WakeUpLoop \/ CallbacksDone \/ StopDrains \/ UNCHANGED vars
    PROVE  PlaceInv'
<1>1. UNCHANGED <<pc, job, idle, wq, doneq, batch, fresh, over>>
  BY DEF QueueFile, Drain, CheckQueue, ProcessItem, Pause, drainUnchanged, LogStat, WakeUpLoop,
         CallbacksDone, StopDrains, vars
<1>2. JobInv' /\ IdleInv' /\ OnePlace' /\ NoThreadSleepsOnWork'
  BY <1>1, PlacesFrame
<1> USE DEF PlaceInv
<1>3. LoopInv'
  BY DEF QueueFile, Drain, CheckQueue, ProcessItem, Pause, drainUnchanged, LogStat, WakeUpLoop,
         CallbacksDone, StopDrains, vars, LoopInv
<1> USE DEF Values
<1>4. ASSUME NEW t \in Pool, QueueFile(t) PROVE Values'
  BY <1>4, DrainsWork DEF QueueFile, Drains
<1>5. ASSUME NEW d \in Drains, CheckQueue(d) PROVE Values'
  <2>1. /\ queued' \in [Drains -> Nat] /\ owed' \in [Drains -> Nat]
        /\ drain' \in [Drains -> {"off", "check", "sleep", "process", "end"}]
    BY <1>5, CheckEffect DEF Checked
  <2>2. UNCHANGED drainUnchanged
    BY <1>5 DEF CheckQueue
  <2> QED
    BY <2>1, <2>2 DEF drainUnchanged
<1>6. ASSUME NEW d \in Drains, ProcessItem(d) \/ Pause(d) PROVE Values'
  BY <1>6 DEF ProcessItem, Pause, LookAgain, drainUnchanged
<1>7. ASSUME LogStat PROVE Values'
  BY <1>7 DEF LogStat, LogStatistics, Drains
<1>8. ASSUME WakeUpLoop \/ CallbacksDone \/ UNCHANGED vars PROVE Values'
  BY <1>8 DEF WakeUpLoop, CallbacksDone, vars
<1>9. ASSUME StopDrains PROVE Values'
  BY <1>9 DEF StopDrains, StopDrain, Drains
<1> QED
  BY <1>2, <1>3, <1>4, <1>5, <1>6, <1>7, <1>8, <1>9 DEF Drain

LEMMA PlaceStep == Flags /\ PlaceInv /\ [Next]_vars => PlaceInv'
BY WaitInv, TakeInv, FinishInv, QueueInv, DoneInv, RestInv DEF Next, Worker, WorkDone

-------------------------------------------------------------------------------
(* The inductive invariant: drains and indexes                               *)

\* In a calm shutdown a drain is told to stop when no request or disconnection is left, the
\* writer after the logger.  One that is finished had ended, and one that has ended was told
\* to stop and has done its items.
StopInv ==
    /\ Calm /\ stop["logger"] => \A w \in ClientWorks : w \in fresh \/ w \in over
    /\ stop["writer"] => stop["logger"]
    /\ Calm /\ drain["writer"] = "end" => queued["writer"] = 0
    /\ \A d \in Drains : /\ quit[d] => stop[d]
                         /\ stopped[d] => d \in over
                         /\ d \in over => drain[d] = "end"
                         /\ drain[d] = "end" => stop[d] /\ owed[d] = 0
                         /\ owed[d] <= queued[d]
    /\ \A i \in 1..Len(doneq) : doneq[i] \in Drains => drain[doneq[i]] = "end"
    /\ \A i \in 1..Len(batch) : batch[i] \in Drains => drain[batch[i]] = "end"

LEMMA InitStop == Init => StopInv
<1>1. "logger" \in Drains /\ "writer" \in Drains
  BY DEF Drains
<1> QED
  BY <1>1 DEF Init, StopInv

\* A request that a thread works on was submitted and is not over.
LEMMA Active ==
    ASSUME Values, OnePlace, NEW t \in Pool, job[t] \in Works
    PROVE  /\ job[t] \notin fresh /\ job[t] \notin over
           /\ \A i \in 1..Len(wq) : wq[i] # job[t]
           /\ \A i \in 1..Len(doneq) : doneq[i] # job[t]
           /\ \A i \in 1..Len(batch) : batch[i] # job[t]
           /\ \A u \in Pool : job[u] = job[t] => u = t
<1>1. Places(job[t]) = 1
  BY DEF OnePlace
<1> QED
  BY <1>1, Exclusive

\* What the threads of the pool do.
LEMMA StopWorker ==
    ASSUME Flags, PlaceInv, StopInv, NEW t \in Pool, Worker(t) \/ WakeUpSpuriously(t)
    PROVE  StopInv'
<1> USE DEF PlaceInv
<1>1. CASE Wait(t) \/ TakeWork(t) \/ WakeUpSpuriously(t)
  <2>1. UNCHANGED <<doneVars, loopVars, deferred, drainVars, queueVars>>
    BY <1>1 DEF Wait, TakeWork, WakeUpSpuriously
  <2> QED
    BY <2>1 DEF StopInv
<1>2. CASE StartWork(t)
  <2>1. /\ UNCHANGED <<doneVars, loopVars, quit, queueVars>> /\ pc[t] = "starting"
        /\ \/ job[t] \notin Drains /\ UNCHANGED drain
           \/ job[t] \in Drains /\ drain' = [drain EXCEPT ![job[t]] = "check"]
    BY <1>2 DEF StartWork
  <2>2. CASE job[t] \notin Drains /\ UNCHANGED drain
    BY <2>1, <2>2 DEF StopInv
  <2>3. CASE job[t] \in Drains /\ drain' = [drain EXCEPT ![job[t]] = "check"]
    <3>1. /\ job[t] \notin over
          /\ \A i \in 1..Len(doneq) : doneq[i] # job[t]
          /\ \A i \in 1..Len(batch) : batch[i] # job[t]
      BY <2>3, DrainsWork, Active
    <3>2. /\ drain'[job[t]] = "check"
          /\ \A d \in Drains : d # job[t] => drain'[d] = drain[d]
      BY <2>3 DEF Values
    <3>3. "writer" \in Drains
      BY DEF Drains
    <3> QED
      BY <2>1, <3>1, <3>2, <3>3 DEF StopInv
  <2> QED
    BY <2>1, <2>2, <2>3
<1>3. CASE QueueFile(t)
  <2>1. /\ UNCHANGED <<doneVars, loopVars, drainVars, stop, stopped, owed>>
        /\ queued' = [queued EXCEPT !["writer"] = @ + 1] /\ job[t] \in ClientWorks
    BY <1>3 DEF QueueFile
  <2>2. job[t] \notin fresh /\ job[t] \notin over
    BY <2>1, Active, Constants
  <2>3. Calm => ~stop["logger"] /\ ~stop["writer"] /\ drain["writer"] # "end"
    BY <2>1, <2>2 DEF StopInv, Drains
  <2>4. \A d \in Drains : queued'[d] >= queued[d] /\ queued'[d] \in Nat
    BY <2>1 DEF Values
  <2>5. \A d \in Drains : owed[d] <= queued'[d]
    BY <2>4 DEF StopInv, Values
  <2> QED
    BY <2>1, <2>3, <2>5 DEF StopInv
<1>4. CASE FinishWork(t)
  <2>1. /\ UNCHANGED <<loopVars, drainVars, queueVars>> /\ doneq' = Append(doneq, job[t])
        /\ pc[t] = "working"
        /\ job[t] \in Drains => drain[job[t]] = "end"
    BY <1>4 DEF FinishWork
  <2>2. job[t] \in Works /\ doneq \in Seq(Works)
    BY <2>1 DEF JobInv, Values
  <2>3. /\ Len(doneq') = Len(doneq) + 1 /\ Len(doneq) \in Nat
        /\ \A i \in 1..Len(doneq) : doneq'[i] = doneq[i]
        /\ doneq'[Len(doneq) + 1] = job[t]
    BY <2>1, <2>2
  <2>4. \A i \in 1..Len(doneq') : doneq'[i] \in Drains => drain[doneq'[i]] = "end"
    BY <2>1, <2>3 DEF StopInv
  <2> QED
    BY <2>1, <2>4 DEF StopInv
<1> QED
  BY <1>1, <1>2, <1>3, <1>4 DEF Worker

\* What the drains do.
LEMMA StopDrainStep ==
    ASSUME Flags, PlaceInv, StopInv, NEW d \in Drains, Drain(d) PROVE StopInv'
<1> USE DEF PlaceInv
<1>0. "writer" \in Drains
  BY DEF Drains
<1>1. CASE CheckQueue(d)
  <2>1. /\ UNCHANGED <<doneVars, loopVars, stop, stopped, quit>> /\ drain[d] = "check"
        /\ Checked(d)
    BY <1>1, CheckEffect DEF CheckQueue, drainUnchanged
  <2>2. ASSUME NEW e \in Drains
        PROVE  /\ e \in over => drain'[e] = "end"
               /\ drain'[e] = "end" => stop[e] /\ owed'[e] = 0 /\ (queued[e] = 0 => queued'[e] = 0)
               /\ owed'[e] <= queued'[e]
    <3>1. /\ owed[e] \in Nat /\ queued[e] \in Nat /\ owed'[e] \in Nat /\ queued'[e] \in Nat
          /\ owed[e] <= queued[e]
      BY <2>1 DEF StopInv, Values, Checked
    <3>2. CASE e # d
      BY <2>1, <3>1, <3>2 DEF StopInv, Checked
    <3>3. CASE e = d
      BY <2>1, <3>1, <3>3 DEF StopInv, Checked
    <3> QED
      BY <3>2, <3>3
  <2>3. Calm /\ drain'["writer"] = "end" => queued'["writer"] = 0
    BY <1>0, <2>1 DEF StopInv, Checked
  <2>4. \A e \in Drains : drain[e] = "end" => drain'[e] = "end"
    BY <2>1 DEF Checked
  <2> QED
    BY <2>1, <2>2, <2>3, <2>4 DEF StopInv
<1>2. CASE ProcessItem(d) \/ Pause(d)
  <2>1. /\ UNCHANGED <<doneVars, loopVars, stop, stopped, queued, owed>>
        /\ drain[d] # "end" /\ drain' = [drain EXCEPT ![d] = "check"]
    BY <1>2 DEF ProcessItem, Pause, LookAgain, drainUnchanged
  <2>2. \A e \in Drains : quit'[e] => quit[e] \/ stop[e]
    BY <1>2 DEF ProcessItem, Pause, ReadStopFlag, Flags
  <2>3. \A e \in Drains : drain'[e] = "end" <=> drain[e] = "end"
    BY <2>1 DEF Values
  <2> QED
    BY <1>0, <2>1, <2>2, <2>3 DEF StopInv
<1> QED
  BY <1>1, <1>2 DEF Drain

\* What the event loop does.
LEMMA StopLoop ==
    ASSUME Flags, PlaceInv, StopInv,
           \/ StartDrains \/ LogStat \/ WorkDone \/ StopDrains \/ UNCHANGED vars
           \/ \E w \in Works : Submit(w)
    PROVE  StopInv'
<1> USE DEF PlaceInv
<1>0. "logger" \in Drains /\ "writer" \in Drains
  BY DEF Drains
<1>1. CASE StartDrains
  <2>1. /\ UNCHANGED <<doneVars, drainVars, queueVars, batch, over>>
        /\ fresh' = fresh \ {"logger"} \/ fresh' = fresh \ {"writer"}
    BY <1>1 DEF StartDrains, loopUnchanged
  <2>2. \A w \in ClientWorks : w \in fresh => w \in fresh'
    BY <1>0, <2>1, Constants
  <2> QED
    BY <2>1, <2>2 DEF StopInv
<1>2. CASE LogStat
  <2>1. /\ UNCHANGED <<doneVars, loopVars, drainVars, stop, stopped, owed>>
        /\ queued' = [queued EXCEPT !["logger"] = @ + 1]
    BY <1>2 DEF LogStat, LogStatistics
  <2>2. \A d \in Drains : queued'[d] >= queued[d] /\ queued'[d] \in Nat
    BY <2>1 DEF Values
  <2>3. \A d \in Drains : owed[d] <= queued'[d]
    BY <2>2 DEF StopInv, Values
  <2>4. queued'["writer"] = queued["writer"]
    BY <1>0, <2>1 DEF Values
  <2> QED
    BY <2>1, <2>3, <2>4 DEF StopInv
<1>3. CASE WakeUpLoop \/ CallbacksDone \/ UNCHANGED vars
  <2>1. UNCHANGED <<doneq, batch, fresh, over, drainVars, queueVars>>
    BY <1>3 DEF WakeUpLoop, CallbacksDone, vars
  <2> QED
    BY <2>1 DEF StopInv
<1>4. CASE SplitQueue
  <2>1. /\ UNCHANGED <<fresh, over, drainVars, queueVars>>
        /\ batch' = doneq /\ doneq' = <<>>
    BY <1>4 DEF SplitQueue
  <2> QED
    BY <2>1 DEF StopInv
<1>5. ASSUME batch # <<>>, batch' = Tail(batch)
      PROVE  /\ \A i \in 1..Len(batch') : batch'[i] \in Drains => drain[batch'[i]] = "end"
             /\ Head(batch) \in Drains => drain[Head(batch)] = "end"
             /\ Head(batch) \in Works
  <2>1. /\ batch \in Seq(Works) /\ Len(batch') = Len(batch) - 1 /\ Len(batch) \in Nat
        /\ \A i \in 1..(Len(batch) - 1) : batch'[i] = batch[i + 1]
        /\ Head(batch) = batch[1] /\ Len(batch) > 0 /\ Head(batch) \in Works
    BY <1>5 DEF Values
  <2> QED
    BY <2>1 DEF StopInv
<1>6. CASE RequeueDeferred
  <2>1. /\ UNCHANGED <<doneq, fresh, over, drainVars, queueVars>>
        /\ batch # <<>> /\ batch' = Tail(batch)
    BY <1>6 DEF RequeueDeferred
  <2> QED
    BY <1>5, <2>1 DEF StopInv
<1>7. CASE CallBack
  <2>1. /\ UNCHANGED <<doneq, fresh, drainVars, stop, queued, owed>>
        /\ batch # <<>> /\ batch' = Tail(batch) /\ over' = over \cup {Head(batch)}
    BY <1>7 DEF CallBack
  <2>2. \A d \in Drains : stopped'[d] => stopped[d] \/ d = Head(batch)
    BY <1>7 DEF CallBack
  <2> QED
    BY <1>5, <2>1, <2>2 DEF StopInv
<1>8. CASE StopDrains
  <2>1. /\ UNCHANGED <<doneq, batch, fresh, over, drainVars, stopped, queued>>
        /\ Calm => \A w \in ClientWorks : w \in fresh \/ w \in over
    BY <1>8 DEF StopDrains, AllClientsDisconnected, Calm, ClientWorks
  <2>2. PICK d \in Drains : StopDrain(d) /\ (d = "writer" => stopped["logger"])
    BY <1>0, <1>8 DEF StopDrains
  <2>3. d = "writer" => stop["logger"]
    BY <1>0, <2>2 DEF StopInv
  <2>4. /\ stop'[d] /\ \A e \in Drains : e # d => (stop'[e] <=> stop[e])
        /\ \A e \in Drains : stop[e] => stop'[e]
    BY <2>2 DEF StopDrain, Flags
  <2>5. \A e \in Drains : owed'[e] = owed[e] \/ (~stop[e] /\ owed'[e] = queued[e])
    BY <2>2 DEF StopDrain, Values
  <2>6. ASSUME NEW e \in Drains
        PROVE  owed'[e] <= queued[e] /\ (drain[e] = "end" => owed'[e] = 0)
    <3>1. queued[e] \in Nat /\ owed[e] <= queued[e]
      BY DEF StopInv, Values
    <3>2. drain[e] = "end" => stop[e] /\ owed[e] = 0
      BY DEF StopInv
    <3> QED
      BY <2>5, <3>1, <3>2
  <2> QED
    BY <1>0, <2>1, <2>2, <2>3, <2>4, <2>6 DEF StopInv, Drains
<1>9. ASSUME NEW w \in Works, Submit(w) PROVE StopInv'
  <2>1. /\ UNCHANGED <<doneq, batch, over, drainVars, queueVars>>
        /\ fresh' = fresh \ {w} /\ (w \in ClientWorks => ~stop["logger"] \/ ~Calm)
    BY <1>9 DEF Submit, loopUnchanged, Calm
  <2> QED
    BY <2>1 DEF StopInv
<1> QED
  BY <1>1, <1>2, <1>3, <1>4, <1>6, <1>7, <1>8, <1>9 DEF WorkDone

LEMMA StopStep == Flags /\ PlaceInv /\ StopInv /\ [Next]_vars => StopInv'
BY StopWorker, StopDrainStep, StopLoop DEF Next

-------------------------------------------------------------------------------
(* The indexes of the threads                                                *)

Numbered == {t \in Pool : index[t] # NoIndex}

\* The drains are taken before any request or disconnection, by threads without an index, and keep these
\* until they are told to stop.
FirstInv ==
    /\ \A i, j \in 1..Len(wq) : wq[i] \in Drains /\ wq[j] \in ClientWorks => i < j
    /\ \A i \in 1..Len(wq) : wq[i] \in Drains =>
          \A t \in Pool : index[t] = NoIndex /\ job[t] \notin ClientWorks
    /\ loop = "start" => \A t \in Pool : index[t] = NoIndex
    /\ \A t \in Pool : job[t] \in Drains => index[t] = NoIndex

\* The threads that have an index have different ones, below the counter.
NumberInv ==
    /\ counter = Cardinality(Numbered) /\ counter <= MaxRequestProcessingThreads
    /\ \A t \in Numbered : index[t] \in Nat /\ index[t] < counter
    /\ \A t, u \in Numbered : index[t] = index[u] => t = u

IndexInv == FirstInv /\ NumberInv

LEMMA InitIndex == Init => IndexInv
<1> SUFFICES ASSUME Init PROVE IndexInv
  OBVIOUS
<1>1. Numbered = {}
  BY DEF Init, Numbered
<1>2. FirstInv
  BY Constants, DrainsWork DEF Init, FirstInv
<1>3. NumberInv
  BY <1>1, FS_EmptySet, Constants DEF Init, NumberInv
<1> QED
  BY <1>2, <1>3 DEF IndexInv

\* While a request is worked on, two threads are busy with logger and file writer.
LEMMA RoomForIndex ==
    ASSUME Calm, Values, OnePlace, LoopInv, StopInv, FirstInv, NumberInv,
           NEW t \in Pool, job[t] \in ClientWorks, index[t] = NoIndex
    PROVE  counter < MaxRequestProcessingThreads
<1>1. job[t] \in Works /\ job[t] \notin Drains
  BY Constants DEF Works
<1>2. job[t] \notin fresh /\ job[t] \notin over
  BY <1>1, Active
<1>3. ~stop["logger"] /\ ~stop["writer"]
  BY <1>2 DEF StopInv
<1>4. ASSUME NEW d \in Drains PROVE \E u \in Pool : job[u] = d /\ u \notin Numbered
  <2>1. ~stop[d]
    BY <1>3 DEF Drains
  <2>2. /\ d \notin over
        /\ \A i \in 1..Len(doneq) : doneq[i] # d
        /\ \A i \in 1..Len(batch) : batch[i] # d
    BY <2>1 DEF StopInv
  <2>3. loop # "start"
    BY <1>2 DEF LoopInv
  <2>4. d \notin fresh
    BY <2>3 DEF LoopInv
  <2>5. \A i \in 1..Len(wq) : wq[i] # d
    BY DEF FirstInv
  <2>6. d \in Works /\ Places(d) = 1
    BY DrainsWork DEF OnePlace
  <2>7. \E u \in Pool : job[u] = d
    BY <2>2, <2>4, <2>5, <2>6, Exclusive
  <2> QED
    BY <2>7 DEF FirstInv, Numbered
<1>5. PICK a \in Pool : job[a] = "logger" /\ a \notin Numbered
  BY <1>4 DEF Drains
<1>6. PICK b \in Pool : job[b] = "writer" /\ b \notin Numbered
  BY <1>4 DEF Drains
<1>7. a # b /\ a # t /\ b # t
  BY <1>1, <1>5, <1>6 DEF Drains
<1>8. t \notin Numbered /\ Numbered \in SUBSET Pool
  BY DEF Numbered
<1>9. Cardinality(Numbered \cup {a}) = Cardinality(Numbered) + 1
  BY <1>5, <1>8, PoolFinite
<1>10. /\ Cardinality((Numbered \cup {a}) \cup {b}) = Cardinality(Numbered) + 2
       /\ Cardinality(Numbered) \in Nat
  <2>1. Numbered \cup {a} \in SUBSET Pool /\ b \notin Numbered \cup {a}
    BY <1>6, <1>7, <1>8
  <2>2. Cardinality((Numbered \cup {a}) \cup {b}) = Cardinality(Numbered \cup {a}) + 1
    BY <2>1, PoolFinite
  <2>3. Cardinality(Numbered) \in Nat
    BY <1>8, PoolFinite
  <2> QED
    BY <1>9, <2>2, <2>3
<1>11. Cardinality(((Numbered \cup {a}) \cup {b}) \cup {t}) = Cardinality(Numbered) + 3
  <2>1. (Numbered \cup {a}) \cup {b} \in SUBSET Pool /\ t \notin (Numbered \cup {a}) \cup {b}
    BY <1>7, <1>8
  <2>2. Cardinality(((Numbered \cup {a}) \cup {b}) \cup {t})
          = Cardinality((Numbered \cup {a}) \cup {b}) + 1
    BY <2>1, PoolFinite
  <2> QED
    BY <1>10, <2>2
<1>12. Cardinality(((Numbered \cup {a}) \cup {b}) \cup {t}) <= MaxRequestProcessingThreads + 2
  <2>1. ((Numbered \cup {a}) \cup {b}) \cup {t} \in SUBSET Pool
    BY <1>8
  <2> QED
    BY <2>1, PoolFinite
<1> QED
  BY <1>10, <1>11, <1>12, Constants DEF NumberInv

\* A thread draws an index.
LEMMA IndexStart ==
    ASSUME Calm, PlaceInv, StopInv, IndexInv, NEW t \in Pool, StartWork(t) PROVE IndexInv'
<1> USE DEF PlaceInv, IndexInv
<1>1. UNCHANGED <<job, wq, loop>>
  BY DEF StartWork
<1>2. CASE job[t] \in ClientWorks /\ index[t] = NoIndex
  <2>1. index' = [index EXCEPT ![t] = counter] /\ counter' = counter + 1
    BY <1>2 DEF StartWork
  <2>2. counter < MaxRequestProcessingThreads /\ counter \in Nat
    BY <1>2, RoomForIndex DEF Values
  <2>3. job[t] \in Works /\ job[t] \notin Drains
    BY <1>2, Constants DEF Works
  <2>4. job[t] \notin fresh
    BY <2>3, Active
  <2>5. FirstInv'
    BY <1>1, <1>2, <2>1, <2>3, <2>4 DEF FirstInv, LoopInv, Values
  <2>6. Numbered' = Numbered \cup {t} /\ t \notin Numbered /\ Numbered \in SUBSET Pool
    BY <1>2, <2>1, <2>2 DEF Numbered, Values, NoIndex
  <2>7. Cardinality(Numbered') = Cardinality(Numbered) + 1
    BY <2>6, PoolFinite
  <2>8. counter' = Cardinality(Numbered') /\ counter' <= MaxRequestProcessingThreads
    BY <2>1, <2>2, <2>7, Constants DEF NumberInv
  <2>9. \A u \in Numbered' : index'[u] \in Nat /\ index'[u] < counter'
    BY <2>1, <2>2, <2>6 DEF NumberInv, Values
  <2>10. \A u, v \in Numbered' : index'[u] = index'[v] => u = v
    BY <2>1, <2>2, <2>6 DEF NumberInv, Values
  <2> QED
    BY <2>5, <2>8, <2>9, <2>10 DEF NumberInv
<1>3. CASE ~(job[t] \in ClientWorks /\ index[t] = NoIndex)
  <2>1. UNCHANGED <<index, counter>>
    BY <1>3 DEF StartWork
  <2> QED
    BY <1>1, <2>1 DEF FirstInv, NumberInv, Numbered
<1> QED
  BY <1>2, <1>3

\* A thread takes a work: a request only when no drain is queued behind it.
LEMMA IndexTake == ASSUME PlaceInv, IndexInv, NEW t \in Pool, TakeWork(t) PROVE IndexInv'
<1> USE DEF PlaceInv, IndexInv
<1>1. /\ job' = [job EXCEPT ![t] = Head(wq)] /\ wq' = Tail(wq) /\ wq # <<>>
      /\ UNCHANGED <<index, counter, loop>>
  BY DEF TakeWork
<1>2. /\ Len(wq') = Len(wq) - 1 /\ Len(wq) \in Nat /\ Len(wq) > 0 /\ Head(wq) = wq[1]
      /\ \A i \in 1..(Len(wq) - 1) : wq'[i] = wq[i + 1]
  BY <1>1 DEF Values
<1>3. \A i, j \in 1..Len(wq') : wq'[i] \in Drains /\ wq'[j] \in ClientWorks => i < j
  <2> SUFFICES ASSUME NEW i \in 1..Len(wq'), NEW j \in 1..Len(wq'),
                      wq'[i] \in Drains, wq'[j] \in ClientWorks
               PROVE  i < j
    OBVIOUS
  <2>1. i + 1 \in 1..Len(wq) /\ j + 1 \in 1..Len(wq) /\ wq[i + 1] \in Drains /\ wq[j + 1] \in ClientWorks
    BY <1>2
  <2>2. i + 1 < j + 1
    BY <2>1 DEF FirstInv
  <2> QED
    BY <1>2, <2>2
<1>4. ASSUME NEW i \in 1..Len(wq'), wq'[i] \in Drains, NEW u \in Pool
      PROVE  index'[u] = NoIndex /\ job'[u] \notin ClientWorks
  <2>1. i + 1 \in 1..Len(wq) /\ wq[i + 1] \in Drains /\ 1 \in 1..Len(wq) /\ ~(i + 1 < 1)
    BY <1>2, <1>4
  <2>2. index[u] = NoIndex /\ job[u] \notin ClientWorks /\ wq[1] \notin ClientWorks
    BY <2>1 DEF FirstInv
  <2> QED
    BY <1>1, <1>2, <2>2 DEF Values
<1>5. ASSUME NEW u \in Pool, job'[u] \in Drains PROVE index'[u] = NoIndex
  <2>1. CASE u = t
    <3>1. wq[1] \in Drains /\ 1 \in 1..Len(wq)
      BY <1>1, <1>2, <1>5, <2>1 DEF Values
    <3> QED
      BY <1>1, <3>1 DEF FirstInv
  <2>2. CASE u # t
    BY <1>1, <1>5, <2>2 DEF FirstInv, Values
  <2> QED
    BY <2>1, <2>2
<1>6. FirstInv'
  BY <1>1, <1>3, <1>4, <1>5 DEF FirstInv
<1>7. NumberInv'
  BY <1>1 DEF NumberInv, Numbered
<1> QED
  BY <1>6, <1>7

\* The event loop queues a work: the drains before any request.
LEMMA IndexQueue ==
    ASSUME PlaceInv, IndexInv, StartDrains \/ RequeueDeferred \/ \E w \in Works : Submit(w)
    PROVE  IndexInv'
<1> USE DEF PlaceInv, IndexInv
<1>1. PICK w \in Works : /\ wq' = Append(wq, w) /\ (w \in Drains => loop = "start")
                         /\ loop' = "start" => loop = "start"
  <2>1. CASE StartDrains
    BY <2>1, DrainsWork DEF StartDrains, Post
  <2>2. CASE RequeueDeferred
    <3>1. Head(batch) \in ClientWorks /\ Post(Head(batch)) /\ loop' = loop
      BY <2>2, Constants DEF RequeueDeferred, Values
    <3> QED
      BY <3>1, Constants DEF Post
  <2>3. ASSUME NEW w \in Works, Submit(w)
        PROVE  wq' = Append(wq, w) /\ w \notin Drains /\ loop' = loop
    BY <2>3, Constants DEF Submit, Post
  <2> QED
    BY <2>1, <2>2, <2>3
<1>2. UNCHANGED <<job, index, counter>>
  BY DEF StartDrains, RequeueDeferred, Submit, loopUnchanged
<1>3. /\ Len(wq') = Len(wq) + 1 /\ Len(wq) \in Nat /\ wq'[Len(wq) + 1] = w
      /\ \A i \in 1..Len(wq) : wq'[i] = wq[i]
  BY <1>1 DEF Values
<1>4. CASE w \notin Drains
  <2>1. \A i \in 1..Len(wq') : wq'[i] \in Drains => i \in 1..Len(wq) /\ wq[i] \in Drains
    BY <1>3, <1>4
  <2>2. \A i, j \in 1..Len(wq') : wq'[i] \in Drains /\ wq'[j] \in ClientWorks => i < j
    <3> SUFFICES ASSUME NEW i \in 1..Len(wq'), NEW j \in 1..Len(wq'),
                        wq'[i] \in Drains, wq'[j] \in ClientWorks
                 PROVE  i < j
      OBVIOUS
    <3>1. i \in 1..Len(wq) /\ wq[i] \in Drains
      BY <2>1
    <3>2. CASE j \in 1..Len(wq)
      BY <1>3, <3>1, <3>2 DEF FirstInv
    <3>3. CASE j = Len(wq) + 1
      BY <1>3, <3>1, <3>3
    <3> QED
      BY <1>3, <3>2, <3>3
  <2>3. FirstInv'
    BY <1>1, <1>2, <2>1, <2>2 DEF FirstInv
  <2> QED
    BY <1>2, <2>3 DEF NumberInv, Numbered
<1>5. CASE w \in Drains
  <2>1. loop = "start" /\ ClientWorks \subseteq fresh
    BY <1>1, <1>5 DEF LoopInv
  <2>2. ASSUME NEW r \in ClientWorks
        PROVE  (\A i \in 1..Len(wq) : wq[i] # r) /\ (\A t \in Pool : job[t] # r)
    <3>1. r \in Works /\ r \in fresh /\ Places(r) = 1
      BY <2>1 DEF Works, OnePlace
    <3> QED
      BY <3>1, Exclusive
  <2>3. w \notin ClientWorks
    BY <1>5, Constants
  <2>4. \A j \in 1..Len(wq') : wq'[j] \notin ClientWorks
    BY <1>3, <2>2, <2>3
  <2>5. FirstInv'
    BY <1>2, <2>1, <2>2, <2>4 DEF FirstInv
  <2> QED
    BY <1>2, <2>5 DEF NumberInv, Numbered
<1> QED
  BY <1>4, <1>5

\* The other steps.
LEMMA IndexRest ==
    ASSUME PlaceInv, IndexInv,
           \/ \E t \in Pool : Wait(t) \/ WakeUpSpuriously(t) \/ QueueFile(t) \/ FinishWork(t)
           \/ \E d \in Drains : Drain(d)
           \/ LogStat \/ WakeUpLoop \/ SplitQueue \/ CallBack \/ CallbacksDone \/ StopDrains
           \/ UNCHANGED vars
    PROVE  IndexInv'
<1> USE DEF PlaceInv, IndexInv
<1>1. /\ UNCHANGED <<index, counter, wq>>
      /\ loop' = "start" => loop = "start"
  BY DEF Wait, WakeUpSpuriously, QueueFile, FinishWork, Drain, CheckQueue, ProcessItem, Pause,
         drainUnchanged, LogStat, WakeUpLoop, SplitQueue, CallBack, CallbacksDone, StopDrains, vars
<1>2. \A t \in Pool : job'[t] = job[t] \/ job'[t] = NoWork
  BY DEF Wait, WakeUpSpuriously, QueueFile, FinishWork, Drain, CheckQueue, ProcessItem, Pause,
         drainUnchanged, LogStat, WakeUpLoop, SplitQueue, CallBack, CallbacksDone, StopDrains,
         vars, Values
<1>3. NoWork \notin Drains /\ NoWork \notin ClientWorks
  BY Constants DEF Works
<1> QED
  BY <1>1, <1>2, <1>3 DEF FirstInv, NumberInv, Numbered

LEMMA IndexStep == Calm /\ PlaceInv /\ StopInv /\ IndexInv /\ [Next]_vars => IndexInv'
BY IndexStart, IndexTake, IndexQueue, IndexRest DEF Next, Worker, WorkDone

-------------------------------------------------------------------------------
(* What follows                                                              *)

LEMMA PoolInvariant == Spec => [](Flags /\ PlaceInv /\ StopInv)
<1>1. Init => Flags /\ PlaceInv /\ StopInv
  BY InitPlaces, InitStop
<1>2. Flags /\ PlaceInv /\ StopInv /\ [Next]_vars => (Flags /\ PlaceInv /\ StopInv)'
  BY FlagsInv, PlaceStep, StopStep
<1> QED
  BY <1>1, <1>2, PTL DEF Spec

\* A uv_work_t is one link in one list: whatever is submitted, deferred and called back, a
\* work is in one place.
THEOREM WorkInOnePlaceCorrect == Spec => []WorkInOnePlace
<1>1. Flags /\ PlaceInv => WorkInOnePlace
  <2> SUFFICES ASSUME Flags, PlaceInv PROVE WorkInOnePlace
    OBVIOUS
  <2>1. idle \in 0..Cardinality(Pool)
    BY ThreadCounts, PoolFinite, Constants DEF PlaceInv, IdleInv
  <2>2. PoolTypeOK
    BY <2>1 DEF PlaceInv, Flags, Values, ThreadStates, PoolTypeOK
  <2>3. \A w \in Works :
          (IF w \in fresh THEN 1 ELSE 0) + (IF w \in over THEN 1 ELSE 0)
            + Occurrences(w, wq) + Occurrences(w, doneq) + Occurrences(w, batch)
            + Cardinality({t \in Pool : job[t] = w}) = 1
    BY DEF PlaceInv, OnePlace, Places, Jobs, One
  <2> QED
    BY <2>2, <2>3 DEF WorkInOnePlace
<1> QED
  BY PoolInvariant, <1>1, PTL

\* No thread sleeps while there is more work than threads woken for it.
THEOREM NoSleepCorrect == Spec => []NoThreadSleepsOnWork
<1>1. PlaceInv => NoThreadSleepsOnWork
  BY DEF PlaceInv
<1> QED
  BY PoolInvariant, <1>1, PTL

\* The indexes of the request threads are different and below the number of processors,
\* although the pool has two threads more, when Ctrl+S is pressed once, not while the last
\* disconnections are queued, and the clients can be listed.  Without that the logger's
\* thread is free for a disconnection and draws an index beyond the last.
THEOREM ThreadIndexCorrect ==
    ASSUME CalmShutdown, ~ListMayFail PROVE Spec => []ThreadIndexInRange
<1>0. Calm
  BY DEF Calm
<1>1. PlaceInv /\ IndexInv => ThreadIndexInRange
  <2> SUFFICES ASSUME PlaceInv, IndexInv PROVE ThreadIndexInRange
    OBVIOUS
  <2>1. \A t \in Pool : index[t] < MaxRequestProcessingThreads
    <3> SUFFICES ASSUME NEW t \in Pool PROVE index[t] < MaxRequestProcessingThreads
      OBVIOUS
    <3>1. /\ counter \in Nat /\ counter <= MaxRequestProcessingThreads
          /\ MaxRequestProcessingThreads \in Nat \ {0}
      BY Constants DEF PlaceInv, Values, IndexInv, NumberInv
    <3>2. CASE index[t] = NoIndex
      BY <3>1, <3>2 DEF NoIndex
    <3>3. CASE index[t] # NoIndex
      <4>1. index[t] \in Nat /\ index[t] < counter
        BY <3>3 DEF IndexInv, NumberInv, Numbered
      <4> QED
        BY <3>1, <4>1
    <3> QED
      BY <3>2, <3>3
  <2>2. \A t, u \in Pool : index[t] = index[u] /\ index[t] # NoIndex => t = u
    BY DEF IndexInv, NumberInv, Numbered
  <2> QED
    BY <2>1, <2>2 DEF ThreadIndexInRange
<1>2. PlaceInv /\ StopInv /\ IndexInv /\ [Next]_vars => IndexInv'
  BY <1>0, IndexStep
<1> QED
  BY PoolInvariant, InitIndex, <1>1, <1>2, PTL DEF Spec

\* Logger and file writer end with nothing left that was queued before they were told to
\* stop, whatever the shutdown finds under way; after a calm one the file writer ends with
\* nothing at all.
THEOREM DrainsCorrect == Spec => []QueuedBeforeStopIsWritten
<1>1. StopInv => QueuedBeforeStopIsWritten
  BY DEF StopInv, QueuedBeforeStopIsWritten
<1> QED
  BY PoolInvariant, <1>1, PTL
===============================================================================
