------------------------------ MODULE WorkerThreads ------------------------------
(***************************************************************************)
(* libuv's thread pool as the framework uses and configures it: the queue  *)
(* of work and its condition variable, the queue of finished work and the  *)
(* asynchronous handle that tells the event loop of it, the numbering of   *)
(* the threads that process requests, and the threads of logger and file   *)
(* writer, which occupy a thread of the pool each until they are stopped.  *)
(*                                                                         *)
(* A work is a request, the disconnection of a client, a keep-alive or an  *)
(* address look-up (Others), or one of the Drains, which work off a queue  *)
(* of their own: statistics for the logger, files for the file writer.     *)
(* The disconnection of a client without a version has nothing to process  *)
(* and counts among the Others.                                            *)
(***************************************************************************)
EXTENDS Integers, Sequences, FiniteSets

CONSTANTS
    MaxRequestProcessingThreads,
    Requests,       \* requests, which may be deferred
    Disconnections, \* disconnections of clients that have a version
    Others,         \* keep-alives and address look-ups
    CalmShutdown,   \* is Ctrl+S pressed once, and not while the last disconnections are queued?
    ListMayFail,    \* may GetClients find no memory, so that the pool is taken for empty?
    MaxStats,       \* bound: statistics queued for the logger
    MaxFiles        \* bound: files queued for the file writer

Drains == {"logger", "writer"}
ClientWorks == Requests \cup Disconnections
Works == ClientWorks \cup Others \cup Drains
NoWork == "nothing"

ASSUME WorkerThreadsAssumption ==
    /\ MaxRequestProcessingThreads \in Nat \ {0}
    /\ IsFiniteSet(Requests) /\ IsFiniteSet(Disconnections) /\ IsFiniteSet(Others)
    /\ Requests \cap Disconnections = {} /\ ClientWorks \cap Others = {}
    /\ (ClientWorks \cup Others) \cap (Drains \cup {NoWork}) = {}
    /\ CalmShutdown \in BOOLEAN /\ ListMayFail \in BOOLEAN
    /\ MaxStats \in Nat /\ MaxFiles \in Nat

\* Mutant: one more thread than there are processors for.
PoolWithSpareThread == 1..(MaxRequestProcessingThreads + 3)

\* uv_set_threadpool_size: one more thread for the logger and one for the file writer.
Pool == 1..(MaxRequestProcessingThreads + 2)

NoIndex == -1

VARIABLES
    pc,        \* of every thread: "ready" to lock the mutex, "waiting" for the condition,
               \* "signalled" and about to have the mutex again, "starting" a work, "working"
    job,       \* the work a thread has taken
    index,     \* m_ThreadIndex
    counter,   \* ThreadIndexCounter
    idle,      \* idle_threads
    wq,        \* works to be done
    doneq,     \* loop->wq: works whose callback is due
    asyncSent, \* async_sent of loop->wq_async
    batch,     \* the works uv__work_done has taken out of doneq
    loop,      \* "start", "idle", "split" or "callbacks" in uv__work_done, "stopped"
    fresh,     \* works not submitted yet
    deferred,  \* requests that want to be processed again
    over,      \* works whose last callback has been called
    drain,     \* where a drain stands: "off", "check", "sleep", "process" or "end"
    quit,      \* bToQuitAfterQueueCheck
    stop,      \* m_bStopLoggerThread, m_bStopFileWritingThread
    stopped,   \* m_bLoggerThreadStopped, m_bFileWritingThreadStopped
    queued,    \* the length of m_StatQueue and m_FileQueue
    items,     \* how many items were queued for a drain so far
    owed       \* the items queued when the drain was told to stop and not taken up yet

threadVars == <<pc, job, index, counter>>
poolVars   == <<idle, wq>>
doneVars   == <<doneq, asyncSent>>
loopVars   == <<batch, loop, fresh, over>>
drainVars  == <<drain, quit>>
queueVars  == <<stop, stopped, queued, items, owed>>
vars == <<threadVars, poolVars, doneVars, loopVars, deferred, drainVars, queueVars>>

\* Every variable has the type of the field it models.
PoolTypeOK ==
    /\ pc \in [Pool -> {"ready", "waiting", "signalled", "starting", "working"}]
    /\ job \in [Pool -> Works \cup {NoWork}]
    /\ index \in [Pool -> Nat \cup {NoIndex}] /\ counter \in Nat
    /\ idle \in 0..Cardinality(Pool)
    /\ wq \in Seq(Works) /\ doneq \in Seq(Works) /\ batch \in Seq(Works)
    /\ asyncSent \in BOOLEAN
    /\ loop \in {"start", "idle", "split", "callbacks", "stopped"}
    /\ fresh \subseteq Works /\ deferred \subseteq Requests /\ over \subseteq Works
    /\ drain \in [Drains -> {"off", "check", "sleep", "process", "end"}]
    /\ quit \in [Drains -> BOOLEAN]
    /\ stop \in [Drains -> BOOLEAN] /\ stopped \in [Drains -> BOOLEAN]
    /\ queued \in [Drains -> Nat] /\ items \in [Drains -> Nat] /\ owed \in [Drains -> Nat]

Init ==
    /\ pc = [t \in Pool |-> "ready"]
    /\ job = [t \in Pool |-> NoWork]
    /\ index = [t \in Pool |-> NoIndex] /\ counter = 0
    /\ idle = 0 /\ wq = <<>> /\ doneq = <<>> /\ asyncSent = FALSE
    /\ batch = <<>> /\ loop = "start"
    /\ fresh = Works /\ deferred = {} /\ over = {}
    /\ drain = [d \in Drains |-> "off"] /\ quit = [d \in Drains |-> FALSE]
    /\ stop = [d \in Drains |-> FALSE] /\ stopped = [d \in Drains |-> FALSE]
    /\ queued = [d \in Drains |-> 0] /\ items = [d \in Drains |-> 0]
    /\ owed = [d \in Drains |-> 0]

-------------------------------------------------------------------------------
(* The queue of work                                                         *)

Waiting == {t \in Pool : pc[t] = "waiting"}

\* uv_cond_signal wakes one waiting thread, if there is one.
Signal ==
    IF Waiting = {} THEN UNCHANGED pc
    ELSE \E t \in Waiting : pc' = [pc EXCEPT ![t] = "signalled"]

\* Mutant: a thread is only woken when the queue was empty.
PostToEmpty(w) ==
    /\ wq' = Append(wq, w)
    /\ IF idle > 0 /\ wq = <<>> THEN Signal ELSE UNCHANGED pc
    /\ UNCHANGED idle

\* post: idle_threads also counts the threads that were signalled already.
Post(w) ==
    /\ wq' = Append(wq, w)
    /\ IF idle > 0 THEN Signal ELSE UNCHANGED pc
    /\ UNCHANGED idle

-------------------------------------------------------------------------------
(* The worker threads                                                        *)

HasMutex(t) == pc[t] \in {"ready", "signalled"}

\* idle_threads counts the threads inside uv_cond_wait, woken ones included.
WasIdle(t) == IF pc[t] = "signalled" THEN 1 ELSE 0

\* worker: nothing to do, uv_cond_wait.
Wait(t) ==
    /\ HasMutex(t) /\ wq = <<>>
    /\ pc' = [pc EXCEPT ![t] = "waiting"]
    /\ idle' = idle - WasIdle(t) + 1
    /\ UNCHANGED <<job, index, counter, wq, doneVars, loopVars, deferred, drainVars, queueVars>>

\* uv_cond_wait may return without a signal.
WakeUpSpuriously(t) ==
    /\ pc[t] = "waiting"
    /\ pc' = [pc EXCEPT ![t] = "signalled"]
    /\ UNCHANGED <<job, index, counter, poolVars, doneVars, loopVars, deferred, drainVars,
                   queueVars>>

\* worker: take the first work of the queue.
TakeWork(t) ==
    /\ HasMutex(t) /\ wq # <<>>
    /\ pc' = [pc EXCEPT ![t] = "starting"]
    /\ job' = [job EXCEPT ![t] = Head(wq)]
    /\ wq' = Tail(wq)
    /\ idle' = idle - WasIdle(t)
    /\ UNCHANGED <<index, counter, doneVars, loopVars, deferred, drainVars, queueVars>>

\* request_processing_thread and disconnection_processing_thread draw an index for a
\* thread that has none; the drains begin with a look at their queue.
StartWork(t) ==
    /\ pc[t] = "starting"
    /\ pc' = [pc EXCEPT ![t] = "working"]
    /\ IF job[t] \in ClientWorks /\ index[t] = NoIndex
       THEN index' = [index EXCEPT ![t] = counter] /\ counter' = counter + 1
       ELSE UNCHANGED <<index, counter>>
    /\ drain' = IF job[t] \in Drains THEN [drain EXCEPT ![job[t]] = "check"] ELSE drain
    /\ UNCHANGED <<job, poolVars, doneVars, loopVars, deferred, quit, queueVars>>

\* The application queues a file while it processes a request or a disconnection.
QueueFile(t) ==
    /\ pc[t] = "working" /\ job[t] \in ClientWorks
    /\ items["writer"] < MaxFiles
    /\ queued' = [queued EXCEPT !["writer"] = @ + 1]
    /\ items' = [items EXCEPT !["writer"] = @ + 1]
    /\ UNCHANGED <<threadVars, poolVars, doneVars, loopVars, deferred, drainVars,
                   stop, stopped, owed>>

\* uv_async_send posts a completion unless one is already under way.
Announce == asyncSent' = TRUE

\* worker: the work is done; its callback is due.
FinishWork(t) ==
    /\ pc[t] = "working"
    /\ job[t] \in Drains => drain[job[t]] = "end"
    /\ doneq' = Append(doneq, job[t])
    /\ Announce
    /\ job' = [job EXCEPT ![t] = NoWork]
    /\ pc' = [pc EXCEPT ![t] = "ready"]
    /\ \/ UNCHANGED deferred
       \/ job[t] \in Requests /\ deferred' = deferred \cup {job[t]}
    /\ UNCHANGED <<index, counter, poolVars, loopVars, drainVars, queueVars>>

-------------------------------------------------------------------------------
(* log_processing_thread and file_writing_thread                             *)

drainUnchanged == <<threadVars, poolVars, doneVars, loopVars, deferred, stop, stopped, items>>

Runs(d) == \E t \in Pool : job[t] = d /\ pc[t] = "working"

\* Take an item, or pause when there is none, or end when it is time to quit.
CheckQueue(d) ==
    /\ Runs(d) /\ drain[d] = "check"
    /\ IF queued[d] > 0
       THEN /\ queued' = [queued EXCEPT ![d] = @ - 1]
            /\ owed' = [owed EXCEPT ![d] = IF @ > 0 THEN @ - 1 ELSE 0]
            /\ drain' = [drain EXCEPT ![d] = "process"]
       ELSE /\ drain' = [drain EXCEPT ![d] = IF quit[d] THEN "end" ELSE "sleep"]
            /\ UNCHANGED <<queued, owed>>
    /\ UNCHANGED <<drainUnchanged, quit>>

\* The item is logged or written.
ProcessItem(d) ==
    /\ Runs(d) /\ drain[d] = "process"
    /\ drain' = [drain EXCEPT ![d] = "check"]
    /\ UNCHANGED <<drainUnchanged, quit, queued, owed>>

\* Mutant: the thread ends after the pause without another look at the queue.
EndAfterPause(d) == drain' = [drain EXCEPT ![d] = IF stop[d] THEN "end" ELSE "check"]

\* Mutant: the thread pauses for as long as its queue is empty.
PauseWhileEmpty(d) ==
    drain' = [drain EXCEPT ![d] = IF queued[d] > 0 THEN "check" ELSE "sleep"]

\* After the pause the thread looks at its queue again.
LookAgain(d) == drain' = [drain EXCEPT ![d] = "check"]

\* After the pause the thread reads the flag set by Stop.
ReadStopFlag(d) == quit' = [quit EXCEPT ![d] = @ \/ stop[d]]

Pause(d) ==
    /\ Runs(d) /\ drain[d] = "sleep"
    /\ ReadStopFlag(d)
    /\ LookAgain(d)
    /\ UNCHANGED <<drainUnchanged, queued, owed>>

-------------------------------------------------------------------------------
(* The event loop                                                            *)

loopUnchanged == <<job, index, counter, deferred, drainVars>>

\* StartServer queues the logger, then the file writer, then it listens.
StartDrains ==
    /\ loop = "start"
    /\ IF "logger" \in fresh
       THEN Post("logger") /\ fresh' = fresh \ {"logger"} /\ UNCHANGED loop
       ELSE Post("writer") /\ fresh' = fresh \ {"writer"} /\ loop' = "idle"
    /\ UNCHANGED <<loopUnchanged, doneVars, batch, over, queueVars>>

\* Requests are found in on_read, disconnections and keep-alives queued by callbacks and
\* the timer.  The drains are being stopped when the pool was empty and nobody can join it:
\* no client is left to be read or disconnected, unless the pool was only taken for empty.
Submit(w) ==
    /\ loop \in {"idle", "callbacks"}
    /\ w \in fresh \cap (ClientWorks \cup Others)
    /\ w \in ClientWorks => ~stop["logger"] \/ ListMayFail
    /\ fresh' = fresh \ {w}
    /\ Post(w)
    /\ UNCHANGED <<loopUnchanged, doneVars, batch, loop, over, queueVars>>

\* A copy of the statistics is put into m_StatQueue.
LogStatistics ==
    /\ queued' = [queued EXCEPT !["logger"] = @ + 1]
    /\ items' = [items EXCEPT !["logger"] = @ + 1]

\* LogStat, by the timer or Ctrl+P; without a change since the last time it does nothing.
LogStat ==
    /\ loop = "idle"
    /\ items["logger"] < MaxStats
    /\ LogStatistics
    /\ UNCHANGED <<threadVars, poolVars, doneVars, loopVars, deferred, drainVars,
                   stop, stopped, owed>>

\* uv_process_async_wakeup_req: async_sent is cleared before the callback.
WakeUpLoop ==
    /\ loop = "idle" /\ asyncSent
    /\ asyncSent' = FALSE
    /\ loop' = "split"
    /\ UNCHANGED <<threadVars, poolVars, doneq, batch, fresh, over, deferred, drainVars,
                   queueVars>>

\* Mutant: only the head of the queue is taken out, all of it is called back.
SplitHead ==
    /\ loop = "split"
    /\ batch' = doneq
    /\ doneq' = IF doneq = <<>> THEN <<>> ELSE Tail(doneq)
    /\ loop' = "callbacks"
    /\ UNCHANGED <<threadVars, poolVars, asyncSent, fresh, over, deferred, drainVars, queueVars>>

\* uv__work_done takes the whole queue.
SplitQueue ==
    /\ loop = "split"
    /\ batch' = doneq
    /\ doneq' = <<>>
    /\ loop' = "callbacks"
    /\ UNCHANGED <<threadVars, poolVars, asyncSent, fresh, over, deferred, drainVars, queueVars>>

\* Mutant: a deferred request is put before those that wait.
RequeueFirst ==
    /\ loop = "callbacks" /\ batch # <<>>
    /\ Head(batch) \in deferred
    /\ deferred' = deferred \ {Head(batch)}
    /\ wq' = <<Head(batch)>> \o wq
    /\ IF idle > 0 THEN Signal ELSE UNCHANGED pc
    /\ batch' = Tail(batch)
    /\ UNCHANGED <<job, index, counter, idle, doneVars, loop, fresh, over, drainVars, queueVars>>

\* after_request_processing_thread queues a deferred request again.
RequeueDeferred ==
    /\ loop = "callbacks" /\ batch # <<>>
    /\ Head(batch) \in deferred
    /\ deferred' = deferred \ {Head(batch)}
    /\ Post(Head(batch))
    /\ batch' = Tail(batch)
    /\ UNCHANGED <<job, index, counter, doneVars, loop, fresh, over, drainVars, queueVars>>

\* The callback of a work that is over, after_log_processing_thread among them.
CallBack ==
    /\ loop = "callbacks" /\ batch # <<>>
    /\ Head(batch) \notin deferred
    /\ over' = over \cup {Head(batch)}
    /\ stopped' = [d \in Drains |-> stopped[d] \/ d = Head(batch)]
    /\ batch' = Tail(batch)
    /\ UNCHANGED <<threadVars, poolVars, doneVars, loop, fresh, deferred, drainVars,
                   stop, queued, items, owed>>

\* uv__work_done returns to the loop.
CallbacksDone ==
    /\ loop = "callbacks" /\ batch = <<>>
    /\ loop' = "idle"
    /\ UNCHANGED <<threadVars, poolVars, doneVars, batch, fresh, over, deferred, drainVars,
                   queueVars>>

\* Logger::Stop and WriteToFile::Stop set the flag every time they are called.
StopDrain(d) ==
    /\ stop' = [stop EXCEPT ![d] = TRUE]
    /\ owed' = IF stop[d] THEN owed ELSE [owed EXCEPT ![d] = queued[d]]

\* m_bAllClientsDisconnectedForShutdown: the pool is empty, so no request is under way.  It
\* is set behind the last disconnection, but also by a Ctrl+S that finds the pool empty,
\* whatever is queued or running; and by one that fails to list the clients.
AllClientsDisconnected ==
    \/ ListMayFail
    \/ /\ Requests \subseteq fresh \cup over
       /\ CalmShutdown => Disconnections \subseteq fresh \cup over

\* The last stage of a shutdown, with every turn of the timer:
\* m_pLogger->Stop() && m_pWriteToFile->Stop() asks the writer only after the logger.
StopDrains ==
    /\ loop = "idle"
    /\ AllClientsDisconnected
    /\ IF ~stopped["logger"]
       THEN StopDrain("logger") /\ UNCHANGED loop
       ELSE StopDrain("writer") /\ loop' = IF stopped["writer"] THEN "stopped" ELSE loop
    /\ UNCHANGED <<threadVars, poolVars, doneVars, batch, fresh, over, deferred, drainVars,
                   stopped, queued, items>>

-------------------------------------------------------------------------------
Worker(t) ==
    \/ Wait(t) \/ TakeWork(t) \/ StartWork(t) \/ QueueFile(t) \/ FinishWork(t)

Drain(d) == CheckQueue(d) \/ ProcessItem(d) \/ Pause(d)

WorkDone == WakeUpLoop \/ SplitQueue \/ RequeueDeferred \/ CallBack \/ CallbacksDone

Next ==
    \/ \E t \in Pool : Worker(t) \/ WakeUpSpuriously(t)
    \/ \E d \in Drains : Drain(d)
    \/ StartDrains
    \/ \E w \in Works : Submit(w)
    \/ LogStat
    \/ WorkDone
    \/ StopDrains

\* Threads run, requests come to an end, the loop serves its callbacks, and the timer goes
\* on calling Stop once a shutdown has got that far.
Fairness ==
    /\ \A t \in Pool : WF_vars(Worker(t))
    /\ \A d \in Drains : WF_vars(Drain(d))
    /\ WF_vars(StartDrains)
    /\ WF_vars(WorkDone)
    /\ WF_vars(stop["logger"] /\ StopDrains)

Spec == Init /\ [][Next]_vars /\ Fairness

-------------------------------------------------------------------------------
(* Properties                                                                *)

Occurrences(w, s) == Cardinality({i \in 1..Len(s) : s[i] = w})

\* A work is in one place: not submitted, in the queue, with one thread, in the queue of
\* finished work, in the batch of callbacks, or over.  Its uv_work_t is one link in a list.
WorkInOnePlace ==
    PoolTypeOK /\ \A w \in Works :
        (IF w \in fresh THEN 1 ELSE 0) + (IF w \in over THEN 1 ELSE 0)
          + Occurrences(w, wq) + Occurrences(w, doneq) + Occurrences(w, batch)
          + Cardinality({t \in Pool : job[t] = w}) = 1

\* No thread sleeps while there is more work than threads that were woken for it: post
\* signals when idle_threads is positive, and that counter includes threads woken already.
NoThreadSleepsOnWork ==
    Waiting # {} => Len(wq) <= Cardinality({t \in Pool : HasMutex(t)})

\* The threads that process requests and disconnections have different numbers, all below
\* the number of processors (the ASSERTs at LocalClientsManager.cpp:370 and 920), although
\* the pool has two threads more.  It takes a calm shutdown: otherwise the logger may have
\* left its thread to a disconnection.
ThreadIndexInRange ==
    /\ \A t \in Pool : index[t] < MaxRequestProcessingThreads
    /\ \A t, u \in Pool : index[t] = index[u] /\ index[t] # NoIndex => t = u

\* The shutdown reaches its last stage with no request or disconnection under way.
Calm == CalmShutdown /\ ~ListMayFail

\* A drain that has ended had nothing left that was queued before it was told to stop; after
\* a calm shutdown the file writer has nothing left at all.
QueuedBeforeStopIsWritten ==
    /\ \A d \in Drains : drain[d] = "end" => stop[d] /\ owed[d] = 0
    /\ Calm /\ drain["writer"] = "end" => queued["writer"] = 0

\* Every work in the queue is done and called back, however often others are deferred.
WorkIsCalledBack ==
    \A w \in ClientWorks \cup Others :
        (\E i \in 1..Len(wq) : wq[i] = w) ~> ((\E i \in 1..Len(batch) : batch[i] = w) \/ loop = "stopped")

\* Once the logger is told to stop, both drains end and the loop stops.
DrainsStop == stop["logger"] ~> loop = "stopped"
===============================================================================
