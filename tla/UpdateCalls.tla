------------------------------- MODULE UpdateCalls -------------------------------
(***************************************************************************)
(* What SendUpdate and MulticastUpdate promise to a request processor: the *)
(* call returns when the event loop has run its periodic activities on     *)
(* whatever was stored before, the update among it.                        *)
(***************************************************************************)
CONSTANT Threads  \* request processing threads

VARIABLES
    call,    \* of every thread: "idle", "stored", "asked" or "served"
    pending  \* the threads with an update no periodic activities have seen

vars == <<call, pending>>

Init == call = [t \in Threads |-> "idle"] /\ pending = {}

\* The thread adds its update to the queues of the clients.
Store(t) ==
    /\ call[t] = "idle"
    /\ call' = [call EXCEPT ![t] = "stored"]
    /\ pending' = pending \cup {t}

\* It ran out of memory half way: the call returns at once.
Fail(t) ==
    /\ call[t] = "stored"
    /\ call' = [call EXCEPT ![t] = "idle"]
    /\ UNCHANGED pending

\* It asks the event loop to look.
Ask(t) ==
    /\ call[t] = "stored"
    /\ call' = [call EXCEPT ![t] = "asked"]
    /\ UNCHANGED pending

\* The loop looks because of that.
Serve(t) ==
    /\ call[t] = "asked"
    /\ call' = [call EXCEPT ![t] = "served"]
    /\ pending' = {}

\* The loop looks for another reason.
Look == pending' = {} /\ UNCHANGED call

\* Only a call that was served returns.
Return(t) ==
    /\ call[t] = "served"
    /\ call' = [call EXCEPT ![t] = "idle"]
    /\ UNCHANGED pending

Next ==
    \/ \E t \in Threads : Store(t) \/ Fail(t) \/ Ask(t) \/ Serve(t) \/ Return(t)
    \/ Look

Spec == Init /\ [][Next]_vars
===============================================================================
