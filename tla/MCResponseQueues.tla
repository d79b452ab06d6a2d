-------------------------- MODULE MCResponseQueues --------------------------
(* ResponseQueues on small instances. *)
EXTENDS ResponseQueues, TLC

Symmetry == Permutations(Clients) \cup Permutations(Threads)
=============================================================================
