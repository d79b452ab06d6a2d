---------------------------- MODULE MCUpdateBarrier ----------------------------
(* Small instances of UpdateBarrier.                                          *)
EXTENDS UpdateBarrier
===============================================================================
