---------------------------- MODULE MCWorkerThreads ----------------------------
(* Small instances of WorkerThreads.                                          *)
EXTENDS WorkerThreads
===============================================================================
