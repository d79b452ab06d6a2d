---------------------------- MODULE MCRequestBuffer ----------------------------
(* Small instances of RequestBuffer.                                          *)
EXTENDS RequestBuffer

\* Version "v" takes requests of two bytes, the peer servers' version of three.
MCMaxRequestSize == [v \in Versions |-> IF v = Peer THEN 3 ELSE 2]
===============================================================================
