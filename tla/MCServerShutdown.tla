--------------------------- MODULE MCServerShutdown ---------------------------
(* Small instances of ServerShutdown: clients are interchangeable.           *)
EXTENDS ServerShutdown, TLC

Symmetry == Permutations(Clients)
===============================================================================
