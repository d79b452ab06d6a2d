---------------------------- MODULE MCPeerServers ----------------------------
(* Small instances of PeerServers: servers and responses are interchangeable. *)
EXTENDS PeerServers, TLC

Symmetry == Permutations(Servers) \cup Permutations(Responses)
===============================================================================
