-------------------------- MODULE MCForwardedResponse --------------------------
(* Small instances of ForwardedResponse.                                      *)
EXTENDS ForwardedResponse, TLC

CONSTANTS l1, p1, p2, p3, p4, p5

\* One local client and five of a peer, whom nothing tells apart.
MCHandles == {l1, p1, p2, p3, p4, p5}
MCServerOf == [h \in MCHandles |-> IF h = l1 THEN "local" ELSE "peer"]
PeerHandles == Permutations({p1, p2, p3, p4, p5})
===============================================================================
