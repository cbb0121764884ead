--------------------------- MODULE MCPeerRegistry ---------------------------
(* Instances of PeerRegistry for TLC. *)
EXTENDS PeerRegistry, TLC

CONSTANTS c1, c2, c3, s1, s2, k1, default, other

(* Connections and sockets are interchangeable in the safety runs. *)
ConnSymmetry == Permutations(Conns) \cup Permutations(Sockets)
=============================================================================
