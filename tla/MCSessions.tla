----------------------------- MODULE MCSessions -----------------------------
(* Instances of Sessions for TLC. *)
EXTENDS Sessions, TLC

CONSTANTS l1, l2, t1

LogoutSymmetry == Permutations(Logouts)
=============================================================================
