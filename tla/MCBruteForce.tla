---------------------------- MODULE MCBruteForce ----------------------------
(* Instances of BruteForce for TLC. *)
EXTENDS BruteForce, TLC

CONSTANTS a, b, r1, r2

ThrottleSymmetry == Permutations(Logins) \cup Permutations(Ips)
=============================================================================
