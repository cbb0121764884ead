------------------------------ MODULE MCAccess ------------------------------
(* The components that let somebody in besides the login and the session:  *)
(* passkeys, recovery codes, their rate limit and the account.  Each has   *)
(* what it needs of the others (the end of an enrolment is in the module   *)
(* of the recovery codes too) and shares no variable with them, so a       *)
(* behaviour runs one of them.                                             *)
EXTENDS Passkeys, RecoveryCodes, RateLimit, Accounts, TLC

CONSTANTS r1, q1, q2, c1, c2, s1, s2, p1, p2, a1, a2

VARIABLE part

Init ==
    /\ part \in {"passkeys", "recovery", "limit", "accounts"}
    /\ PasskeysInit /\ RecoveryInit /\ LimitInit /\ AccountsInit

Next ==
    /\ UNCHANGED part
    /\ \/ part = "passkeys" /\ PasskeysNext /\ UNCHANGED <<recovery, rateLimit, accounts>>
       \/ part = "recovery" /\ RecoveryNext /\ UNCHANGED <<passkeys, rateLimit, accounts>>
       \/ part = "limit" /\ LimitNext /\ UNCHANGED <<passkeys, recovery, accounts>>
       \/ part = "accounts" /\ AccountsNext /\ UNCHANGED <<passkeys, recovery, rateLimit>>

Spec == Init /\ [][Next]_<<part, passkeys, recovery, rateLimit, accounts>>

AccessSymmetry == Permutations(Logins) \cup Permutations(Credentials) \cup Permutations(Slots)
=============================================================================
