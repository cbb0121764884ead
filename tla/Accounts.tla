------------------------------ MODULE Accounts ------------------------------
(***************************************************************************)
(* The account and its password (auth.rs): the file PWD_FILE, which a      *)
(* change of the password overwrites, and the root password of the board,  *)
(* which passwd sets afterwards.  Without a readable file the default      *)
(* password is in effect.  Nothing is locked.                              *)
(***************************************************************************)
EXTENDS Naturals, ConfFile

CONSTANTS
    Changes, (* change requests that may be under way together             *)
    Passwords,
    Default, (* the password without a file                                *)
    Factory, (* the root password the board is delivered with              *)
    NoPassword

ASSUME AccountsAssumption ==
    /\ Unreadable \cap Passwords = {}
    /\ Default \notin Passwords /\ Factory \notin Passwords /\ NoPassword \notin Passwords

VARIABLES
    account, (* PWD_FILE: the password it holds                            *)
    root,    (* the root password                                          *)
    acStage, (* where each request is                                      *)
    new,     (* the password each request sets                             *)
    set,     (* history: the password of the last change answered with     *)
             (* success                                                    *)
    fate     (* history: changes came one at a time (kept), or two         *)
             (* crossed, or one failed                                     *)

accounts == <<account, root, acStage, new, set, fate>>

AccountsTypeOK ==
    /\ account \in Passwords \cup Unreadable
    /\ root \in Passwords \cup {Factory}
    /\ acStage \in [Changes -> {"idle", "ready", "opened", "saved", "undo"}]
    /\ new \in [Changes -> Passwords \cup {NoPassword}]
    /\ set \in Passwords \cup {NoPassword}
    /\ fate \in {"kept", "crossed", "failed"}

AccountsInit ==
    /\ account = Absent /\ root = Factory
    /\ acStage = [r \in Changes |-> "idle"]
    /\ new = [r \in Changes |-> NoPassword]
    /\ set = NoPassword /\ fate = "kept"

InEffect == IF account \in Passwords THEN account ELSE Default

AcGoto(r, s) == acStage' = [acStage EXCEPT ![r] = s] /\ UNCHANGED new

AcDone(r) == acStage' = [acStage EXCEPT ![r] = "idle"] /\ new' = [new EXCEPT ![r] = NoPassword]

Spoil(what) == fate' = IF fate = "kept" THEN what ELSE fate

-----------------------------------------------------------------------------
(* get_account; the user name is the one in the file and stays. *)
Change(r, p) ==
    /\ acStage[r] = "idle"
    /\ acStage' = [acStage EXCEPT ![r] = "ready"]
    /\ new' = [new EXCEPT ![r] = p]
    /\ IF \A q \in Changes : acStage[q] = "idle" THEN UNCHANGED fate ELSE Spoil("crossed")
    /\ UNCHANGED <<account, root, set>>

(* save_account *)
OpenAccount(r) ==
    /\ acStage[r] = "ready"
    /\ account' = Empty
    /\ AcGoto(r, "opened")
    /\ UNCHANGED <<root, set, fate>>

WriteAccount(r) ==
    /\ acStage[r] = "opened"
    /\ account' \in Overwritten(account, new[r])
    /\ \/ AcGoto(r, "saved") /\ UNCHANGED fate
       \/ AcDone(r) /\ Spoil("failed")
    /\ UNCHANGED <<root, set>>

AcSaveFails(r) ==
    /\ acStage[r] \in {"ready", "opened"}
    /\ AcDone(r)
    /\ IF acStage[r] = "opened" THEN Spoil("failed") ELSE UNCHANGED fate
    /\ UNCHANGED <<account, root, set>>

(* What the mutants of the runs change. *)
SetRootUndone(r) ==
    /\ acStage[r] = "saved"
    /\ root' = new[r] /\ set' = new[r]
    /\ AcGoto(r, "undo")
    /\ UNCHANGED <<account, fate>>

(* change_root_password *)
SetRoot(r) ==
    /\ acStage[r] = "saved"
    /\ root' = new[r] /\ set' = new[r]
    /\ AcDone(r)
    /\ UNCHANGED <<account, fate>>

(* When passwd fails the file is removed, whatever it held before. *)
PasswdFails(r) ==
    /\ acStage[r] = "saved"
    /\ AcGoto(r, "undo")
    /\ Spoil("failed")
    /\ UNCHANGED <<account, root, set>>

RemoveAccount(r) ==
    /\ acStage[r] = "undo"
    /\ account' = Absent
    /\ AcDone(r)
    /\ UNCHANGED <<root, set, fate>>

(* The client goes away; passwd may have been given the password by then. *)
AcHangUp(r) ==
    /\ acStage[r] \in {"ready", "saved", "undo"}
    /\ root' \in IF acStage[r] = "saved" THEN {root, new[r]} ELSE {root}
    /\ AcDone(r)
    /\ IF acStage[r] = "saved" THEN Spoil("failed") ELSE UNCHANGED fate
    /\ UNCHANGED <<account, set>>

AcRestart ==
    /\ acStage' = [r \in Changes |-> "idle"]
    /\ new' = [r \in Changes |-> NoPassword]
    /\ IF \E r \in Changes : acStage[r] \in {"opened", "saved", "undo"}
       THEN Spoil("failed") ELSE UNCHANGED fate
    /\ UNCHANGED <<account, root, set>>

AcServe(r) ==
    \/ \E p \in Passwords : Change(r, p)
    \/ OpenAccount(r) \/ WriteAccount(r) \/ AcSaveFails(r)
    \/ SetRoot(r) \/ PasswdFails(r) \/ RemoveAccount(r) \/ AcHangUp(r)

AccountsNext == AcRestart \/ \E r \in Changes : AcServe(r)

AccountsSpec == AccountsInit /\ [][AccountsNext]_accounts

-----------------------------------------------------------------------------
(* Properties. *)

(* After a change that succeeded its password is in effect, here and for   *)
(* root, until the next change: the default password comes back only while *)
(* the file is written, unless changes crossed or one failed.              *)
LastChangeStands ==
    fate = "kept" /\ set # NoPassword =>
        \/ InEffect = set /\ root = set
        \/ \E r \in Changes : acStage[r] \in {"opened", "saved"}
=============================================================================
