------------------------------ MODULE ConfFile ------------------------------
(* A small file under /etc/kvm that is saved with fs::write and loaded     *)
(* without a lock: what it may be besides a complete text, and what a      *)
(* write may leave.                                                        *)

CONSTANTS
    Absent,  (* there is no file                                           *)
    Empty,   (* fs::write has truncated it and not written yet             *)
    Torn     (* two writes have mixed                                      *)

Unreadable == {Absent, Empty, Torn}

(* Writing at the start of a file that holds old leaves the tail of a      *)
(* longer text.                                                            *)
Overwritten(old, new) == IF old \in {Empty, new} THEN {new} ELSE {new, Torn}
=============================================================================
