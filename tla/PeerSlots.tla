----------------------------- MODULE PeerSlots -----------------------------
(***************************************************************************)
(* What the peer registry promises its clients: each video source has a    *)
(* bounded number of peer slots, a connection takes one slot of one source *)
(* at most once in its life, and a slot that is given back stays back.     *)
(***************************************************************************)
EXTENDS Naturals, FiniteSets

CONSTANTS
    Conns,    (* connection ids                          *)
    Sources,  (* video sources                           *)
    Slots     (* how many peers one source may ever hold *)

VARIABLES
    held,     (* held[s]: the connections that hold a slot of source s *)
    spent     (* the connections that have ever held one               *)

vars == <<held, spent>>

Init ==
    /\ held = [s \in Sources |-> {}]
    /\ spent = {}

(* A new connection takes a free slot. *)
Acquire(s, c) ==
    /\ c \notin spent
    /\ Cardinality(held[s]) < Slots
    /\ held' = [held EXCEPT ![s] = @ \cup {c}]
    /\ spent' = spent \cup {c}

(* A connection gives its slot back, for good. *)
Release(s, c) ==
    /\ c \in held[s]
    /\ held' = [held EXCEPT ![s] = @ \ {c}]
    /\ UNCHANGED spent

Next == \E s \in Sources, c \in Conns : Acquire(s, c) \/ Release(s, c)

Spec == Init /\ [][Next]_vars
=============================================================================
