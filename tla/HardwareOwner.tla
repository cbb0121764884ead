--------------------------- MODULE HardwareOwner ---------------------------
(***************************************************************************)
(* What the capture handle promises of the hardware to the threads that    *)
(* share it: one of them at a time uses it, only hardware that is down is  *)
(* started, nobody comes in while it starts, it is taken down while nobody *)
(* uses it, and until that happens whoever comes in finds it up.           *)
(***************************************************************************)
CONSTANT Users

VARIABLES
    using,   (* who uses the hardware       *)
    hw,      (* off, starting or on         *)
    taken    (* it has been taken down once *)

vars == <<using, hw, taken>>

Init == using = {} /\ hw = "off" /\ taken = FALSE

Start(u) ==
    /\ using = {} /\ hw = "off"
    /\ using' = {u} /\ hw' = "starting"
    /\ UNCHANGED taken

Started(u) ==
    /\ using = {u} /\ hw = "starting"
    /\ using' = {} /\ hw' = "on"
    /\ UNCHANGED taken

Enter(u) ==
    /\ using = {}
    /\ taken \/ hw = "on"
    /\ using' = {u}
    /\ UNCHANGED <<hw, taken>>

Leave(u) ==
    /\ using = {u} /\ hw # "starting"
    /\ using' = {}
    /\ UNCHANGED <<hw, taken>>

TakeDown ==
    /\ using = {} /\ hw = "on"
    /\ hw' = "off" /\ taken' = TRUE
    /\ UNCHANGED using

Next ==
    \/ \E u \in Users : Start(u) \/ Started(u) \/ Enter(u) \/ Leave(u)
    \/ TakeDown

Spec == Init /\ [][Next]_vars
=============================================================================
