------------------------------ MODULE MCStream ------------------------------
(* The frames on their way to the clients: the capture loops with their    *)
(* channels and the quality controller, and the packets of a frame.  The   *)
(* two share no variable, so a behaviour runs one of them.                 *)
EXTENDS FrameStream, H264Packets

CONSTANT c1

VARIABLE part

Init == part \in {"stream", "packets"} /\ StreamInit /\ PacketsInit

Next ==
    /\ UNCHANGED part
    /\ \/ part = "stream" /\ StreamNext /\ UNCHANGED packets
       \/ part = "packets" /\ PacketsNext /\ UNCHANGED stream

Spec == Init /\ [][Next]_<<part, stream, packets>>
=============================================================================
