----------------------------- MODULE FrameFeeds -----------------------------
(***************************************************************************)
(* What the capture loops and the broadcast channels promise to a client:  *)
(* frames of the kind it watches that were encoded, none twice and none    *)
(* out of order.  A direct H.264 client gets them one after the other,     *)
(* since a frame cannot be decoded without those before; where one is      *)
(* missing, its stream ends.  An MJPEG client may miss some.               *)
(***************************************************************************)
EXTENDS Naturals

CONSTANT Clients

Kinds == {"mjpeg", "h264"}

VARIABLES
    encoded,  (* frames of each kind so far          *)
    watch,    (* the kind a client watches, or none  *)
    last      (* the last frame it got, or 0         *)

feeds == <<encoded, watch, last>>

Init ==
    /\ encoded = [k \in Kinds |-> 0]
    /\ watch = [c \in Clients |-> "none"]
    /\ last = [c \in Clients |-> 0]

Produce(k) ==
    /\ encoded' = [encoded EXCEPT ![k] = @ + 1]
    /\ UNCHANGED <<watch, last>>

Start(c, k) ==
    /\ watch[c] = "none"
    /\ watch' = [watch EXCEPT ![c] = k]
    /\ UNCHANGED <<encoded, last>>

Get(c) ==
    /\ watch[c] # "none"
    /\ \E n \in (last[c] + 1)..encoded[watch[c]] :
          /\ watch[c] = "h264" /\ last[c] # 0 => n = last[c] + 1
          /\ last' = [last EXCEPT ![c] = n]
    /\ UNCHANGED <<encoded, watch>>

End(c) ==
    /\ watch[c] # "none"
    /\ watch' = [watch EXCEPT ![c] = "none"]
    /\ last' = [last EXCEPT ![c] = 0]
    /\ UNCHANGED encoded

Next ==
    \/ \E k \in Kinds : Produce(k)
    \/ \E c \in Clients : Get(c) \/ End(c) \/ \E k \in Kinds : Start(c, k)

Spec == Init /\ [][Next]_feeds
=============================================================================
