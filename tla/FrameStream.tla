----------------------------- MODULE FrameStream -----------------------------
(***************************************************************************)
(* The two capture loops (main.rs 830-1018), the broadcast channels they   *)
(* send to, and the clients that read them: an MJPEG client skips what it  *)
(* has missed, a direct H.264 client ends (main.rs 1020-1079).  A loop     *)
(* reads the screen's configuration, waits for its interval, and works     *)
(* with what it has read.  Each frame's result goes to the quality         *)
(* controller.  WebRTC peers are only there or not (see PeerRegistry).     *)
(* main keeps the first receiver of each channel for its whole life (main. *)
(* rs 245-246), so a loop whose type is configured always finds a receiver,*)
(* captures and sends, viewers or not, and a send to a channel never fails.*)
(* The frame rate is not zero: with 1/0 seconds the loop panics, and the   *)
(* program, built with panic = 'abort', ends.                              *)
(***************************************************************************)
EXTENDS Quality, Sequences

CONSTANTS
    Clients,   (* clients of /stream/mjpeg and of the direct H.264 stream  *)
    Cap,       (* the capacity of a broadcast channel                      *)
    MaxFrames  (* bound on the frames of a kind                            *)

Kinds == {"mjpeg", "h264"}

ASSUME StreamAssumption == Cap \in Nat \ {0} /\ MaxFrames \in Nat

VARIABLES
    type,     (* stream_type of screen_config                              *)
    seen,     (* the type each loop has read                               *)
    at,       (* where each loop is                                        *)
    peers,    (* there are WebRTC peers                                    *)
    encoded,  (* frames of each kind the hardware has delivered            *)
    watch,    (* the channel each client reads                             *)
    unread,   (* what the channel holds for it                             *)
    missed,   (* the channel has dropped some of it                        *)
    last      (* the last frame it got                                     *)

loops == <<type, seen, at, peers, encoded>>
client == <<watch, unread, missed, last>>
stream == <<loops, client, quality>>

Frames == 1..MaxFrames

StreamTypeOK ==
    /\ type \in Kinds
    /\ seen \in [Kinds -> Kinds] /\ at \in [Kinds -> {"waiting", "encoded"}]
    /\ peers \in BOOLEAN
    /\ encoded \in [Kinds -> 0..MaxFrames]
    /\ watch \in [Clients -> Kinds \cup {"none"}]
    /\ unread \in [Clients -> Seq(Frames)]
    /\ missed \in [Clients -> BOOLEAN]
    /\ last \in [Clients -> 0..MaxFrames]
    /\ QualityTypeOK

StreamInit ==
    /\ type = "mjpeg" /\ peers = FALSE
    /\ seen = [k \in Kinds |-> type]
    /\ at = [k \in Kinds |-> "waiting"]
    /\ encoded = [k \in Kinds |-> 0]
    /\ watch = [c \in Clients |-> "none"]
    /\ unread = [c \in Clients |-> <<>>]
    /\ missed = [c \in Clients |-> FALSE]
    /\ last = [c \in Clients |-> 0]
    /\ QualityInit

-----------------------------------------------------------------------------
(* A loop's round: its end, and the reading of the configuration, *)
NextRound(k) ==
    /\ seen' = [seen EXCEPT ![k] = type]
    /\ at' = [at EXCEPT ![k] = "waiting"]

(* another type is configured, or there is no frame; *)
NoFrame(k) ==
    /\ at[k] = "waiting"
    /\ NextRound(k)
    /\ UNCHANGED <<type, peers, encoded, client, quality>>

(* get_mjpeg or get_h264 on a blocking thread; *)
Encode(k) ==
    /\ at[k] = "waiting" /\ seen[k] = k
    /\ encoded[k] < MaxFrames
    /\ encoded' = [encoded EXCEPT ![k] = @ + 1]
    /\ at' = [at EXCEPT ![k] = "encoded"]
    /\ UNCHANGED <<type, seen, peers, client, quality>>

(* broadcast::Sender::send, to whoever reads the channel by now; it makes  *)
(* room at the expense of the slowest;                                     *)
Room(q) == IF Len(q) < Cap THEN q ELSE Tail(q)

Send(k) ==
    /\ unread' = [c \in Clients |->
                    IF watch[c] = k THEN Append(Room(unread[c]), encoded[k]) ELSE unread[c]]
    /\ missed' = [c \in Clients |-> missed[c] \/ (watch[c] = k /\ Len(unread[c]) >= Cap)]

PublishMjpeg ==
    /\ at["mjpeg"] = "encoded"
    /\ Send("mjpeg")
    /\ OnFrameResult(TRUE)
    /\ NextRound("mjpeg")
    /\ UNCHANGED <<type, peers, encoded, watch, last>>

(* broadcast_frame counts the peers still there (allSent), not the packets *)
(* that were written; the direct clients come after.  Only a peer that has *)
(* gone meanwhile makes the result a failure.                              *)
PublishH264(allSent) ==
    /\ at["h264"] = "encoded"
    /\ peers \/ allSent
    /\ Send("h264")
    /\ OnFrameResult(allSent)
    /\ NextRound("h264")
    /\ UNCHANGED <<type, peers, encoded, watch, last>>

-----------------------------------------------------------------------------
(* set_screen_handler *)
SetScreen(k) ==
    /\ type' = k
    /\ UNCHANGED <<seen, at, peers, encoded, client, quality>>

PeersChange ==
    /\ peers' = ~peers
    /\ UNCHANGED <<type, seen, at, encoded, client, quality>>

(* set_auto_quality_handler, and time *)
Adapt ==
    /\ QualityTick \/ \E enabled \in BOOLEAN : SetAuto(enabled)
    /\ UNCHANGED <<loops, client>>

-----------------------------------------------------------------------------
(* Clients *)

Watch(c, k) ==
    /\ watch' = [watch EXCEPT ![c] = k]
    /\ unread' = [unread EXCEPT ![c] = <<>>]
    /\ missed' = [missed EXCEPT ![c] = FALSE]
    /\ last' = [last EXCEPT ![c] = 0]

Subscribe(c, k) ==
    /\ watch[c] = "none"
    /\ Watch(c, k)
    /\ UNCHANGED <<loops, quality>>

Leave(c) ==
    /\ watch[c] # "none"
    /\ Watch(c, "none")
    /\ UNCHANGED <<loops, quality>>

(* What the mutants of the runs change. *)
Resume(c) ==
    /\ missed[c]
    /\ missed' = [missed EXCEPT ![c] = FALSE]
    /\ UNCHANGED <<watch, unread, last, loops, quality>>

(* RecvError::Lagged: an MJPEG client goes on with the oldest that is left. *)
Lagged(c) ==
    /\ missed[c]
    /\ IF watch[c] = "h264" THEN Watch(c, "none")
       ELSE /\ missed' = [missed EXCEPT ![c] = FALSE]
            /\ UNCHANGED <<watch, unread, last>>
    /\ UNCHANGED <<loops, quality>>

(* A socket that no longer takes the frame is Leave. *)
Receive(c) ==
    /\ ~missed[c] /\ unread[c] # <<>>
    /\ last' = [last EXCEPT ![c] = Head(unread[c])]
    /\ unread' = [unread EXCEPT ![c] = Tail(@)]
    /\ UNCHANGED <<watch, missed, loops, quality>>

-----------------------------------------------------------------------------
StreamNext ==
    \/ \E k \in Kinds : NoFrame(k) \/ Encode(k) \/ SetScreen(k)
    \/ PublishMjpeg \/ \E allSent \in BOOLEAN : PublishH264(allSent)
    \/ PeersChange \/ Adapt
    \/ \E c \in Clients : Leave(c) \/ Lagged(c) \/ Receive(c) \/ \E k \in Kinds : Subscribe(c, k)

StreamSpec == StreamInit /\ [][StreamNext]_stream

-----------------------------------------------------------------------------
(* Properties. *)

(* The clients are served as FrameFeeds says, although they come and go    *)
(* between the encoding of a frame and its send, the operator switches the *)
(* type under the loops, and slow readers overrun their channel (main.rs   *)
(* 845-865, 911-1000, 1023-1079).                                          *)
Feed == INSTANCE FrameFeeds
FeedSpec == Feed!Spec

(* In particular a direct client gets every frame the encoder delivers     *)
(* from its first to its last, since a later frame cannot be decoded       *)
(* without those before, and an MJPEG client gets frames in order.         *)
NoGap ==
    [][\A c \in Clients :
          last[c] # 0 /\ last'[c] \notin {0, last[c]} =>
              IF watch[c] = "h264" THEN last'[c] = last[c] + 1 ELSE last'[c] > last[c]]_stream
=============================================================================
