----------------------------- MODULE H264Packets -----------------------------
(***************************************************************************)
(* From the bytes of a frame to RTP packets (webrtc/transport.rs): the     *)
(* scan for NAL units, the packets of at most MaxPayload bytes that carry  *)
(* them, whole or as FU-A fragments, and their writes to one connection,   *)
(* each of which is awaited and may fail.  A round of each of the loops is *)
(* one step.  A slice of the frame is its first and its last position;     *)
(* positions count from 1.                                                 *)
(***************************************************************************)
EXTENDS Integers, Sequences

CONSTANTS
    Bytes,       (* byte values: 0, 1 and some others                      *)
    MaxLength,   (* bound on the length of a frame                         *)
    MaxPayload,  (* MAX_RTP_PAYLOAD_SIZE                                   *)
    SeqBound     (* sequence numbers are modulo this, 2^16 in the code     *)

ASSUME PacketsAssumption ==
    /\ {0, 1} \subseteq Bytes /\ MaxLength \in Nat
    /\ MaxPayload \in Nat /\ MaxPayload > 2 /\ SeqBound \in Nat \ {0}

VARIABLES
    frame,     (* the frame                                                *)
    stage,     (* the loop it is in                                        *)
    pos,       (* find_nal_units: where the search goes on (i)             *)
    units,     (* find_nal_units: the NAL units found                      *)
    nal,       (* packetize_h264_optimized: the unit to pack               *)
    offset,    (* packetize_h264_optimized: bytes of its payload packed    *)
    pkts,      (* the packets of the frame                                 *)
    next,      (* send_optimized_packets: the packet to write              *)
    number,    (* sequence_number of the connection                        *)
    local,     (* the copy send_optimized_packets counts on                *)
    latest,    (* history: the number of the last packet written, or -1    *)
    lossless,  (* history: no write of this frame has failed               *)
    rebuilt    (* history: the units a receiver has put together from it   *)

scanning == <<pos, units>>
packing == <<nal, offset, pkts>>
sending == <<next, number, local, latest, lossless, rebuilt>>
packets == <<frame, stage, scanning, packing, sending>>

Slice(u) == SubSeq(frame, u.from, u.to)
Size(u) == u.to - u.from + 1

PacketsInit ==
    /\ frame = <<>> /\ stage = "arriving"
    /\ pos = 1 /\ units = <<>> /\ nal = 1 /\ offset = 0 /\ pkts = <<>> /\ next = 1
    /\ number = 0 /\ local = 0 /\ latest = -1
    /\ lossless = TRUE /\ rebuilt = <<>>

(* The encoder's next byte, and its last. *)
AddByte(b) ==
    /\ stage = "arriving" /\ Len(frame) < MaxLength
    /\ frame' = Append(frame, b)
    /\ UNCHANGED <<stage, scanning, packing, sending>>

FrameComplete ==
    /\ stage = "arriving"
    /\ stage' = "scanning"
    /\ UNCHANGED <<frame, scanning, packing, sending>>

-----------------------------------------------------------------------------
(* find_nal_units *)

(* memchr finds the first byte 1 from position s on at p. *)
FirstOne(s, p) ==
    /\ p \in s..Len(frame) /\ frame[p] = 1
    /\ \A q \in s..(p - 1) : frame[q] # 1

NoOne(s) == \A p \in s..Len(frame) : frame[p] # 1

EndsCode(p) == p >= 3 /\ frame[p - 1] = 0 /\ frame[p - 2] = 0

(* The last byte before the start code that ends at p. *)
Before(p) == IF p > 3 /\ frame[p - 3] = 0 THEN p - 4 ELSE p - 3

(* What the mutants of the runs change. *)
EndsAtTheEnd(s, e) == e = Len(frame)

(* The end of the unit that starts at s: only the first 1 is looked at. *)
UnitEnds(s, e) ==
    \/ \E p \in s..Len(frame) : FirstOne(s, p) /\ EndsCode(p) /\ e = Before(p)
    \/ e = Len(frame) /\ \A p \in s..Len(frame) : FirstOne(s, p) => ~EndsCode(p)

(* The while loop finds a 1: the end of a start code, or not. *)
FindUnit ==
    /\ stage = "scanning"
    /\ \E p \in pos..Len(frame), e \in 0..Len(frame) :
          /\ FirstOne(pos, p) /\ EndsCode(p) /\ UnitEnds(p + 1, e)
          /\ units' = IF p < e THEN Append(units, [from |-> p + 1, to |-> e]) ELSE units
          /\ pos' = e + 1
    /\ UNCHANGED <<frame, stage, packing, sending>>

SkipOne ==
    /\ stage = "scanning"
    /\ \E p \in pos..Len(frame) : FirstOne(pos, p) /\ ~EndsCode(p) /\ pos' = p + 1
    /\ UNCHANGED <<frame, stage, units, packing, sending>>

(* It finds none.  A frame without units is one. *)
EndScan ==
    /\ stage = "scanning" /\ NoOne(pos)
    /\ stage' = "packing"
    /\ units' = IF units = <<>> /\ frame # <<>> THEN <<[from |-> 1, to |-> Len(frame)]>> ELSE units
    /\ UNCHANGED <<frame, pos, packing, sending>>

-----------------------------------------------------------------------------
(* packetize_h264_optimized *)

Chunk == MaxPayload - 2
IsLastNal == nal = Len(units)

(* A unit that fits into a packet, *)
PackWhole ==
    /\ stage = "packing" /\ nal <= Len(units)
    /\ Size(units[nal]) <= MaxPayload
    /\ pkts' = Append(pkts, [kind |-> "whole", unit |-> nal, from |-> units[nal].from,
                             to |-> units[nal].to, marker |-> IsLastNal])
    /\ nal' = nal + 1
    /\ UNCHANGED <<frame, stage, scanning, offset, sending>>

(* or the next fragment of one that does not.  Its first two bytes have    *)
(* what the unit's first byte says; "unit" is only history.                *)
PackFragment ==
    /\ stage = "packing" /\ nal <= Len(units)
    /\ Size(units[nal]) > MaxPayload
    /\ LET from == units[nal].from + 1 + offset
           last == from + Chunk > units[nal].to
           to == IF last THEN units[nal].to ELSE from + Chunk - 1
       IN  /\ pkts' = Append(pkts, [kind |-> IF offset = 0 THEN "start" ELSE IF last THEN "end" ELSE "middle",
                                    unit |-> nal, from |-> from, to |-> to, marker |-> last /\ IsLastNal])
           /\ IF last THEN nal' = nal + 1 /\ offset' = 0 ELSE offset' = offset + Chunk /\ UNCHANGED nal
    /\ UNCHANGED <<frame, stage, scanning, sending>>

-----------------------------------------------------------------------------
(* send_optimized_packets *)

StartSend ==
    /\ stage = "packing" /\ nal > Len(units)
    /\ stage' = "sending"
    /\ local' = number
    /\ UNCHANGED <<frame, scanning, packing, next, number, latest, lossless, rebuilt>>

(* What a receiver makes of a packet (RFC 6184). *)
Depacketize(p) ==
    IF p.kind = "whole" THEN Append(rebuilt, Slice(p))
    ELSE IF p.kind = "start" THEN Append(rebuilt, <<frame[units[p.unit].from]>> \o Slice(p))
    ELSE [rebuilt EXCEPT ![Len(rebuilt)] = @ \o Slice(p)]

(* A write fails, and the next follows, or it uses up the number. *)
WriteFails ==
    /\ stage = "sending" /\ next <= Len(pkts)
    /\ next' = next + 1
    /\ lossless' = FALSE /\ rebuilt' = <<>>
    /\ UNCHANGED <<frame, stage, scanning, packing, number, local, latest>>

WriteOk ==
    /\ stage = "sending" /\ next <= Len(pkts)
    /\ next' = next + 1
    /\ local' = (local + 1) % SeqBound
    /\ latest' = local
    /\ rebuilt' = IF lossless THEN Depacketize(pkts[next]) ELSE rebuilt
    /\ UNCHANGED <<frame, stage, scanning, packing, number, lossless>>

(* The number is put back, and the next frame comes. *)
EndSend ==
    /\ stage = "sending" /\ next > Len(pkts)
    /\ number' = local /\ local' = 0
    /\ stage' = "arriving" /\ frame' = <<>>
    /\ pos' = 1 /\ units' = <<>> /\ nal' = 1 /\ offset' = 0 /\ pkts' = <<>> /\ next' = 1
    /\ lossless' = TRUE /\ rebuilt' = <<>>
    /\ UNCHANGED latest

-----------------------------------------------------------------------------
PacketsNext ==
    \/ FrameComplete \/ \E b \in Bytes : AddByte(b)
    \/ FindUnit \/ SkipOne \/ EndScan
    \/ PackWhole \/ PackFragment
    \/ StartSend \/ WriteFails \/ WriteOk \/ EndSend

PacketsSpec == PacketsInit /\ [][PacketsNext]_packets

-----------------------------------------------------------------------------
(* Properties. *)

CodeEnds == {p \in 1..Len(frame) : frame[p] = 1 /\ EndsCode(p)}

(* The NAL units by Annex B: what lies between two start codes or after    *)
(* the last.                                                               *)
AnnexB ==
    {u \in [from : 1..Len(frame), to : 1..Len(frame)] :
        /\ u.from <= u.to /\ u.from - 1 \in CodeEnds
        /\ \/ \E q \in CodeEnds :
                 q >= u.from /\ u.to = Before(q) /\ \A r \in CodeEnds : r >= u.from => q <= r
           \/ u.to = Len(frame) /\ \A r \in CodeEnds : r < u.from}

WholeIfNone(us) == IF us = {} /\ frame # <<>> THEN {[from |-> 1, to |-> Len(frame)]} ELSE us

(* No unit has a byte 1 of its own. *)
NoStrayOne == \A p \in CodeEnds, q \in 1..Len(frame) : q > p /\ frame[q] = 1 => q \in CodeEnds

Found == {units[k] : k \in 1..Len(units)}

(* The units found are apart and in order, every byte after a start code   *)
(* is in one or in a start code, and where no unit has a byte 1 of its own *)
(* they are those of Annex B: with one, the scan misses the start codes    *)
(* that follow (transport.rs 1072-1083).                                   *)
UnitsFound ==
    /\ \A k \in 1..Len(units) : 1 <= units[k].from /\ units[k].from <= units[k].to /\ units[k].to <= Len(frame)
    /\ \A j, k \in 1..Len(units) : j < k => units[j].to < units[k].from
    /\ \A p \in CodeEnds, q \in 1..Len(frame) :
          q > p => \/ \E u \in Found : q \in u.from..u.to
                   \/ \E r \in CodeEnds : q \in (Before(r) + 1)..r
    /\ NoStrayOne => Found = WholeIfNone(AnnexB)

(* Every packet fits, and the marker is on the frame's last packet only.   *)
PacketsFit ==
    \A j \in 1..Len(pkts) :
        /\ Size(pkts[j]) + (IF pkts[j].kind = "whole" THEN 0 ELSE 2) <= MaxPayload
        /\ pkts[j].marker <=> j = Len(pkts)

(* What must survive from the encoder to a receiver: the units, which the  *)
(* receiver puts together when no write failed, and numbers without a gap, *)
(* from frame to frame, whatever writes fail.                              *)
FrameSurvives ==
    /\ stage \in {"packing", "sending"} => UnitsFound
    /\ stage = "sending" =>
          /\ PacketsFit
          /\ next > Len(pkts) /\ lossless => rebuilt = [k \in 1..Len(units) |-> Slice(units[k])]
    /\ latest # -1 => (latest + 1) % SeqBound = IF stage = "sending" THEN local ELSE number
=============================================================================
