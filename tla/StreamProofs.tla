---------------------------- MODULE StreamProofs ----------------------------
(***************************************************************************)
(* Proofs about the frames on their way to the clients: what moves the     *)
(* quality tier, that no client sees a gap, and that every frame survives  *)
(* the scan, the packets and the writes.                                   *)
(***************************************************************************)
EXTENDS MCStream, SequenceTheorems, FiniteSetTheorems, WellFoundedInduction, TLAPS

-----------------------------------------------------------------------------
(* Quality *)

(* Every step leaves the controller alone or is one of its operations.     *)
QualityStep ==
    \/ QualityTick \/ UNCHANGED quality
    \/ \E enabled \in BOOLEAN : SetAuto(enabled)
    \/ \E ok \in BOOLEAN : OnFrameResult(ok)

LEMMA StreamQuality == [StreamNext]_stream => QualityStep
<1> SUFFICES ASSUME [StreamNext]_stream PROVE QualityStep
  OBVIOUS
<1>1. ASSUME NEW k \in Kinds, NoFrame(k) \/ Encode(k) \/ SetScreen(k) PROVE QualityStep
  BY <1>1 DEF NoFrame, Encode, SetScreen, QualityStep
<1>2. CASE PublishMjpeg
  BY <1>2 DEF PublishMjpeg, QualityStep
<1>3. ASSUME NEW allSent \in BOOLEAN, PublishH264(allSent) PROVE QualityStep
  BY <1>3 DEF PublishH264, QualityStep
<1>4. CASE PeersChange \/ Adapt
  BY <1>4 DEF PeersChange, Adapt, QualityStep
<1>5. ASSUME NEW c \in Clients,
             Leave(c) \/ Lagged(c) \/ Receive(c) \/ \E k \in Kinds : Subscribe(c, k)
      PROVE  QualityStep
  BY <1>5 DEF Leave, Lagged, Receive, Subscribe, QualityStep
<1>6. CASE UNCHANGED stream
  BY <1>6 DEF stream, QualityStep
<1>7. QED
  BY <1>1, <1>2, <1>3, <1>4, <1>5, <1>6 DEF StreamNext

(* The two counters are the two signs of the streak. *)
QualityInv ==
    /\ QualityTypeOK
    /\ successes = IF streak > 0 THEN streak ELSE 0
    /\ failures = IF streak < 0 THEN -streak ELSE 0

LEMMA QualityInductive ==
    ASSUME QualityInv, QualityStep PROVE QualityInv'
<1> USE QualityAssumption DEF QualityAssumption, QualityInv, QualityTypeOK
<1>1. CASE QualityTick
  BY <1>1 DEF QualityTick
<1>2. CASE UNCHANGED quality
  BY <1>2 DEF quality
<1>3. ASSUME NEW enabled \in BOOLEAN, SetAuto(enabled) PROVE QualityInv'
  BY <1>3 DEF SetAuto
<1>4. ASSUME NEW ok \in BOOLEAN, OnFrameResult(ok) PROVE QualityInv'
  <2>1. CASE ~auto
    BY <1>4, <2>1 DEF OnFrameResult, quality
  <2>2. CASE auto /\ ok /\ Better /\ Change(-1)
    BY <1>4, <2>2 DEF OnFrameResult, Better, Change
  <2>3. CASE auto /\ ~ok /\ Worse /\ Change(1)
    BY <1>4, <2>3 DEF OnFrameResult, Worse, Change
  <2>4. CASE auto /\ ok /\ CountSuccess /\ streak' = Longer(streak, ok)
             /\ UNCHANGED <<auto, tier, age>>
    BY <2>4 DEF CountSuccess, Longer, OneMore
  <2>5. CASE auto /\ ~ok /\ CountFailure /\ streak' = Longer(streak, ok)
             /\ UNCHANGED <<auto, tier, age>>
    BY <2>5 DEF CountFailure, Longer, OneMore
  <2>6. QED
    BY <1>4, <2>1, <2>2, <2>3, <2>4, <2>5 DEF OnFrameResult
<1>5. QED
  BY <1>1, <1>2, <1>3, <1>4 DEF QualityStep

(* The tier moves for a streak of results since its last move, no sooner   *)
(* than MinChange after that (quality.rs 117-122, 161-200).                *)
THEOREM TierEarnedAlways == StreamSpec => TierEarned
<1>1. StreamInit => QualityInv
  BY QualityAssumption
     DEF StreamInit, QualityInit, QualityInv, QualityTypeOK, QualityAssumption
<1>2. QualityInv /\ [StreamNext]_stream => QualityInv'
  BY StreamQuality, QualityInductive
<1>3. ASSUME QualityInv, QualityStep, tier' # tier
      PROVE  \/ auto' /\ tier' = DefaultTier /\ UNCHANGED age
             \/ /\ age = MinChange /\ auto
                /\ \/ tier' = tier - 1 /\ Longer(streak, TRUE) >= Increase
                   \/ tier' = tier + 1 /\ -Longer(streak, FALSE) >= Decrease
  <2> USE QualityAssumption DEF QualityAssumption, QualityInv, QualityTypeOK
  <2>1. ASSUME NEW enabled \in BOOLEAN, SetAuto(enabled)
        PROVE  auto' /\ tier' = DefaultTier /\ UNCHANGED age
    BY <1>3, <2>1 DEF SetAuto
  <2>2. ASSUME NEW ok \in BOOLEAN, OnFrameResult(ok)
        PROVE  /\ age = MinChange /\ auto
               /\ \/ tier' = tier - 1 /\ Longer(streak, TRUE) >= Increase
                  \/ tier' = tier + 1 /\ -Longer(streak, FALSE) >= Decrease
    <3>1. \/ auto /\ Better /\ Change(-1)
          \/ auto /\ Worse /\ Change(1)
      BY <1>3, <2>2 DEF OnFrameResult, quality
    <3>2. CASE auto /\ Better /\ Change(-1)
      <4>1. Longer(streak, TRUE) = OneMore(successes)
        BY <1>3 DEF Longer
      <4>2. tier' = tier - 1
        BY <3>2 DEF Change
      <4>3. QED
        BY <3>2, <4>1, <4>2 DEF Better
    <3>3. CASE auto /\ Worse /\ Change(1)
      <4>1. Longer(streak, FALSE) = -OneMore(failures)
        BY <1>3 DEF Longer
      <4>2. OneMore(failures) \in Int
        BY <1>3 DEF OneMore
      <4>3. tier' = tier + 1
        BY <3>3 DEF Change
      <4>4. \A n \in Int : -(-n) = n
        OBVIOUS
      <4>5. -Longer(streak, FALSE) = OneMore(failures)
        BY <4>1, <4>2, <4>4
      <4>6. QED
        BY <3>3, <4>3, <4>5 DEF Worse
    <3>4. QED
      BY <3>1, <3>2, <3>3
  <2>3. QED
    BY <1>3, <2>1, <2>2 DEF QualityStep, QualityTick, quality
<1>4. QualityInv /\ [StreamNext]_stream =>
        [tier' # tier =>
          \/ auto' /\ tier' = DefaultTier /\ UNCHANGED age
          \/ /\ age = MinChange /\ auto
             /\ \/ tier' = tier - 1 /\ Longer(streak, TRUE) >= Increase
                \/ tier' = tier + 1 /\ -Longer(streak, FALSE) >= Decrease]_quality
  BY <1>3, StreamQuality
<1>5. QED
  BY <1>1, <1>2, <1>4, PTL DEF StreamSpec, TierEarned

-----------------------------------------------------------------------------
(* FrameStream *)

LEMMA TailOf ==
    ASSUME NEW S, NEW q \in Seq(S), q # <<>>
    PROVE  /\ Tail(q) \in Seq(S) /\ Len(Tail(q)) = Len(q) - 1 /\ Len(q) \in Nat \ {0}
           /\ Head(q) = q[1] /\ q[1] \in S
           /\ \A i \in 1..(Len(q) - 1) : Tail(q)[i] = q[i + 1]
BY HeadTailProperties, ElementOfSeq, LenProperties, EmptySeq

(* A channel takes a frame at its end, at the expense of the oldest one    *)
(* when it is full.                                                        *)
LEMMA AppendRoom ==
    ASSUME NEW q \in Seq(Frames), NEW f \in Frames
    PROVE  \E o \in {0, 1} :
              LET r == Append(Room(q), f)
              IN  /\ r \in Seq(Frames)
                  /\ Len(r) = Len(q) + 1 - o
                  /\ \A i \in 1..(Len(q) - o) : r[i] = q[i + o]
                  /\ r[Len(r)] = f
                  /\ o = 1 => Len(q) >= Cap
<1>0. Len(q) \in Nat /\ Cap \in Nat \ {0}
  BY LenProperties, StreamAssumption DEF StreamAssumption
<1>1. CASE Len(q) < Cap
  <2> DEFINE r == Append(q, f)
  <2>1. Room(q) = q
    BY <1>1 DEF Room
  <2>2. r \in Seq(Frames) /\ Len(r) = Len(q) + 1 /\ r[Len(r)] = f
        /\ \A i \in 1..Len(q) : r[i] = q[i]
    BY <1>0, AppendProperties
  <2>3. \A i \in 1..(Len(q) - 0) : r[i] = q[i + 0]
    BY <1>0, <2>2
  <2>4. Len(r) = Len(q) + 1 - 0
    BY <1>0, <2>2
  <2>5. QED
    BY <2>1, <2>2, <2>3, <2>4
<1>2. CASE ~(Len(q) < Cap)
  <2> DEFINE t == Tail(q)
             r == Append(t, f)
  <2>1. Room(q) = t /\ Len(q) >= Cap /\ q # <<>>
    BY <1>0, <1>2 DEF Room
  <2>2. /\ t \in Seq(Frames) /\ Len(t) = Len(q) - 1 /\ Len(q) \in Nat \ {0}
        /\ \A i \in 1..(Len(q) - 1) : t[i] = q[i + 1]
    BY <2>1, TailOf
  <2>3. r \in Seq(Frames) /\ Len(r) = Len(t) + 1 /\ r[Len(r)] = f
        /\ \A i \in 1..Len(t) : r[i] = t[i]
    BY <2>2, AppendProperties
  <2>4. \A i \in 1..(Len(q) - 1) : r[i] = q[i + 1]
    BY <2>2, <2>3
  <2>5. Len(r) = Len(q) + 1 - 1
    BY <2>2, <2>3
  <2>6. QED
    BY <2>1, <2>3, <2>4, <2>5
<1>3. QED
  BY <1>1, <1>2

(* The last frame of a kind that has been sent. *)
Sent(k) == IF at[k] = "encoded" THEN encoded[k] - 1 ELSE encoded[k]

LoopInv == \A k \in Kinds : at[k] = "encoded" => encoded[k] \in Frames

(* What waits for a client is later than what it got and in order; for a   *)
(* direct client that has missed nothing it ends with the last frame sent  *)
(* and has no gap.                                                         *)
ClientInv(c) ==
    /\ watch[c] = "none" => unread[c] = <<>> /\ last[c] = 0
    /\ \A k \in Kinds : watch[c] = k =>
          /\ last[c] <= Sent(k)
          /\ \A i \in 1..Len(unread[c]) : last[c] < unread[c][i] /\ unread[c][i] <= Sent(k)
          /\ \A i, j \in 1..Len(unread[c]) : i < j => unread[c][i] < unread[c][j]
    /\ watch[c] = "h264" /\ ~missed[c] =>
          /\ \A i \in 1..Len(unread[c]) : unread[c][i] = Sent("h264") - Len(unread[c]) + i
          /\ last[c] # 0 => last[c] = Sent("h264") - Len(unread[c])

StreamInv == StreamTypeOK /\ LoopInv /\ \A c \in Clients : ClientInv(c)

Untouched(c) ==
    /\ watch'[c] = watch[c] /\ unread'[c] = unread[c]
    /\ missed'[c] = missed[c] /\ last'[c] = last[c]

(* A step that leaves a client alone and sends nothing of its kind. *)
LEMMA SameClient ==
    ASSUME NEW c, ClientInv(c), Untouched(c),
           \A k \in Kinds : watch[c] = k => Sent(k)' = Sent(k)
    PROVE  ClientInv(c)'
<1>1. "h264" \in Kinds
  BY DEF Kinds
<1>2. QED
  BY <1>1 DEF ClientInv, Untouched

LEMMA FreshClient ==
    ASSUME StreamTypeOK', LoopInv', NEW c \in Clients, unread'[c] = <<>>, last'[c] = 0
    PROVE  ClientInv(c)'
<1>1. Len(unread'[c]) = 0
  OBVIOUS
<1>2. \A k \in Kinds : 0 <= Sent(k)'
  BY DEF Sent, LoopInv, StreamTypeOK, Frames
<1>3. QED
  BY <1>1, <1>2 DEF ClientInv

(* The client gets the frame; if its channel is full it has missed some.   *)
LEMMA SendKeeps ==
    ASSUME StreamTypeOK, LoopInv, NEW c \in Clients, ClientInv(c),
           NEW k \in Kinds, at[k] = "encoded", watch[c] = k, Send(k),
           watch'[c] = watch[c], last'[c] = last[c],
           encoded'[k] = encoded[k], at'[k] = "waiting"
    PROVE  ClientInv(c)'
<1> DEFINE q == unread[c]
           f == encoded[k]
<1>1. /\ q \in Seq(Frames) /\ f \in Frames /\ last[c] \in 0..MaxFrames
      /\ Len(q) \in Nat /\ Cap \in Nat \ {0} /\ MaxFrames \in Nat
  BY LenProperties, StreamAssumption DEF StreamAssumption, StreamTypeOK, LoopInv
<1>2. PICK o \in {0, 1} :
         LET r == Append(Room(q), f)
         IN  /\ r \in Seq(Frames)
             /\ Len(r) = Len(q) + 1 - o
             /\ \A i \in 1..(Len(q) - o) : r[i] = q[i + o]
             /\ r[Len(r)] = f
             /\ o = 1 => Len(q) >= Cap
  BY <1>1, AppendRoom
<1> DEFINE r == Append(Room(q), f)
<1>3. unread'[c] = r /\ missed'[c] = (missed[c] \/ Len(q) >= Cap)
  BY DEF Send, StreamTypeOK
<1>4. Sent(k) = f - 1 /\ Sent(k)' = f /\ k # "none" /\ at'[k] # "encoded"
  BY DEF Sent, Kinds
<1>5. /\ last[c] <= f - 1
      /\ \A i \in 1..Len(q) : last[c] < q[i] /\ q[i] <= f - 1
      /\ \A i, j \in 1..Len(q) : i < j => q[i] < q[j]
      /\ watch[c] = "h264" /\ ~missed[c] =>
            /\ \A i \in 1..Len(q) : q[i] = f - 1 - Len(q) + i
            /\ last[c] # 0 => last[c] = f - 1 - Len(q)
  BY <1>4 DEF ClientInv
<1>6. \A i \in 1..Len(q) : q[i] \in Frames
  BY <1>1, ElementOfSeq
<1> DEFINE n == Len(r)
<1>7. /\ n = Len(q) + 1 - o /\ n \in Nat /\ r[n] = f
      /\ \A i \in 1..n : i # n => i + o \in 1..Len(q) /\ r[i] = q[i + o]
  BY <1>1, <1>2
<1> HIDE DEF q, f, r, n
<1>8. last[c] <= f
  BY <1>1, <1>5 DEF Frames
<1>9. ASSUME NEW i \in 1..n PROVE last[c] < r[i] /\ r[i] <= f
  <2>1. CASE i = n
    BY <2>1, <1>1, <1>5, <1>7 DEF Frames
  <2>2. CASE i # n
    <3>1. i + o \in 1..Len(q) /\ r[i] = q[i + o]
      BY <2>2, <1>7
    <3>2. last[c] < q[i + o] /\ q[i + o] <= f - 1 /\ q[i + o] \in Frames
      BY <3>1, <1>5, <1>6
    <3>3. QED
      BY <3>1, <3>2, <1>1 DEF Frames
  <2>3. QED
    BY <2>1, <2>2
<1>10. ASSUME NEW i \in 1..n, NEW j \in 1..n, i < j PROVE r[i] < r[j]
  <2>1. i # n /\ i + o < j + o
    BY <1>7, <1>10, <1>2
  <2>2. CASE j = n
    <3>1. i + o \in 1..Len(q) /\ r[i] = q[i + o] /\ r[j] = f
      BY <2>1, <2>2, <1>7
    <3>2. q[i + o] <= f - 1 /\ q[i + o] \in Frames
      BY <3>1, <1>5, <1>6
    <3>3. QED
      BY <3>1, <3>2, <1>1 DEF Frames
  <2>3. CASE j # n
    BY <2>1, <2>3, <1>5, <1>7
  <2>4. QED
    BY <2>2, <2>3
<1>11. ASSUME watch[c] = "h264", ~(missed[c] \/ Len(q) >= Cap)
       PROVE  /\ \A i \in 1..n : r[i] = f - n + i
              /\ last[c] # 0 => last[c] = f - n
  <2>1. o = 0 /\ n = Len(q) + 1
    BY <1>1, <1>2, <1>7, <1>11 DEF q, f, r
  <2>2. last[c] # 0 => last[c] = f - n
    BY <2>1, <1>1, <1>5, <1>11 DEF Frames
  <2>3. ASSUME NEW i \in 1..n PROVE r[i] = f - n + i
    <3>1. CASE i = n
      BY <3>1, <2>1, <1>1, <1>7 DEF Frames
    <3>2. CASE i # n
      <4>1. i \in 1..Len(q) /\ r[i] = q[i]
        BY <3>2, <2>1, <1>1, <1>7
      <4>2. q[i] = f - 1 - Len(q) + i
        BY <4>1, <1>5, <1>11
      <4>3. QED
        BY <4>1, <4>2, <2>1, <1>1 DEF Frames
    <3>3. QED
      BY <3>1, <3>2
  <2>4. QED
    BY <2>2, <2>3
<1>12. \A m \in Kinds : watch'[c] = m => m = k
  OBVIOUS
<1>13. Len(unread'[c]) = n
  BY <1>3 DEF n
<1>14. /\ \A i \in 1..n : last[c] < r[i] /\ r[i] <= f
       /\ \A i, j \in 1..n : i < j => r[i] < r[j]
       /\ watch[c] = "h264" /\ ~missed'[c] =>
             /\ \A i \in 1..n : r[i] = f - n + i
             /\ last[c] # 0 => last[c] = f - n
  BY <1>9, <1>10, <1>11, <1>3
<1>15. QED
  BY <1>3, <1>4, <1>8, <1>12, <1>13, <1>14 DEF ClientInv

LEMMA SendTypes ==
    ASSUME StreamTypeOK, LoopInv, NEW k \in Kinds, at[k] = "encoded", Send(k)
    PROVE  unread' \in [Clients -> Seq(Frames)] /\ missed' \in [Clients -> BOOLEAN]
<1>1. encoded[k] \in Frames
  BY DEF LoopInv
<1>2. ASSUME NEW c \in Clients PROVE Append(Room(unread[c]), encoded[k]) \in Seq(Frames)
  BY <1>1, AppendRoom DEF StreamTypeOK
<1>3. QED
  BY <1>2 DEF Send, StreamTypeOK

-----------------------------------------------------------------------------
LEMMA StreamTypeKept ==
    ASSUME StreamTypeOK, LoopInv, QualityTypeOK', [StreamNext]_stream
    PROVE  StreamTypeOK' /\ LoopInv'
<1> USE StreamAssumption DEF StreamAssumption
<1>1. ASSUME NEW k \in Kinds, NoFrame(k) \/ Encode(k) \/ SetScreen(k)
      PROVE  StreamTypeOK' /\ LoopInv'
  <2>1. CASE NoFrame(k)
    BY <2>1 DEF NoFrame, NextRound, StreamTypeOK, LoopInv, client
  <2>2. CASE Encode(k)
    <3>1. encoded[k] + 1 \in Frames /\ encoded[k] + 1 \in 0..MaxFrames
      BY <2>2 DEF Encode, StreamTypeOK, Frames
    <3>2. QED
      BY <2>2, <3>1 DEF Encode, StreamTypeOK, LoopInv, client
  <2>3. CASE SetScreen(k)
    BY <2>3 DEF SetScreen, StreamTypeOK, LoopInv, client
  <2>4. QED
    BY <1>1, <2>1, <2>2, <2>3
<1>2. CASE PublishMjpeg
  <2>1. unread' \in [Clients -> Seq(Frames)] /\ missed' \in [Clients -> BOOLEAN]
    BY <1>2, SendTypes DEF PublishMjpeg, Kinds
  <2>2. QED
    BY <1>2, <2>1 DEF PublishMjpeg, NextRound, StreamTypeOK, LoopInv, Kinds
<1>3. ASSUME NEW allSent \in BOOLEAN, PublishH264(allSent)
      PROVE  StreamTypeOK' /\ LoopInv'
  <2>1. unread' \in [Clients -> Seq(Frames)] /\ missed' \in [Clients -> BOOLEAN]
    BY <1>3, SendTypes DEF PublishH264, Kinds, StreamTypeOK
  <2>2. QED
    BY <1>3, <2>1 DEF PublishH264, NextRound, StreamTypeOK, LoopInv, Kinds
<1>4. CASE PeersChange \/ Adapt
  BY <1>4 DEF PeersChange, Adapt, StreamTypeOK, LoopInv, loops, client
<1>5. ASSUME NEW c \in Clients, NEW w \in Kinds \cup {"none"}, Watch(c, w), UNCHANGED loops
      PROVE  StreamTypeOK' /\ LoopInv'
  BY <1>5, EmptySeq DEF Watch, StreamTypeOK, LoopInv, loops
<1>6. ASSUME NEW c \in Clients,
             Leave(c) \/ Lagged(c) \/ Receive(c) \/ \E k \in Kinds : Subscribe(c, k)
      PROVE  StreamTypeOK' /\ LoopInv'
  <2>1. CASE Leave(c) \/ \E k \in Kinds : Subscribe(c, k)
    BY <2>1, <1>5 DEF Leave, Subscribe
  <2>2. CASE Lagged(c)
    <3>1. CASE watch[c] = "h264"
      BY <2>2, <3>1, <1>5 DEF Lagged
    <3>2. CASE watch[c] # "h264"
      BY <2>2, <3>2 DEF Lagged, StreamTypeOK, LoopInv, loops
    <3>3. QED
      BY <3>1, <3>2
  <2>3. CASE Receive(c)
    <3>1. Tail(unread[c]) \in Seq(Frames) /\ Head(unread[c]) \in Frames
      BY <2>3, TailOf DEF Receive, StreamTypeOK
    <3>2. QED
      BY <2>3, <3>1 DEF Receive, StreamTypeOK, LoopInv, loops, Frames
  <2>4. QED
    BY <1>6, <2>1, <2>2, <2>3
<1>7. CASE UNCHANGED stream
  BY <1>7 DEF stream, loops, client, StreamTypeOK, LoopInv
<1>8. QED
  BY <1>1, <1>2, <1>3, <1>4, <1>6, <1>7 DEF StreamNext

(* The first frame that waits is the next one.                             *)
LEMMA ReceiveKeeps ==
    ASSUME StreamTypeOK, LoopInv, NEW c \in Clients, ClientInv(c), Receive(c)
    PROVE  /\ ClientInv(c)'
           /\ last'[c] \in Frames /\ watch[c] # "none"
           /\ last[c] # 0 => IF watch[c] = "h264" THEN last'[c] = last[c] + 1
                                                  ELSE last'[c] > last[c]
<1> DEFINE q == unread[c]
           t == Tail(q)
<1>1. /\ q \in Seq(Frames) /\ q # <<>> /\ last[c] \in 0..MaxFrames /\ ~missed[c]
      /\ watch[c] \in Kinds \cup {"none"} /\ MaxFrames \in Nat
  BY StreamAssumption DEF StreamAssumption, StreamTypeOK, Receive
<1>2. /\ t \in Seq(Frames) /\ Len(t) = Len(q) - 1 /\ Len(q) \in Nat \ {0}
      /\ Head(q) = q[1] /\ q[1] \in Frames
      /\ \A i \in 1..(Len(q) - 1) : t[i] = q[i + 1]
  BY <1>1, TailOf
<1>3. /\ last'[c] = q[1] /\ unread'[c] = t /\ watch'[c] = watch[c] /\ missed'[c] = missed[c]
      /\ \A k \in Kinds : Sent(k)' = Sent(k) /\ Sent(k) \in Int
      /\ at' = at
  BY <1>2 DEF Receive, StreamTypeOK, Sent, loops, Kinds
<1>4. PICK k \in Kinds : watch[c] = k
  BY <1>1 DEF ClientInv
<1>5. /\ last[c] <= Sent(k)
      /\ \A i \in 1..Len(q) : last[c] < q[i] /\ q[i] <= Sent(k)
      /\ \A i, j \in 1..Len(q) : i < j => q[i] < q[j]
      /\ k = "h264" =>
            /\ \A i \in 1..Len(q) : q[i] = Sent(k) - Len(q) + i
            /\ last[c] # 0 => last[c] = Sent(k) - Len(q)
  BY <1>1, <1>4 DEF ClientInv
<1>6. k # "none" /\ q[1] # 0
  BY <1>1, <1>2, <1>4 DEF Kinds, Frames
<1> HIDE DEF q, t
<1>7. /\ q[1] <= Sent(k) /\ last[c] < q[1]
      /\ k = "h264" => q[1] = Sent(k) - Len(t)
  BY <1>2, <1>3, <1>5
<1>8. ASSUME NEW i \in 1..Len(t)
      PROVE  /\ q[1] < t[i] /\ t[i] <= Sent(k)
             /\ k = "h264" => t[i] = Sent(k) - Len(t) + i
             /\ \A j \in 1..Len(t) : i < j => t[i] < t[j]
  <2>1. t[i] = q[i + 1] /\ i + 1 \in 1..Len(q) /\ 1 \in 1..Len(q) /\ 1 < i + 1
    BY <1>2
  <2>2. q[1] < t[i] /\ t[i] <= Sent(k)
    BY <2>1, <1>5
  <2>3. ASSUME k = "h264" PROVE t[i] = Sent(k) - Len(t) + i
    <3>1. t[i] = Sent(k) - Len(q) + (i + 1)
      BY <2>1, <2>3, <1>5
    <3>2. QED
      BY <3>1, <1>2, <1>3
  <2>4. ASSUME NEW j \in 1..Len(t), i < j PROVE t[i] < t[j]
    <3>1. t[j] = q[j + 1] /\ j + 1 \in 1..Len(q)
      BY <1>2
    <3>2. i + 1 < j + 1
      BY <1>2, <2>4
    <3>3. QED
      BY <2>1, <3>1, <3>2, <1>5
  <2>5. QED
    BY <2>2, <2>3, <2>4
<1>9. last[c] # 0 => IF k = "h264" THEN q[1] = last[c] + 1 ELSE q[1] > last[c]
  BY <1>1, <1>2, <1>3, <1>5, <1>7
<1>10. /\ q[1] <= Sent(k)
       /\ \A i \in 1..Len(t) : q[1] < t[i] /\ t[i] <= Sent(k)
       /\ \A i, j \in 1..Len(t) : i < j => t[i] < t[j]
       /\ k = "h264" =>
             /\ \A i \in 1..Len(t) : t[i] = Sent(k) - Len(t) + i
             /\ q[1] = Sent(k) - Len(t)
  BY <1>5, <1>6, <1>7, <1>8
<1>11. ClientInv(c)'
  <2>1. \A m \in Kinds : watch'[c] = m => m = k
    BY <1>3, <1>4
  <2>2. QED
    BY <1>3, <1>4, <1>6, <1>10, <2>1 DEF ClientInv
<1>12. QED
  BY <1>2, <1>3, <1>4, <1>6, <1>9, <1>11

(* A publishing loop reaches the clients that watch its kind.              *)
LEMMA PublishKeeps ==
    ASSUME StreamTypeOK, LoopInv, NEW c \in Clients, ClientInv(c),
           PublishMjpeg \/ \E allSent \in BOOLEAN : PublishH264(allSent)
    PROVE  ClientInv(c)'
<1>1. ASSUME NEW k \in Kinds, at[k] = "encoded", NextRound(k), Send(k),
             UNCHANGED <<watch, last, encoded>>
      PROVE  ClientInv(c)'
  <2>1. at'[k] = "waiting" /\ \A m \in Kinds : m # k => at'[m] = at[m]
    BY <1>1 DEF NextRound, StreamTypeOK
  <2>2. CASE watch[c] = k
    BY <1>1, <2>1, <2>2, SendKeeps
  <2>3. CASE watch[c] # k
    <3>1. Untouched(c)
      BY <1>1, <2>3 DEF Send, Untouched, StreamTypeOK
    <3>2. \A m \in Kinds : watch[c] = m => Sent(m)' = Sent(m)
      BY <1>1, <2>1, <2>3 DEF Sent
    <3>3. QED
      BY <3>1, <3>2, SameClient
  <2>4. QED
    BY <2>2, <2>3
<1>2. QED
  BY <1>1 DEF PublishMjpeg, PublishH264, Kinds

LEMMA ClientKept ==
    ASSUME StreamTypeOK, LoopInv, StreamTypeOK', LoopInv', NEW c \in Clients, ClientInv(c),
           [StreamNext]_stream
    PROVE  ClientInv(c)'
<1>1. ASSUME NEW k \in Kinds, NoFrame(k) \/ Encode(k) PROVE ClientInv(c)'
  <2>1. Untouched(c)
    BY <1>1 DEF NoFrame, Encode, Untouched, client
  <2>2. \A m \in Kinds : Sent(m)' = Sent(m)
    <3>1. CASE NoFrame(k)
      BY <3>1 DEF NoFrame, NextRound, Sent, StreamTypeOK
    <3>2. CASE Encode(k)
      BY <3>2 DEF Encode, Sent, StreamTypeOK
    <3>3. QED
      BY <1>1, <3>1, <3>2
  <2>3. QED
    BY <2>1, <2>2, SameClient
<1>2. CASE PublishMjpeg \/ \E allSent \in BOOLEAN : PublishH264(allSent)
  BY <1>2, PublishKeeps
<1>3. ASSUME UNCHANGED <<at, encoded>>, Untouched(c) PROVE ClientInv(c)'
  <2>1. \A m \in Kinds : Sent(m)' = Sent(m)
    BY <1>3 DEF Sent
  <2>2. QED
    BY <1>3, <2>1, SameClient
<1>4. ASSUME \/ UNCHANGED stream \/ PeersChange \/ Adapt
             \/ \E k \in Kinds : SetScreen(k)
      PROVE  ClientInv(c)'
  BY <1>3, <1>4 DEF stream, loops, client, PeersChange, Adapt, SetScreen, Untouched
<1>5. ASSUME NEW d \in Clients, NEW w, Watch(d, w), UNCHANGED loops PROVE ClientInv(c)'
  <2>1. CASE d = c
    <3>1. unread'[c] = <<>> /\ last'[c] = 0
      BY <1>5, <2>1 DEF Watch, StreamTypeOK
    <3>2. QED
      BY <3>1, FreshClient
  <2>2. CASE d # c
    <3>1. Untouched(c) /\ UNCHANGED <<at, encoded>>
      BY <1>5, <2>2 DEF Watch, StreamTypeOK, Untouched, loops
    <3>2. QED
      BY <3>1, <1>3
  <2>3. QED
    BY <2>1, <2>2
<1>6. ASSUME NEW d \in Clients,
             Leave(d) \/ \E k \in Kinds : Subscribe(d, k)
      PROVE  ClientInv(c)'
  BY <1>5, <1>6 DEF Leave, Subscribe
<1>7. ASSUME NEW d \in Clients, Lagged(d) PROVE ClientInv(c)'
  <2>1. CASE watch[d] = "h264"
    BY <1>5, <1>7, <2>1 DEF Lagged
  <2>2. CASE watch[d] # "h264"
    <3>1. UNCHANGED <<at, encoded, watch, unread, last>>
      BY <1>7, <2>2 DEF Lagged, loops
    <3>2. d # c => missed'[c] = missed[c]
      BY <1>7, <2>2 DEF Lagged, StreamTypeOK
    <3>3. CASE d # c
      BY <1>3, <3>1, <3>2, <3>3 DEF Untouched
    <3>4. CASE d = c
      BY <2>2, <3>1, <3>4 DEF ClientInv, Sent
    <3>5. QED
      BY <3>3, <3>4
  <2>3. QED
    BY <2>1, <2>2
<1>8. ASSUME NEW d \in Clients, Receive(d) PROVE ClientInv(c)'
  <2>1. CASE d = c
    BY <1>8, <2>1, ReceiveKeeps
  <2>2. CASE d # c
    <3>1. Untouched(c) /\ UNCHANGED <<at, encoded>>
      BY <1>8, <2>2 DEF Receive, StreamTypeOK, Untouched, loops
    <3>2. QED
      BY <3>1, <1>3
  <2>3. QED
    BY <2>1, <2>2
<1>9. QED
  BY <1>1, <1>2, <1>4, <1>6, <1>7, <1>8 DEF StreamNext

LEMMA StreamInductive ==
    /\ StreamInit => StreamInv /\ QualityInv
    /\ StreamInv /\ QualityInv /\ [StreamNext]_stream => StreamInv' /\ QualityInv'
<1>1. StreamInit => QualityInv
  BY QualityAssumption
     DEF StreamInit, QualityInit, QualityInv, QualityTypeOK, QualityAssumption
<1>2. ASSUME StreamInit PROVE StreamTypeOK /\ LoopInv
  <2>1. QualityTypeOK /\ 0 \in 0..MaxFrames /\ <<>> \in Seq(Frames)
    BY <1>1, <1>2, EmptySeq, StreamAssumption DEF StreamAssumption, QualityInv
  <2>2. LoopInv
    BY <1>2 DEF StreamInit, LoopInv
  <2>3. "mjpeg" \in Kinds
    BY DEF Kinds
  <2>4. StreamTypeOK
    BY <1>2, <2>1, <2>3 DEF StreamInit, StreamTypeOK
  <2>5. QED
    BY <2>2, <2>4
<1>3. ASSUME StreamInit, NEW c \in Clients PROVE ClientInv(c)
  BY <1>3 DEF StreamInit, ClientInv, Kinds
<1>4. QualityInv /\ [StreamNext]_stream => QualityInv'
  BY StreamQuality, QualityInductive
<1>5. ASSUME StreamInv, QualityInv, [StreamNext]_stream PROVE StreamInv'
  <2>1. QualityTypeOK'
    BY <1>4, <1>5 DEF QualityInv
  <2>2. StreamTypeOK' /\ LoopInv'
    BY <1>5, <2>1, StreamTypeKept DEF StreamInv
  <2>3. QED
    BY <1>5, <2>2, ClientKept DEF StreamInv
<1>6. QED
  BY <1>1, <1>2, <1>3, <1>4, <1>5 DEF StreamInv

THEOREM StreamTypeCorrect == StreamSpec => []StreamTypeOK
<1>1. StreamInv => StreamTypeOK
  BY DEF StreamInv
<1>2. QED
  BY <1>1, StreamInductive, PTL DEF StreamSpec

(* The loops and channels implement FrameFeeds (main.rs 830-1079): an      *)
(* encoder's frame is produced, a client's subscription starts its feed, a *)
(* received frame is the one it gets, and leaving or lagging ends it.      *)
THEOREM StreamImplementsFeeds == StreamSpec => FeedSpec
<1> USE DEF Feed!Kinds, Kinds
<1>1. StreamInit => Feed!Init
  BY DEF StreamInit, Feed!Init
<1>2. StreamInv /\ [StreamNext]_stream => [Feed!Next]_(Feed!feeds)
  <2> SUFFICES ASSUME StreamInv, [StreamNext]_stream PROVE [Feed!Next]_(Feed!feeds)
    OBVIOUS
  <2>a. /\ encoded \in [Kinds -> 0..MaxFrames] /\ MaxFrames \in Nat
        /\ watch \in [Clients -> Kinds \cup {"none"}] /\ last \in [Clients -> 0..MaxFrames]
    BY StreamAssumption DEF StreamAssumption, StreamInv, StreamTypeOK
  <2>b. ASSUME UNCHANGED <<encoded, watch, last>> PROVE UNCHANGED Feed!feeds
    BY <2>b DEF Feed!feeds
  <2>1. ASSUME NEW k \in Kinds, Encode(k) PROVE Feed!Next
    <3>1. Feed!Produce(k)
      BY <2>1 DEF Encode, Feed!Produce, client
    <3>2. QED
      BY <3>1 DEF Feed!Next
  <2>2. ASSUME NEW c \in Clients, NEW k \in Kinds, Subscribe(c, k) PROVE Feed!Next
    <3>1. last[c] = 0
      BY <2>2 DEF Subscribe, StreamInv, ClientInv
    <3>2. last' = last
      BY <2>2, <2>a, <3>1 DEF Subscribe, Watch
    <3>3. Feed!Start(c, k)
      BY <2>2, <3>2 DEF Subscribe, Watch, Feed!Start, loops
    <3>4. QED
      BY <3>3 DEF Feed!Next
  <2>3. ASSUME NEW c \in Clients, watch[c] # "none", Watch(c, "none"), UNCHANGED loops
        PROVE  Feed!Next
    <3>1. Feed!End(c)
      BY <2>3 DEF Watch, Feed!End, loops
    <3>2. QED
      BY <3>1 DEF Feed!Next
  <2>4. ASSUME NEW c \in Clients, Receive(c) PROVE Feed!Next
    <3>1. /\ ClientInv(c)' /\ last'[c] \in Frames /\ watch[c] # "none"
          /\ last[c] # 0 => IF watch[c] = "h264" THEN last'[c] = last[c] + 1
                                                 ELSE last'[c] > last[c]
      BY <2>4, ReceiveKeeps DEF StreamInv
    <3>2. /\ last' = [last EXCEPT ![c] = last'[c]]
          /\ UNCHANGED <<encoded, watch, at>>
      BY <2>4, <2>a DEF Receive, loops
    <3>3. PICK k \in Kinds : watch[c] = k
      BY <2>a, <3>1
    <3>4. last'[c] <= encoded[k]
      <4>1. last'[c] <= Sent(k)'
        BY <3>1, <3>2, <3>3 DEF ClientInv
      <4>2. Sent(k)' <= encoded[k] /\ Sent(k)' \in Int
        BY <2>a, <3>2 DEF Sent
      <4>3. QED
        BY <2>a, <3>1, <4>1, <4>2 DEF Frames
    <3>5. last'[c] \in (last[c] + 1)..encoded[watch[c]]
      BY <2>a, <3>1, <3>3, <3>4 DEF Frames
    <3>6. Feed!Get(c)
      BY <3>1, <3>2, <3>5 DEF Feed!Get
    <3>7. QED
      BY <3>6 DEF Feed!Next
  <2>5. ASSUME NEW c \in Clients, Lagged(c), watch[c] # "h264" PROVE UNCHANGED Feed!feeds
    BY <2>5, <2>b DEF Lagged, loops
  <2>6. CASE \/ \E k \in Kinds : NoFrame(k) \/ SetScreen(k)
             \/ PublishMjpeg \/ \E allSent \in BOOLEAN : PublishH264(allSent)
             \/ PeersChange \/ Adapt \/ UNCHANGED stream
    BY <2>6, <2>b DEF NoFrame, SetScreen, PublishMjpeg, PublishH264, PeersChange, Adapt,
       loops, client, stream
  <2>7. ASSUME NEW c \in Clients, Leave(c) \/ Lagged(c)
        PROVE  [Feed!Next]_(Feed!feeds)
    BY <2>3, <2>5, <2>7 DEF Leave, Lagged
  <2>8. QED
    BY <2>1, <2>2, <2>4, <2>6, <2>7 DEF StreamNext
<1>3. QED
  BY <1>1, <1>2, StreamInductive, PTL DEF StreamSpec, FeedSpec, Feed!Spec

(* A direct client gets every frame from its first to its last, and an     *)
(* MJPEG client gets them in order (main.rs 988-1000, 1020-1079). *)
COROLLARY NoGapAlways == StreamSpec => NoGap
<1> DEFINE Gapless ==
      \A c \in Clients :
          last[c] # 0 /\ last'[c] \notin {0, last[c]} =>
              IF watch[c] = "h264" THEN last'[c] = last[c] + 1 ELSE last'[c] > last[c]
<1>1. ASSUME StreamTypeOK, Feed!Next, NEW c \in Clients, last[c] # 0, last'[c] \notin {0, last[c]}
      PROVE  IF watch[c] = "h264" THEN last'[c] = last[c] + 1 ELSE last'[c] > last[c]
  <2>1. /\ last \in [Clients -> 0..MaxFrames] /\ encoded \in [Kinds -> 0..MaxFrames]
        /\ watch \in [Clients -> Kinds \cup {"none"}] /\ MaxFrames \in Nat
    BY <1>1, StreamAssumption DEF StreamAssumption, StreamTypeOK
  <2>2. Feed!Get(c)
    BY <1>1, <2>1 DEF Feed!Next, Feed!Produce, Feed!Start, Feed!End, Feed!Get
  <2>3. PICK n \in (last[c] + 1)..encoded[watch[c]] :
            /\ watch[c] = "h264" /\ last[c] # 0 => n = last[c] + 1
            /\ last' = [last EXCEPT ![c] = n]
    BY <2>2 DEF Feed!Get
  <2>4. watch[c] \in Kinds
    BY <2>1, <2>2 DEF Feed!Get
  <2>5. QED
    BY <1>1, <2>1, <2>3, <2>4
<1>2. StreamTypeOK /\ [Feed!Next]_(Feed!feeds) => [Gapless]_stream
  BY <1>1 DEF Feed!feeds
<1>3. QED
  BY <1>2, StreamTypeCorrect, StreamImplementsFeeds, PTL DEF FeedSpec, Feed!Spec, NoGap

-----------------------------------------------------------------------------
(* Packets *)

Spans == [from : Nat, to : Nat]
RtpPackets == [kind : {"whole", "start", "middle", "end"}, unit : Nat, from : Nat, to : Nat, marker : BOOLEAN]

PacketsTypeOK ==
    /\ frame \in Seq(Bytes)
    /\ stage \in {"arriving", "scanning", "packing", "sending"}
    /\ pos \in 1..(Len(frame) + 1)
    /\ units \in Seq(Spans)
    /\ nal \in 1..(Len(units) + 1) /\ offset \in Nat
    /\ pkts \in Seq(RtpPackets)
    /\ next \in 1..(Len(pkts) + 1)
    /\ number \in 0..(SeqBound - 1) /\ local \in 0..(SeqBound - 1)
    /\ latest \in -1..(SeqBound - 1)
    /\ lossless \in BOOLEAN

(* What a frame starts with, and what the loops have not touched yet.       *)
UntouchedInv ==
    /\ stage = "arriving" => pos = 1 /\ units = <<>>
    /\ stage \in {"arriving", "scanning"} => nal = 1 /\ offset = 0 /\ pkts = <<>>
    /\ stage # "sending" => next = 1 /\ lossless /\ rebuilt = <<>>

(* A set of natural numbers with an element has a least one: of the         *)
(* intervals from 0 to its elements none is inside all others for ever.     *)
LEMMA LeastNatural == ASSUME NEW S \in SUBSET Nat, S # {} PROVE \E n \in S : \A m \in S : n <= m
<1> DEFINE below == {0..n : n \in S}
           order == StrictSubsetOrdering(Nat)
           finite == FiniteSubsetsOf(Nat)
<1>1. IsWellFoundedOn(order, finite)
  BY FS_StrictSubsetOrderingWellFounded
<1>2. below \subseteq finite /\ below # {}
  <2>1. \A n \in S : IsFiniteSet(0..n) /\ 0..n \in SUBSET Nat
    BY FS_Interval
  <2>2. QED
    BY <2>1 DEF FiniteSubsetsOf
<1> HIDE DEF order, finite, below
<1>3. PICK least \in below : \A other \in below : ~(<<other, least>> \in order)
  BY <1>1, <1>2, WFMin
<1>4. PICK n \in S : least = 0..n
  BY <1>3 DEF below
<1>5. ASSUME NEW m \in S, m < n PROVE FALSE
  <2>1. 0..m \in below /\ 0..m \subseteq 0..n
    BY <1>5 DEF below
  <2>2. n \in 0..n /\ n \notin 0..m
    BY <1>5
  <2>3. <<0..m, 0..n>> \in order
    BY <2>1, <2>2 DEF order, StrictSubsetOrdering
  <2>4. QED
    BY <1>3, <1>4, <2>1, <2>3
<1>6. QED
  BY <1>4, <1>5

(* A start code after the byte 1 at p begins after p.                       *)
LEMMA CodeAfterOne ==
    ASSUME frame \in Seq(Bytes), NEW p \in 1..Len(frame), frame[p] = 1,
           NEW n \in (p + 1)..Len(frame), EndsCode(n)
    PROVE  p <= Before(n) /\ Before(n) <= n - 3 /\ Before(n) \in Int
  BY DEF EndsCode, Before

(* What the search has found when it is at pos: the bytes before pos are    *)
(* dealt with, and pos is before the first start code, at the next one, or  *)
(* at the end.                                                              *)
ScanInv ==
    stage = "scanning" =>
        /\ \A k \in 1..Len(units) : 1 <= units[k].from /\ units[k].from <= units[k].to /\ units[k].to < pos
        /\ \A j, k \in 1..Len(units) : j < k => units[j].to < units[k].from
        /\ \A p \in CodeEnds, q \in 1..(pos - 1) :
              q > p => \/ \E u \in Found : q \in u.from..u.to
                       \/ \E r \in CodeEnds : q \in (Before(r) + 1)..r
        /\ (\E p \in CodeEnds : p < pos) =>
              \/ pos = Len(frame) + 1
              \/ \E n \in CodeEnds : pos = Before(n) + 1 /\ pos <= n /\ \A q \in pos..(n - 1) : frame[q] # 1
        /\ NoStrayOne => Found = {u \in AnnexB : u.from <= pos}

LEMMA PacketsTypeInit == PacketsInit => PacketsTypeOK /\ UntouchedInv /\ ScanInv
  BY PacketsAssumption, EmptySeq DEF PacketsInit, PacketsTypeOK, UntouchedInv, ScanInv

LEMMA UnitsTyped ==
    ASSUME PacketsTypeOK
    PROVE  \A k \in 1..Len(units) : units[k] \in Spans /\ units[k].from \in Nat /\ units[k].to \in Nat
<1>1. units \in Seq(Spans)
  BY DEF PacketsTypeOK
<1>2. \A k \in 1..Len(units) : units[k] \in Spans
  BY <1>1, ElementOfSeq
<1>3. QED
  BY <1>2 DEF Spans

(* The definitions about the frame alone change with nothing else.          *)
LEMMA SameFrame ==
    ASSUME frame' = frame
    PROVE  /\ CodeEnds' = CodeEnds /\ AnnexB' = AnnexB /\ (NoStrayOne' <=> NoStrayOne)
           /\ \A p : Before(p)' = Before(p)
  BY DEF CodeEnds, AnnexB, NoStrayOne, EndsCode, Before

(* One round of the search that finds a start code.                         *)
LEMMA FindUnitKeeps ==
    ASSUME PacketsTypeOK, UntouchedInv, ScanInv, FindUnit
    PROVE  PacketsTypeOK' /\ ScanInv'
<1>1. PICK p \in pos..Len(frame), e \in 0..Len(frame) :
          /\ FirstOne(pos, p) /\ EndsCode(p) /\ UnitEnds(p + 1, e)
          /\ units' = IF p < e THEN Append(units, [from |-> p + 1, to |-> e]) ELSE units
          /\ pos' = e + 1
  BY DEF FindUnit
<1> DEFINE unit == [from |-> p + 1, to |-> e]
<1>2. /\ frame' = frame /\ stage' = "scanning" /\ stage = "scanning"
      /\ UNCHANGED <<nal, offset, pkts, next, number, local, latest, lossless, rebuilt>>
  BY DEF FindUnit, packing, sending
<1>3. frame \in Seq(Bytes) /\ pos \in 1..(Len(frame) + 1) /\ units \in Seq(Spans) /\ Len(frame) \in Nat
  BY LenProperties DEF PacketsTypeOK
<1>4. p \in CodeEnds /\ p \in 1..Len(frame) /\ frame[p] = 1 /\ \A q \in pos..(p - 1) : frame[q] # 1
  BY <1>1, <1>3 DEF CodeEnds, FirstOne
(* Where the unit ends, no byte 1 came before the next start code.           *)
<1>5. \/ \E n \in CodeEnds :
            /\ n > p /\ e = Before(n) /\ p <= e /\ e <= n - 3 /\ \A q \in (p + 1)..(n - 1) : frame[q] # 1
      \/ /\ e = Len(frame)
         /\ \A q \in (p + 1)..Len(frame) : FirstOne(p + 1, q) => ~EndsCode(q)
  <2>1. CASE \E n \in (p + 1)..Len(frame) : FirstOne(p + 1, n) /\ EndsCode(n) /\ e = Before(n)
    <3>1. PICK n \in (p + 1)..Len(frame) : FirstOne(p + 1, n) /\ EndsCode(n) /\ e = Before(n)
      BY <2>1
    <3>2. p <= e /\ e <= n - 3
      BY <1>3, <1>4, <3>1, CodeAfterOne
    <3>3. n \in CodeEnds /\ n > p /\ \A q \in (p + 1)..(n - 1) : frame[q] # 1
      BY <1>3, <1>4, <3>1 DEF CodeEnds, FirstOne
    <3>4. QED
      BY <3>1, <3>2, <3>3
  <2>2. QED
    BY <1>1, <2>1 DEF UnitEnds
<1>6. p <= e
  BY <1>3, <1>4, <1>5
<1>7. units' \in Seq(Spans) /\ pos' \in 1..(Len(frame) + 1) /\ Len(units) \in Nat
  <2>1. Append(units, unit) \in Seq(Spans)
    BY <1>3, <1>4, AppendProperties DEF Spans
  <2>2. QED
    <3>1. units' = (IF p < e THEN Append(units, unit) ELSE units)
      BY <1>1
    <3> HIDE DEF unit
    <3>2. units' \in Seq(Spans)
      BY <1>3, <2>1, <3>1
    <3>3. pos' \in 1..(Len(frame) + 1)
      BY <1>1, <1>3, <1>4, <1>6
    <3>4. QED
      BY <1>3, <3>2, <3>3, LenProperties
<1>8. PacketsTypeOK'
  <2>1. nal = 1 /\ nal' = 1 /\ nal' \in 1..(Len(units') + 1)
    BY <1>2, <1>7, LenProperties DEF UntouchedInv
  <2>2. QED
    BY <1>2, <1>7, <2>1 DEF PacketsTypeOK
<1>9. /\ \A u \in Found : u \in Found'
      /\ p < e => unit \in Found'
      /\ \A u \in Found' : u \in Found \/ (p < e /\ u = unit)
  <2>1. CASE p < e
    <3>1. /\ Len(units') = Len(units) + 1 /\ units'[Len(units) + 1] = unit
          /\ \A k \in 1..Len(units) : units'[k] = units[k]
      BY <1>1, <1>3, <1>7, <2>1, AppendProperties DEF Spans
    <3>2. QED
      BY <1>7, <2>1, <3>1 DEF Found
  <2>2. CASE ~(p < e)
    BY <1>1, <2>2 DEF Found
  <2>3. QED
    BY <2>1, <2>2
<1>10. /\ \A k \in 1..Len(units') : /\ 1 <= units'[k].from /\ units'[k].from <= units'[k].to
                                    /\ units'[k].to < pos'
       /\ \A j, k \in 1..Len(units') : j < k => units'[j].to < units'[k].from
  <2>1. /\ \A k \in 1..Len(units) : 1 <= units[k].from /\ units[k].from <= units[k].to /\ units[k].to < pos
        /\ \A j, k \in 1..Len(units) : j < k => units[j].to < units[k].from
        /\ \A k \in 1..Len(units) : units[k].from \in Nat /\ units[k].to \in Nat
    BY <1>2, UnitsTyped DEF ScanInv
  <2>2. pos < pos' /\ pos <= p
    BY <1>1, <1>3, <1>6
  <2>3. CASE p < e
    <3>1. /\ Len(units') = Len(units) + 1 /\ units'[Len(units) + 1] = unit
          /\ \A k \in 1..Len(units) : units'[k] = units[k]
      BY <1>1, <1>3, <1>7, <2>3, AppendProperties DEF Spans
    <3>2. unit.from = p + 1 /\ unit.to = e
      OBVIOUS
    <3> HIDE DEF unit
    <3>3. QED
      BY <1>1, <1>3, <1>4, <1>7, <2>1, <2>2, <2>3, <3>1, <3>2
  <2>4. CASE ~(p < e)
    BY <1>1, <1>3, <1>7, <2>1, <2>2, <2>4
  <2>5. QED
    BY <2>3, <2>4
<1>11. \A r \in CodeEnds, q \in 1..(pos' - 1) :
          q > r => \/ \E u \in Found' : q \in u.from..u.to
                   \/ \E s \in CodeEnds : q \in (Before(s) + 1)..s
  <2> SUFFICES ASSUME NEW r \in CodeEnds, NEW q \in 1..(pos' - 1), q > r
               PROVE  \/ \E u \in Found' : q \in u.from..u.to
                      \/ \E s \in CodeEnds : q \in (Before(s) + 1)..s
    OBVIOUS
  <2>0. r \in 1..Len(frame) /\ frame[r] = 1
    BY DEF CodeEnds
  <2>1. CASE q < pos
    BY <1>2, <1>3, <1>9, <2>1 DEF ScanInv
  <2>2. CASE pos <= q /\ q <= p
    <3>1. r < pos
      BY <1>3, <1>4, <2>0, <2>2
    <3>2. PICK n \in CodeEnds : pos = Before(n) + 1 /\ pos <= n /\ \A s \in pos..(n - 1) : frame[s] # 1
      BY <1>1, <1>2, <1>3, <3>1 DEF ScanInv
    <3>3. n \in 1..Len(frame) /\ frame[n] = 1
      BY DEF CodeEnds
    <3>4. n = p
      BY <1>1, <1>3, <1>4, <3>2, <3>3
    <3>5. QED
      BY <1>3, <2>2, <3>2, <3>3, <3>4
  <2>3. CASE p < q
    <3>1. p < e /\ q \in unit.from..unit.to
      BY <1>1, <1>3, <1>4, <2>3
    <3>2. QED
      BY <1>9, <3>1
  <2>4. QED
    BY <1>3, <1>4, <2>1, <2>2, <2>3
<1>12. (\E r \in CodeEnds : r < pos') =>
          \/ pos' = Len(frame) + 1
          \/ \E n \in CodeEnds : pos' = Before(n) + 1 /\ pos' <= n /\ \A q \in pos'..(n - 1) : frame[q] # 1
  <2>1. CASE e = Len(frame)
    BY <1>1, <2>1
  <2>2. CASE e # Len(frame)
    <3>1. PICK n \in CodeEnds : /\ n > p /\ e = Before(n) /\ p <= e /\ e <= n - 3
                                /\ \A q \in (p + 1)..(n - 1) : frame[q] # 1
      BY <1>5, <2>2
    <3>2. n \in 1..Len(frame)
      BY DEF CodeEnds
    <3>3. QED
      BY <1>1, <1>3, <1>4, <3>1, <3>2
  <2>3. QED
    BY <2>1, <2>2
<1>13. NoStrayOne => Found' = {u \in AnnexB : u.from <= pos'}
  <2> SUFFICES ASSUME NoStrayOne PROVE Found' = {u \in AnnexB : u.from <= pos'}
    OBVIOUS
  <2>1. Found = {u \in AnnexB : u.from <= pos}
    BY <1>2 DEF ScanInv
  (* The unit ends where Annex B says. *)
  <2>2. \/ \E n \in CodeEnds : n >= p + 1 /\ e = Before(n) /\ \A r \in CodeEnds : r >= p + 1 => n <= r
        \/ e = Len(frame) /\ \A r \in CodeEnds : r < p + 1
    <3>1. CASE \E n \in CodeEnds :
                 /\ n > p /\ e = Before(n) /\ p <= e /\ e <= n - 3 /\ \A q \in (p + 1)..(n - 1) : frame[q] # 1
      <4>1. PICK n \in CodeEnds :
                 /\ n > p /\ e = Before(n) /\ p <= e /\ e <= n - 3 /\ \A q \in (p + 1)..(n - 1) : frame[q] # 1
        BY <3>1
      <4>2. \A r \in CodeEnds : r \in 1..Len(frame) /\ frame[r] = 1
        BY DEF CodeEnds
      <4>3. QED
        BY <1>3, <1>4, <4>1, <4>2
    <3>2. CASE e = Len(frame) /\ \A q \in (p + 1)..Len(frame) : FirstOne(p + 1, q) => ~EndsCode(q)
      <4>1. ASSUME NEW r \in CodeEnds, r > p PROVE FALSE
        <5> DEFINE ones == {q \in (p + 1)..Len(frame) : frame[q] = 1}
        <5>1. r \in ones /\ ones \in SUBSET Nat
          BY <1>3, <1>4, <4>1 DEF CodeEnds
        <5>2. PICK q \in ones : \A s \in ones : q <= s
          <6> HIDE DEF ones
          <6>1. QED
            BY <5>1, LeastNatural
        <5>3. FirstOne(p + 1, q)
          BY <1>3, <1>4, <5>2 DEF FirstOne
        <5>4. q \in CodeEnds
          BY <1>3, <1>4, <5>2 DEF NoStrayOne
        <5>5. QED
          BY <3>2, <5>2, <5>3, <5>4 DEF CodeEnds
      <4>2. \A r \in CodeEnds : r \in 1..Len(frame)
        BY DEF CodeEnds
      <4>3. QED
        BY <1>3, <1>4, <3>2, <4>1, <4>2
    <3>3. QED
      BY <1>5, <3>1, <3>2
  (* Only the start code at p lies between pos and there. *)
  <2>3. \A r \in CodeEnds : pos <= r /\ r <= e => r = p
    <3> SUFFICES ASSUME NEW r \in CodeEnds, pos <= r, r <= e, r # p PROVE FALSE
      OBVIOUS
    <3>1. r \in 1..Len(frame) /\ frame[r] = 1
      BY DEF CodeEnds
    <3>2. r > p
      BY <1>3, <1>4, <3>1
    <3>3. PICK n \in CodeEnds : n >= p + 1 /\ e = Before(n) /\ n <= r
      BY <1>3, <1>4, <2>2, <3>1, <3>2
    <3>4. n \in (p + 1)..Len(frame) /\ EndsCode(n)
      BY <1>3, <1>4, <3>3 DEF CodeEnds
    <3>5. e <= n - 3
      BY <1>3, <1>4, <3>3, <3>4, CodeAfterOne
    <3>6. QED
      BY <1>3, <3>1, <3>3, <3>4, <3>5
  <2>4. p < e => unit \in AnnexB
    BY <1>3, <1>4, <2>2 DEF AnnexB
  <2>5. ASSUME NEW u \in AnnexB, pos < u.from, u.from <= pos' PROVE p < e /\ u = unit
    <3>1. /\ u = [from |-> u.from, to |-> u.to] /\ u.from \in 1..Len(frame) /\ u.to \in 1..Len(frame)
          /\ u.from <= u.to /\ u.from - 1 \in CodeEnds
          /\ \/ \E q \in CodeEnds :
                   q >= u.from /\ u.to = Before(q) /\ \A r \in CodeEnds : r >= u.from => q <= r
             \/ u.to = Len(frame) /\ \A r \in CodeEnds : r < u.from
      BY DEF AnnexB
    <3>2. u.from = p + 1
      <4>1. u.from - 1 \in Int /\ pos <= u.from - 1 /\ u.from - 1 <= e
        BY <1>1, <1>3, <2>5, <3>1
      <4>2. u.from - 1 = p
        BY <2>3, <3>1, <4>1
      <4>3. QED
        BY <1>3, <3>1, <4>2
    <3>3. u.to = e
      <4>1. \A r \in CodeEnds : r \in Int
        BY DEF CodeEnds
      <4>2. QED
        BY <1>3, <1>4, <2>2, <3>1, <3>2, <4>1
    <3>4. QED
      BY <1>3, <1>4, <3>1, <3>2, <3>3
  <2>6. \A u \in AnnexB : u.from \in Nat
    BY DEF AnnexB
  <2>7. unit.from = p + 1 /\ p + 1 <= pos' /\ pos <= pos'
    BY <1>1, <1>3, <1>4, <1>6
  <2> HIDE DEF unit
  <2>8. ASSUME NEW u \in Found' PROVE u \in AnnexB /\ u.from <= pos'
    BY <1>3, <1>7, <1>9, <2>1, <2>4, <2>6, <2>7, <2>8
  <2>9. ASSUME NEW u \in AnnexB, u.from <= pos' PROVE u \in Found'
    <3>1. CASE u.from <= pos
      BY <1>9, <2>1, <3>1
    <3>2. CASE pos < u.from
      BY <1>9, <2>5, <2>9, <3>2
    <3>3. QED
      BY <1>3, <2>6, <3>1, <3>2
  <2>10. QED
    BY <2>8, <2>9
<1>14. ScanInv'
  BY <1>2, <1>10, <1>11, <1>12, <1>13, SameFrame DEF ScanInv
<1>15. QED
  BY <1>8, <1>14

(* A round that finds a byte 1 that ends no start code: there was none      *)
(* before it.                                                               *)
LEMMA SkipOneKeeps ==
    ASSUME PacketsTypeOK, ScanInv, SkipOne
    PROVE  PacketsTypeOK' /\ ScanInv'
<1>1. PICK p \in pos..Len(frame) : FirstOne(pos, p) /\ ~EndsCode(p) /\ pos' = p + 1
  BY DEF SkipOne
<1>2. /\ frame' = frame /\ stage' = "scanning" /\ stage = "scanning" /\ units' = units
      /\ UNCHANGED <<nal, offset, pkts, next, number, local, latest, lossless, rebuilt>>
  BY DEF SkipOne, packing, sending
<1>3. frame \in Seq(Bytes) /\ pos \in 1..(Len(frame) + 1) /\ units \in Seq(Spans) /\ Len(frame) \in Nat
  BY LenProperties DEF PacketsTypeOK
<1>4. p \notin CodeEnds /\ p \in 1..Len(frame) /\ \A q \in pos..(p - 1) : frame[q] # 1
  BY <1>1, <1>3 DEF CodeEnds, FirstOne
<1>5. PacketsTypeOK'
  BY <1>1, <1>2, <1>3 DEF PacketsTypeOK
<1>6. \A r \in CodeEnds : r \in 1..Len(frame) /\ frame[r] = 1
  BY DEF CodeEnds
<1>7. \A r \in CodeEnds : r >= pos
  <2> SUFFICES ASSUME NEW r \in CodeEnds, r < pos PROVE FALSE
    BY <1>3, <1>6
  <2>1. PICK n \in CodeEnds : pos = Before(n) + 1 /\ pos <= n /\ \A q \in pos..(n - 1) : frame[q] # 1
    BY <1>1, <1>2, <1>3 DEF ScanInv
  <2>2. n = p
    BY <1>1, <1>3, <1>4, <1>6, <2>1 DEF FirstOne
  <2>3. QED
    BY <1>4, <2>2
<1>8. \A r \in CodeEnds : r >= pos'
  BY <1>1, <1>3, <1>4, <1>6, <1>7
<1>9. Found' = Found
  BY <1>2 DEF Found
<1>10. \A u \in AnnexB : u.from > pos /\ u.from > pos'
  BY <1>1, <1>3, <1>7, <1>8 DEF AnnexB
<1>11. /\ \A k \in 1..Len(units') : /\ 1 <= units'[k].from /\ units'[k].from <= units'[k].to
                                    /\ units'[k].to < pos'
       /\ \A j, k \in 1..Len(units') : j < k => units'[j].to < units'[k].from
  <2>1. \A k \in 1..Len(units) : units[k].to \in Nat
    BY UnitsTyped
  <2>2. QED
    BY <1>1, <1>2, <1>3, <2>1 DEF ScanInv
<1>12. NoStrayOne => Found = {u \in AnnexB : u.from <= pos'}
  <2>1. {u \in AnnexB : u.from <= pos'} = {} /\ {u \in AnnexB : u.from <= pos} = {}
    <3>1. \A u \in AnnexB : u.from \in Nat
      BY DEF AnnexB
    <3>2. QED
      BY <1>1, <1>3, <1>10, <3>1
  <2>2. QED
    BY <1>2, <2>1 DEF ScanInv
<1>13. /\ \A r \in CodeEnds, q \in 1..(pos' - 1) : ~(q > r)
       /\ ~\E r \in CodeEnds : r < pos'
  BY <1>1, <1>3, <1>6, <1>8
<1>14. QED
  BY <1>2, <1>5, <1>9, <1>11, <1>12, <1>13, SameFrame DEF ScanInv

(* The search ends: no start code is left.                                  *)
LEMMA EndScanFinds ==
    ASSUME PacketsTypeOK, UntouchedInv, ScanInv, EndScan
    PROVE  PacketsTypeOK' /\ UnitsFound'
<1>1. /\ frame' = frame /\ pos' = pos /\ stage' = "packing" /\ stage = "scanning" /\ NoOne(pos)
      /\ UNCHANGED <<nal, offset, pkts, next, number, local, latest, lossless, rebuilt>>
      /\ units' = IF units = <<>> /\ frame # <<>> THEN <<[from |-> 1, to |-> Len(frame)]>> ELSE units
  BY DEF EndScan, packing, sending
<1>2. frame \in Seq(Bytes) /\ pos \in 1..(Len(frame) + 1) /\ units \in Seq(Spans) /\ Len(frame) \in Nat
  BY LenProperties DEF PacketsTypeOK
<1>3. \A r \in CodeEnds : r \in 1..Len(frame) /\ frame[r] = 1
  BY DEF CodeEnds
<1>4. \A r \in CodeEnds : r < pos
  BY <1>1, <1>2, <1>3 DEF NoOne
<1>5. NoStrayOne => Found = AnnexB
  <2> SUFFICES ASSUME NoStrayOne PROVE Found = AnnexB
    OBVIOUS
  <2>1. Found = {u \in AnnexB : u.from <= pos}
    BY <1>1 DEF ScanInv
  <2>2. \A u \in AnnexB : u.from <= pos
    BY <1>2, <1>4 DEF AnnexB
  <2>3. QED
    BY <2>1, <2>2
<1>6. CASE units = <<>> /\ frame # <<>>
  <2> DEFINE whole == [from |-> 1, to |-> Len(frame)]
  <2>1. units' = <<whole>> /\ whole \in Spans /\ whole.from = 1 /\ whole.to = Len(frame) /\ Len(frame) >= 1
    BY <1>1, <1>2, <1>6, EmptySeq, LenProperties DEF Spans
  <2> HIDE DEF whole
  <2>2. units' \in Seq(Spans) /\ Len(units') = 1 /\ units'[1] = whole
    BY <2>1
  <2>3. Found' = {whole} /\ Found = {}
    <3>1. Found' = {units'[k] : k \in 1..1}
      BY <2>2 DEF Found
    <3>2. QED
      BY <1>6, <2>2, <3>1 DEF Found
  <2>4. PacketsTypeOK'
    <3>1. nal = 1 /\ nal' \in 1..(Len(units') + 1)
      BY <1>1, <2>2 DEF UntouchedInv
    <3>2. QED
      BY <1>1, <1>2, <2>2, <3>1 DEF PacketsTypeOK
  <2>5. NoStrayOne' => Found' = WholeIfNone(AnnexB)'
    BY <1>1, <1>5, <1>6, <2>3, SameFrame DEF WholeIfNone, whole
  <2>6. \A r \in CodeEnds', q \in 1..Len(frame') : \E u \in Found' : q \in u.from..u.to
    BY <1>1, <1>2, <2>1, <2>3
  <2>7. QED
    BY <1>1, <2>1, <2>2, <2>4, <2>5, <2>6 DEF UnitsFound
<1>7. CASE ~(units = <<>> /\ frame # <<>>)
  <2>1. units' = units /\ Found' = Found
    BY <1>1, <1>7 DEF Found
  <2>2. PacketsTypeOK'
    BY <1>1, <2>1 DEF PacketsTypeOK
  <2>3. \A k \in 1..Len(units) : /\ 1 <= units[k].from /\ units[k].from <= units[k].to
                                 /\ units[k].to <= Len(frame)
    <3>1. \A k \in 1..Len(units) : units[k].to \in Nat
      BY UnitsTyped
    <3>2. QED
      BY <1>1, <1>2, <3>1 DEF ScanInv
  <2>4. \A r \in CodeEnds, q \in 1..Len(frame) :
           q > r => \/ \E u \in Found : q \in u.from..u.to
                    \/ \E s \in CodeEnds : q \in (Before(s) + 1)..s
    <3> SUFFICES ASSUME NEW r \in CodeEnds, NEW q \in 1..Len(frame), q > r, q >= pos PROVE FALSE
      BY <1>1, <1>2 DEF ScanInv
    <3>1. pos # Len(frame) + 1
      BY <1>2
    <3>2. PICK n \in CodeEnds : pos <= n
      BY <1>1, <1>4, <3>1 DEF ScanInv
    <3>3. QED
      BY <1>2, <1>3, <1>4, <3>2
  <2>5. NoStrayOne => Found = WholeIfNone(AnnexB)
    <3>1. CASE frame = <<>>
      BY <1>5, <3>1 DEF WholeIfNone
    <3>2. CASE units # <<>>
      <4>1. Found # {}
        BY <1>2, <3>2, EmptySeq, LenProperties DEF Found
      <4>2. QED
        BY <1>5, <4>1 DEF WholeIfNone
    <3>3. QED
      BY <1>7, <3>1, <3>2
  <2>6. QED
    BY <1>1, <2>1, <2>2, <2>3, <2>4, <2>5, SameFrame DEF UnitsFound, ScanInv, WholeIfNone
<1>8. QED
  BY <1>6, <1>7

-----------------------------------------------------------------------------
(* What packetize_h264_optimized makes of the units. *)

(* A packet has a unit, or a part of one with the place it has in it.       *)
Carries(p) ==
    /\ p.unit \in 1..Len(units)
    /\ p.from <= p.to /\ p.to <= units[p.unit].to
    /\ p.kind = "whole" <=> Size(units[p.unit]) <= MaxPayload
    /\ \/ p.kind = "whole" /\ p.from = units[p.unit].from /\ p.to = units[p.unit].to
       \/ p.kind = "start" /\ p.from = units[p.unit].from + 1
       \/ p.kind \in {"middle", "end"} /\ units[p.unit].from + 1 < p.from
    /\ Size(p) <= IF p.kind = "whole" THEN MaxPayload ELSE Chunk
    /\ p.marker <=> p.unit = Len(units) /\ p.to = units[p.unit].to

Begins(p, k) == p.unit = k /\ p.kind \in {"whole", "start"}

(* Packet q takes up where packet p ended.                                  *)
Follows(p, q) ==
    IF p.to = units[p.unit].to THEN Begins(q, p.unit + 1)
    ELSE q.unit = p.unit /\ q.from = p.to + 1 /\ q.kind \in {"middle", "end"}

(* The loops are where the last packet ended.                               *)
Reached(p) ==
    IF p.to = units[p.unit].to THEN nal = p.unit + 1 /\ offset = 0
    ELSE nal = p.unit /\ units[nal].from + offset = p.to /\ offset > 0

PackInv ==
    /\ \A j \in 1..Len(pkts) : Carries(pkts[j])
    /\ \A j \in 1..(Len(pkts) - 1) : Follows(pkts[j], pkts[j + 1])
    /\ IF pkts = <<>> THEN nal = 1 /\ offset = 0 ELSE Begins(pkts[1], 1) /\ Reached(pkts[Len(pkts)])

(* A packet that carries the next part of the unit the loops are at keeps   *)
(* the chain.                                                               *)
LEMMA OneMorePacket ==
    ASSUME PacketsTypeOK, PackInv, NEW p \in RtpPackets, nal \in 1..Len(units),
           units' = units, pkts' = Append(pkts, p),
           Carries(p), p.unit = nal, Reached(p)',
           IF offset = 0 THEN p.kind \in {"whole", "start"}
                         ELSE p.kind \in {"middle", "end"} /\ p.from = units[nal].from + offset + 1
    PROVE  PackInv' /\ pkts' \in Seq(RtpPackets) /\ Len(pkts') = Len(pkts) + 1
<1>1. pkts \in Seq(RtpPackets) /\ Len(pkts) \in Nat
  BY LenProperties DEF PacketsTypeOK
<1>2. /\ pkts' \in Seq(RtpPackets) /\ Len(pkts') = Len(pkts) + 1 /\ pkts'[Len(pkts) + 1] = p
      /\ \A j \in 1..Len(pkts) : pkts'[j] = pkts[j]
  BY <1>1, AppendProperties
<1>3. (\A j \in 1..Len(pkts) : Carries(pkts[j]))'
  <2>1. \A j \in 1..Len(pkts') : pkts'[j] = p \/ \E k \in 1..Len(pkts) : pkts'[j] = pkts[k]
    BY <1>1, <1>2
  <2>2. \A q : Carries(q)' <=> Carries(q)
    BY DEF Carries, Size
  <2>3. \A j \in 1..Len(pkts') : Carries(pkts'[j])
    BY <2>1 DEF PackInv
  <2>4. QED
    BY <2>2, <2>3 DEF Carries, Size
<1>4. CASE pkts = <<>>
  <2>1. Len(pkts) = 0 /\ pkts' # <<>>
    BY <1>2, <1>4, LenProperties
  <2>2. Begins(p, 1) /\ pkts'[Len(pkts')] = p /\ pkts'[1] = p
    BY <1>2, <1>4, <2>1 DEF PackInv, Begins
  <2>3. (Begins(pkts[1], 1) /\ Reached(pkts[Len(pkts)]))'
    BY <2>2 DEF Begins, Reached
  <2>4. QED
    BY <1>2, <1>3, <2>1, <2>3 DEF PackInv
<1>5. CASE pkts # <<>>
  <2>1. Len(pkts) > 0 /\ pkts' # <<>>
    BY <1>1, <1>2, <1>5, EmptySeq
  <2>2. Begins(pkts[1], 1) /\ Reached(pkts[Len(pkts)])
    BY <1>5 DEF PackInv
  <2>3. Follows(pkts[Len(pkts)], p)
    <3>1. pkts[Len(pkts)] \in RtpPackets /\ units[nal].from \in Nat
      BY <1>1, <2>1, ElementOfSeq, UnitsTyped
    <3>2. pkts[Len(pkts)].unit \in 1..Len(units)
      BY <1>1, <2>1 DEF PackInv, Carries
    <3>3. nal \in Nat /\ offset \in Nat
      BY DEF PacketsTypeOK
    <3>4. CASE pkts[Len(pkts)].to = units[pkts[Len(pkts)].unit].to
      BY <2>2, <3>4 DEF Reached, Follows, Begins
    <3>5. CASE pkts[Len(pkts)].to # units[pkts[Len(pkts)].unit].to
      BY <2>2, <3>5 DEF Reached, Follows
    <3>6. QED
      BY <3>4, <3>5
  <2>4. (\A j \in 1..(Len(pkts) - 1) : Follows(pkts[j], pkts[j + 1]))'
    <3>1. \A j \in 1..(Len(pkts) - 1) : Follows(pkts[j], pkts[j + 1])
      BY DEF PackInv
    <3>2. \A j \in 1..(Len(pkts') - 1) : Follows(pkts'[j], pkts'[j + 1])
      <4> SUFFICES ASSUME NEW j \in 1..(Len(pkts') - 1) PROVE Follows(pkts'[j], pkts'[j + 1])
        OBVIOUS
      <4>1. CASE j = Len(pkts)
        BY <1>1, <1>2, <2>1, <2>3, <4>1
      <4>2. CASE j # Len(pkts)
        BY <1>1, <1>2, <2>1, <3>1, <4>2
      <4>3. QED
        BY <4>1, <4>2
    <3>3. QED
      BY <3>2 DEF Follows, Begins
  <2>5. pkts'[1] = pkts[1] /\ pkts'[Len(pkts')] = p
    BY <1>1, <1>2, <2>1
  <2>6. (Begins(pkts[1], 1) /\ Reached(pkts[Len(pkts)]))'
    BY <2>2, <2>5 DEF Begins, Reached
  <2>7. QED
    BY <1>2, <1>3, <2>1, <2>4, <2>6 DEF PackInv
<1>6. QED
  BY <1>2, <1>4, <1>5

(* A unit of at most MaxPayload bytes becomes one packet.                   *)
LEMMA PackWholeKeeps ==
    ASSUME PacketsTypeOK, UnitsFound, PackInv, PackWhole
    PROVE  PacketsTypeOK' /\ PackInv'
<1>1. /\ nal \in 1..Len(units) /\ nal \in Nat /\ Len(units) \in Nat
      /\ units[nal].from \in Nat /\ units[nal].to \in Nat
  BY UnitsTyped, LenProperties DEF PackWhole, PacketsTypeOK
<1>2. PICK p : p = [kind |-> "whole", unit |-> nal, from |-> units[nal].from, to |-> units[nal].to,
                    marker |-> IsLastNal]
  OBVIOUS
<1>3. /\ Size(units[nal]) <= MaxPayload /\ nal' = nal + 1 /\ offset' = offset
      /\ pkts' = Append(pkts, p)
      /\ UNCHANGED <<frame, stage, pos, units, next, number, local, latest, lossless, rebuilt>>
  BY <1>2 DEF PackWhole, scanning, sending
<1>4. /\ p.kind = "whole" /\ p.unit = nal /\ p.from = units[nal].from
      /\ p.to = units[nal].to /\ (p.marker <=> nal = Len(units)) /\ p.marker \in BOOLEAN
  BY <1>2 DEF IsLastNal
<1>5. p \in RtpPackets
  BY <1>1, <1>2 DEF RtpPackets, IsLastNal
<1>6. offset = 0
  <2>1. CASE pkts # <<>>
    <3>1. pkts \in Seq(RtpPackets) /\ Len(pkts) \in Nat /\ Len(pkts) > 0
      BY <2>1, LenProperties, EmptySeq DEF PacketsTypeOK
    <3>2. PICK q : q = pkts[Len(pkts)]
      OBVIOUS
    <3>3. Carries(q) /\ Reached(q)
      BY <2>1, <3>1, <3>2 DEF PackInv
    <3>4. CASE q.to = units[q.unit].to
      BY <3>3, <3>4 DEF Reached
    <3>5. CASE q.to # units[q.unit].to
      BY <1>3, <3>3, <3>5 DEF Reached, Carries
    <3>6. QED
      BY <3>4, <3>5
  <2>2. QED
    BY <2>1 DEF PackInv
<1>7. Carries(p)
  BY <1>1, <1>3, <1>4 DEF Carries, Size, UnitsFound
<1>8. Reached(p)'
  BY <1>1, <1>3, <1>4, <1>6 DEF Reached
<1>9. PackInv' /\ pkts' \in Seq(RtpPackets) /\ Len(pkts') = Len(pkts) + 1
  BY <1>1, <1>3, <1>4, <1>5, <1>6, <1>7, <1>8, OneMorePacket
<1>10. QED
  BY <1>1, <1>3, <1>9, LenProperties DEF PacketsTypeOK

(* A longer one becomes several, none of more than MaxPayload bytes.        *)
LEMMA PackFragmentKeeps ==
    ASSUME PacketsTypeOK, UnitsFound, PackInv, PackFragment
    PROVE  PacketsTypeOK' /\ PackInv'
<1> DEFINE from == units[nal].from + 1 + offset
           ends == from + Chunk > units[nal].to
           to == IF ends THEN units[nal].to ELSE from + Chunk - 1
<1>1. /\ nal \in 1..Len(units) /\ nal \in Nat /\ Len(units) \in Nat /\ offset \in Nat
      /\ units[nal].from \in Nat /\ units[nal].to \in Nat
      /\ Chunk \in Nat /\ Chunk > 0 /\ Chunk = MaxPayload - 2 /\ MaxPayload \in Nat
  <2>1. Chunk \in Nat /\ Chunk > 0 /\ Chunk = MaxPayload - 2 /\ MaxPayload \in Nat
    BY PacketsAssumption DEF Chunk
  <2>2. nal \in 1..Len(units) /\ nal \in Nat /\ Len(units) \in Nat /\ offset \in Nat
    BY LenProperties DEF PackFragment, PacketsTypeOK
  <2>3. QED
    BY <2>1, <2>2, UnitsTyped
<1>2. PICK p : p = [kind |-> IF offset = 0 THEN "start" ELSE IF ends THEN "end" ELSE "middle",
                    unit |-> nal, from |-> from, to |-> to, marker |-> ends /\ IsLastNal]
  OBVIOUS
<1>3. /\ Size(units[nal]) > MaxPayload
      /\ pkts' = Append(pkts, p)
      /\ IF ends THEN nal' = nal + 1 /\ offset' = 0 ELSE offset' = offset + Chunk /\ nal' = nal
      /\ UNCHANGED <<frame, stage, pos, units, next, number, local, latest, lossless, rebuilt>>
  BY <1>2 DEF PackFragment, scanning, sending
<1>4. /\ p.kind = (IF offset = 0 THEN "start" ELSE IF ends THEN "end" ELSE "middle")
      /\ p.unit = nal /\ p.from = from /\ p.to = to /\ (p.marker <=> ends /\ nal = Len(units))
  BY <1>2 DEF IsLastNal
<1>5. from \in Nat /\ to \in Nat /\ from = units[nal].from + 1 + offset
      /\ (ends => to = units[nal].to) /\ (~ends => to = from + Chunk - 1 /\ to < units[nal].to)
      /\ to <= units[nal].to
  <2>1. CASE ends
    BY <1>1, <2>1
  <2>2. CASE ~ends
    BY <1>1, <2>2
  <2>3. QED
    BY <2>1, <2>2
<1>6. p \in RtpPackets
  BY <1>1, <1>2, <1>5 DEF RtpPackets, IsLastNal
(* What is left of the unit is not empty. *)
<1>7. from <= units[nal].to
  <2>1. CASE offset = 0
    BY <1>1, <1>3, <2>1 DEF Size
  <2>2. CASE offset # 0
    <3>1. pkts # <<>>
      BY <2>2 DEF PackInv
    <3>2. pkts \in Seq(RtpPackets) /\ Len(pkts) \in Nat /\ Len(pkts) > 0
      BY <3>1, LenProperties, EmptySeq DEF PacketsTypeOK
    <3>3. PICK q : q = pkts[Len(pkts)]
      OBVIOUS
    <3>4. Carries(q) /\ Reached(q) /\ q \in RtpPackets
      BY <3>1, <3>2, <3>3, ElementOfSeq DEF PackInv
    <3>5. q.to \in Nat /\ q.unit = nal /\ q.to = units[nal].from + offset /\ q.to # units[nal].to
      BY <2>2, <3>4 DEF Reached, RtpPackets
    <3>6. q.to <= units[nal].to
      BY <3>4, <3>5 DEF Carries
    <3>7. QED
      BY <1>1, <3>5, <3>6
  <2>3. QED
    BY <2>1, <2>2
<1> HIDE DEF from, ends, to
<1>8. Carries(p)
  <2>1. Size(p) <= Chunk
    <3>1. to <= from + Chunk - 1
      BY <1>1, <1>5 DEF ends
    <3>2. QED
      BY <1>1, <1>4, <1>5, <3>1 DEF Size
  <2>2. p.to = units[nal].to <=> ends
    BY <1>1, <1>4, <1>5
  <2>3. p.kind # "whole" /\ ~(Size(units[nal]) <= MaxPayload)
    BY <1>1, <1>3, <1>4 DEF Size
  <2>4. /\ offset = 0 => p.kind = "start" /\ p.from = units[nal].from + 1
        /\ offset # 0 => p.kind \in {"middle", "end"} /\ units[nal].from + 1 < p.from
    BY <1>1, <1>4, <1>5
  <2>5. QED
    BY <1>1, <1>4, <1>5, <1>7, <2>1, <2>2, <2>3, <2>4 DEF Carries
<1>9. Reached(p)'
  <2>1. CASE ends
    BY <1>1, <1>3, <1>4, <1>5, <2>1 DEF Reached
  <2>2. CASE ~ends
    <3>1. /\ nal' = nal /\ offset' = offset + Chunk /\ offset' > 0
          /\ units[nal].from + offset' = p.to /\ p.to # units[nal].to /\ p.unit = nal
      BY <1>1, <1>3, <1>4, <1>5, <2>2
    <3>2. QED
      BY <1>3, <3>1 DEF Reached
  <2>3. QED
    BY <2>1, <2>2
<1>10. IF offset = 0 THEN p.kind \in {"whole", "start"}
       ELSE p.kind \in {"middle", "end"} /\ p.from = units[nal].from + offset + 1
  BY <1>1, <1>4, <1>5
<1>11. PackInv' /\ pkts' \in Seq(RtpPackets) /\ Len(pkts') = Len(pkts) + 1
  BY <1>1, <1>3, <1>4, <1>6, <1>8, <1>9, <1>10, OneMorePacket
<1>12. nal' \in 1..(Len(units) + 1) /\ offset' \in Nat
  BY <1>1, <1>3
<1>13. QED
  BY <1>3, <1>11, <1>12, LenProperties DEF PacketsTypeOK

-----------------------------------------------------------------------------
(* What send_optimized_packets makes of the packets. *)

(* A receiver that has got everything up to packet p.                       *)
UpTo(p) ==
    [k \in 1..p.unit |-> IF k = p.unit THEN SubSeq(frame, units[k].from, p.to) ELSE Slice(units[k])]

SendInv ==
    stage = "sending" =>
        /\ nal = Len(units) + 1
        /\ lossless => rebuilt = IF next = 1 THEN <<>> ELSE UpTo(pkts[next - 1])

NumbersInv == latest # -1 => (latest + 1) % SeqBound = IF stage = "sending" THEN local ELSE number

LEMMA PacketsTyped ==
    ASSUME PacketsTypeOK
    PROVE  /\ Len(pkts) \in Nat
           /\ \A j \in 1..Len(pkts) : /\ pkts[j].unit \in Nat /\ pkts[j].from \in Nat
                                      /\ pkts[j].to \in Nat
<1>1. pkts \in Seq(RtpPackets)
  BY DEF PacketsTypeOK
<1>2. \A j \in 1..Len(pkts) : pkts[j] \in RtpPackets
  BY <1>1, ElementOfSeq
<1>3. QED
  BY <1>1, <1>2, LenProperties DEF RtpPackets

(* The parts of a unit put together are the unit so far.                    *)
LEMMA Joined ==
    ASSUME NEW s \in Seq(Bytes), NEW a \in 1..Len(s), NEW b \in a..Len(s), NEW c \in b..Len(s)
    PROVE  /\ SubSeq(s, a, b) \in Seq(Bytes)
           /\ SubSeq(s, a, b) \o SubSeq(s, b + 1, c) = SubSeq(s, a, c)
           /\ <<s[a]>> = SubSeq(s, a, a)
<1>1. Len(s) \in Nat
  BY LenProperties
<1>2. SubSeq(s, a, b) \in Seq(Bytes)
  BY <1>1, SubSeqProperties
<1>3. SubSeq(s, a, b) \o SubSeq(s, b + 1, c) = SubSeq(s, a, c)
  BY <1>1, ConcatAdjacentSubSeq
<1>4. <<s[a]>> = SubSeq(s, a, a)
  <2>1. SubSeq(s, a, a) \in Seq(Bytes) /\ Len(SubSeq(s, a, a)) = 1 /\ SubSeq(s, a, a)[1] = s[a]
    BY <1>1, SubSeqProperties
  <2>2. s[a] \in Bytes
    BY ElementOfSeq
  <2>3. <<s[a]>> \in Seq(Bytes) /\ Len(<<s[a]>>) = 1 /\ <<s[a]>>[1] = s[a]
    BY <2>2
  <2>4. QED
    BY <2>1, <2>3, SeqEqual
<1>5. QED
  BY <1>2, <1>3, <1>4

(* A packet written brings the receiver from what it had to what the packet *)
(* completes.                                                               *)
LEMMA Rebuilds ==
    ASSUME PacketsTypeOK, UnitsFound, PackInv, SendInv, stage = "sending", lossless,
           next <= Len(pkts)
    PROVE  Depacketize(pkts[next]) = UpTo(pkts[next])
<1>1. PICK q : q = pkts[next]
  OBVIOUS
<1>2. next \in 1..Len(pkts) /\ next \in Nat
  BY PacketsTyped DEF PacketsTypeOK
<1>3. /\ q.unit \in 1..Len(units) /\ q.unit \in Nat /\ q.from \in Nat /\ q.to \in Nat
      /\ q.from <= q.to /\ Carries(q)
  BY <1>1, <1>2, PacketsTyped DEF PackInv, Carries
<1>4. PICK u : u = units[q.unit]
  OBVIOUS
<1>5. /\ u.from \in Nat /\ u.to \in Nat /\ 1 <= u.from /\ u.from <= u.to /\ u.to <= Len(frame)
      /\ q.to <= u.to
  BY <1>3, <1>4, UnitsTyped DEF UnitsFound, Carries
<1>6. frame \in Seq(Bytes) /\ Len(frame) \in Nat
  BY LenProperties DEF PacketsTypeOK
<1>7. ASSUME Begins(q, q.unit), NEW m \in Nat, q.unit = m + 1, rebuilt = [k \in 1..m |-> Slice(units[k])]
      PROVE  Depacketize(q) = UpTo(q)
  <2>1. PICK piece : piece = SubSeq(frame, u.from, q.to)
    OBVIOUS
  <2>2. Depacketize(q) = Append(rebuilt, piece)
    <3>1. CASE q.kind = "whole"
      BY <1>3, <1>4, <2>1, <3>1 DEF Carries, Depacketize, Slice
    <3>2. CASE q.kind = "start"
      <4>1. q.from = u.from + 1
        BY <1>3, <1>4, <3>2 DEF Carries
      <4>2. <<frame[u.from]>> \o SubSeq(frame, u.from + 1, q.to) = piece
        <5>1. u.from \in 1..Len(frame) /\ u.from \in u.from..Len(frame) /\ q.to \in u.from..Len(frame)
          BY <1>3, <1>5, <1>6, <4>1
        <5>2. QED
          BY <1>6, <2>1, <5>1, Joined
      <4>3. QED
        BY <1>4, <3>2, <4>1, <4>2 DEF Depacketize, Slice
    <3>3. QED
      BY <1>7, <3>1, <3>2 DEF Begins
  <2>3. PICK S : S = {Slice(units[k]) : k \in 1..m} \cup {piece}
    OBVIOUS
  <2>4. rebuilt \in Seq(S) /\ Len(rebuilt) = m /\ piece \in S
    <3>1. rebuilt \in [1..m -> S] /\ piece \in S
      BY <1>7, <2>3
    <3>2. rebuilt \in Seq(S)
      BY <1>7, <3>1
    <3>3. QED
      BY <1>7, <3>1, <3>2, LenProperties
  <2>5. Append(rebuilt, piece) = [k \in 1..(m + 1) |-> IF k = m + 1 THEN piece ELSE Slice(units[k])]
    <3>1. PICK f : f = [k \in 1..(m + 1) |-> IF k = m + 1 THEN piece ELSE Slice(units[k])]
      OBVIOUS
    <3>2. \A k \in 1..m : Slice(units[k]) \in S
      BY <2>3
    <3>3. f \in [1..(m + 1) -> S]
      BY <1>7, <2>4, <3>1, <3>2
    <3>4. f \in Seq(S) /\ Len(f) = m + 1
      BY <1>7, <3>3, LenProperties
    <3>5. /\ Append(rebuilt, piece) \in Seq(S) /\ Len(Append(rebuilt, piece)) = m + 1
          /\ Append(rebuilt, piece)[m + 1] = piece
          /\ \A k \in 1..m : Append(rebuilt, piece)[k] = Slice(units[k])
      BY <1>7, <2>4, AppendProperties
    <3>6. \A k \in 1..(m + 1) : Append(rebuilt, piece)[k] = f[k]
      BY <1>7, <3>1, <3>5
    <3>7. QED
      BY <3>1, <3>4, <3>5, <3>6, SeqEqual
  <2>6. QED
    BY <1>4, <1>7, <2>1, <2>2, <2>5 DEF UpTo
<1>8. CASE next = 1
  <2>1. Begins(q, 1) /\ q.unit = 1
    <3>1. pkts # <<>>
      BY <1>2
    <3>2. QED
      BY <1>1, <1>8, <3>1 DEF PackInv, Begins
  <2>2. rebuilt = [k \in 1..0 |-> Slice(units[k])]
    BY <1>8 DEF SendInv
  <2>3. QED
    BY <1>1, <1>7, <2>1, <2>2
<1>9. CASE next # 1
  <2>1. PICK p : p = pkts[next - 1]
    OBVIOUS
  <2>2. next - 1 \in 1..(Len(pkts) - 1) /\ next - 1 \in 1..Len(pkts) /\ (next - 1) + 1 = next
    BY <1>2, <1>9, PacketsTyped
  <2>3. Carries(p) /\ Follows(p, q) /\ p.unit \in Nat /\ p.from \in Nat /\ p.to \in Nat
    BY <1>1, <2>1, <2>2, PacketsTyped DEF PackInv
  <2>4. rebuilt = UpTo(p)
    BY <1>9, <2>1 DEF SendInv
  <2>5. CASE p.to = units[p.unit].to
    <3>1. Begins(q, p.unit + 1) /\ q.unit = p.unit + 1
      BY <2>3, <2>5 DEF Follows, Begins
    <3>2. rebuilt = [k \in 1..p.unit |-> Slice(units[k])]
      BY <2>4, <2>5 DEF UpTo, Slice
    <3>3. QED
      BY <1>1, <1>7, <2>3, <3>1, <3>2
  <2>6. CASE p.to # units[p.unit].to
    <3>1. q.unit = p.unit /\ q.from = p.to + 1 /\ q.kind \in {"middle", "end"}
      BY <2>3, <2>6 DEF Follows
    <3>2. p.to \in u.from..Len(frame) /\ q.to \in p.to..Len(frame) /\ u.from \in 1..Len(frame)
      <4>1. u.from <= p.from /\ p.from <= p.to /\ p.to <= u.to
        BY <1>4, <1>5, <2>3, <3>1 DEF Carries
      <4>2. QED
        BY <1>3, <1>5, <1>6, <2>3, <3>1, <4>1
    <3>3. SubSeq(frame, u.from, p.to) \o SubSeq(frame, p.to + 1, q.to) = SubSeq(frame, u.from, q.to)
      BY <1>6, <3>2, Joined
    <3>4. Len(rebuilt) = p.unit /\ DOMAIN rebuilt = 1..p.unit /\ p.unit \in 1..p.unit
      <4>1. PICK S : S = {rebuilt[k] : k \in 1..p.unit}
        OBVIOUS
      <4>2. rebuilt \in [1..p.unit -> S]
        BY <2>4, <4>1 DEF UpTo
      <4>3. rebuilt \in Seq(S)
        BY <2>3, <4>2
      <4>4. p.unit >= 1
        BY <1>3, <3>1
      <4>5. QED
        BY <2>3, <4>2, <4>3, <4>4, LenProperties
    <3>5. rebuilt[p.unit] = SubSeq(frame, u.from, p.to)
      BY <1>4, <2>4, <3>1, <3>4 DEF UpTo
    <3>6. Depacketize(q) = [rebuilt EXCEPT ![p.unit] = SubSeq(frame, u.from, q.to)]
      BY <3>1, <3>3, <3>4, <3>5 DEF Depacketize, Slice
    <3>7. QED
      BY <1>1, <1>4, <2>4, <3>1, <3>4, <3>6 DEF UpTo
  <2>7. QED
    BY <2>5, <2>6
<1>10. QED
  BY <1>8, <1>9

-----------------------------------------------------------------------------
(* The inductive invariant of the three loops. *)

PacketsInv ==
    /\ PacketsTypeOK /\ UntouchedInv /\ ScanInv /\ PackInv /\ SendInv /\ NumbersInv
    /\ stage \in {"packing", "sending"} => UnitsFound

LEMMA UnitsFoundKept == ASSUME UnitsFound, frame' = frame, units' = units PROVE UnitsFound'
  BY SameFrame DEF UnitsFound, Found, WholeIfNone

LEMMA PackKept == ASSUME PackInv, UNCHANGED <<units, packing>> PROVE PackInv'
  BY DEF PackInv, packing, Carries, Follows, Begins, Reached, Size

LEMMA NumberType == ASSUME NEW n \in Int PROVE n % SeqBound \in 0..(SeqBound - 1)
  BY PacketsAssumption

THEOREM PacketsInvariant == PacketsSpec => []PacketsInv
<1>1. PacketsInit => PacketsInv
  BY PacketsTypeInit, EmptySeq DEF PacketsInit, PacketsInv, PackInv, SendInv, NumbersInv
<1>2. PacketsInv /\ [PacketsNext]_packets => PacketsInv'
  <2> SUFFICES ASSUME PacketsInv, [PacketsNext]_packets PROVE PacketsInv'
    OBVIOUS
  <2>0. PacketsTypeOK /\ UntouchedInv /\ ScanInv /\ PackInv /\ SendInv /\ NumbersInv
    BY DEF PacketsInv
  <2>1. CASE FrameComplete
    <3>1. /\ stage = "arriving" /\ stage' = "scanning" /\ pos = 1 /\ units = <<>>
          /\ UNCHANGED <<frame, scanning, packing, sending>>
      BY <2>0, <2>1 DEF FrameComplete, UntouchedInv
    <3>2. PacketsTypeOK' /\ UntouchedInv' /\ PackInv' /\ SendInv' /\ NumbersInv'
      <4>1. PackInv'
        BY <2>0, <3>1, PackKept DEF scanning
      <4>2. QED
        BY <2>0, <3>1, <4>1 DEF PacketsTypeOK, UntouchedInv, SendInv, NumbersInv, scanning, packing, sending
    <3>3. ScanInv'
      <4>1. Len(units) = 0 /\ pos' = 1 /\ units' = <<>> /\ Found' = {} /\ frame' = frame
        BY <3>1 DEF scanning, Found
      <4>2. (\A r \in CodeEnds : r >= 1) /\ \A u \in AnnexB : ~(u.from <= 1)
        BY DEF CodeEnds, AnnexB
      <4>3. {u \in AnnexB : u.from <= 1} = {}
        BY <4>2
      <4>4. ~\E r \in CodeEnds : r < 1
        BY <4>2 DEF CodeEnds
      <4>5. QED
        BY <4>1, <4>3, <4>4, SameFrame DEF ScanInv
    <3>4. QED
      BY <3>1, <3>2, <3>3 DEF PacketsInv
  <2>2. ASSUME NEW b \in Bytes, AddByte(b) PROVE PacketsInv'
    <3>1. /\ stage = "arriving" /\ stage' = "arriving" /\ frame' = Append(frame, b) /\ pos = 1
          /\ UNCHANGED <<scanning, packing, sending>>
      BY <2>0, <2>2 DEF AddByte, UntouchedInv
    <3>2. frame' \in Seq(Bytes) /\ Len(frame') \in Nat
      BY <2>0, <3>1, AppendProperties, LenProperties DEF PacketsTypeOK
    <3>3. PackInv'
      BY <2>0, <3>1, PackKept DEF scanning
    <3>4. PacketsTypeOK'
      BY <2>0, <3>1, <3>2 DEF PacketsTypeOK, scanning, packing, sending
    <3>5. QED
      BY <2>0, <3>1, <3>3, <3>4 DEF PacketsInv, UntouchedInv, ScanInv, SendInv, NumbersInv,
         scanning, packing, sending
  <2>3. CASE FindUnit
    <3>1. PacketsTypeOK' /\ ScanInv'
      BY <2>0, <2>3, FindUnitKeeps
    <3>2. stage = "scanning" /\ stage' = "scanning" /\ UNCHANGED <<packing, sending>>
      BY <2>3 DEF FindUnit
    <3>3. QED
      BY <2>0, <3>1, <3>2 DEF PacketsInv, UntouchedInv, PackInv, SendInv, NumbersInv, packing, sending
  <2>4. CASE SkipOne
    <3>1. PacketsTypeOK' /\ ScanInv'
      BY <2>0, <2>4, SkipOneKeeps
    <3>2. stage = "scanning" /\ stage' = "scanning" /\ UNCHANGED <<packing, sending>>
      BY <2>4 DEF SkipOne
    <3>3. QED
      BY <2>0, <3>1, <3>2 DEF PacketsInv, UntouchedInv, PackInv, SendInv, NumbersInv, packing, sending
  <2>5. CASE EndScan
    <3>1. PacketsTypeOK' /\ UnitsFound'
      BY <2>0, <2>5, EndScanFinds
    <3>2. stage = "scanning" /\ stage' = "packing" /\ UNCHANGED <<packing, sending>>
      BY <2>5 DEF EndScan
    <3>3. QED
      BY <2>0, <3>1, <3>2 DEF PacketsInv, UntouchedInv, ScanInv, PackInv, SendInv, NumbersInv, packing, sending
  <2>6. CASE PackWhole \/ PackFragment
    <3>1. /\ stage = "packing" /\ stage' = "packing" /\ UNCHANGED <<frame, scanning, sending>>
      BY <2>6 DEF PackWhole, PackFragment
    <3>2. UnitsFound
      BY <3>1 DEF PacketsInv
    <3>3. PacketsTypeOK' /\ PackInv'
      BY <2>0, <2>6, <3>2, PackWholeKeeps, PackFragmentKeeps
    <3>4. UnitsFound'
      BY <3>1, <3>2, UnitsFoundKept DEF scanning
    <3>5. QED
      BY <2>0, <3>1, <3>3, <3>4 DEF PacketsInv, UntouchedInv, ScanInv, SendInv, NumbersInv, scanning, sending
  <2>7. CASE StartSend
    <3>1. /\ stage = "packing" /\ stage' = "sending" /\ nal > Len(units) /\ local' = number
          /\ UNCHANGED <<frame, scanning, packing, next, number, latest, lossless, rebuilt>>
      BY <2>7 DEF StartSend
    <3>2. UnitsFound' /\ PackInv'
      BY <2>0, <3>1, UnitsFoundKept, PackKept DEF PacketsInv, scanning
    <3>3. PacketsTypeOK'
      BY <2>0, <3>1 DEF PacketsTypeOK, scanning, packing
    <3>4. nal = Len(units) + 1 /\ next = 1 /\ rebuilt = <<>>
      <4>1. Len(units) \in Nat
        BY <2>0, LenProperties DEF PacketsTypeOK
      <4>2. QED
        BY <2>0, <3>1, <4>1 DEF PacketsTypeOK, UntouchedInv
    <3>5. QED
      BY <2>0, <3>1, <3>2, <3>3, <3>4 DEF PacketsInv, UntouchedInv, ScanInv, SendInv, NumbersInv,
         scanning, packing
  <2>8. CASE WriteFails \/ WriteOk
    <3>1. /\ stage = "sending" /\ stage' = "sending" /\ next <= Len(pkts) /\ next' = next + 1
          /\ UNCHANGED <<frame, scanning, packing, number>>
      BY <2>8 DEF WriteFails, WriteOk
    <3>2. UnitsFound /\ UnitsFound' /\ PackInv'
      BY <2>0, <3>1, UnitsFoundKept, PackKept DEF PacketsInv, scanning
    <3>3. PacketsTypeOK' /\ NumbersInv'
      <4>1. next \in Nat /\ next' \in 1..(Len(pkts) + 1) /\ next' # 1
        BY <2>0, <3>1, PacketsTyped DEF PacketsTypeOK
      <4>2. CASE WriteFails
        BY <2>0, <3>1, <4>1, <4>2 DEF WriteFails, PacketsTypeOK, NumbersInv, scanning, packing
      <4>3. CASE WriteOk
        <5>1. (local + 1) % SeqBound \in 0..(SeqBound - 1) /\ local \in -1..(SeqBound - 1)
          <6>1. SeqBound \in Nat \ {0} /\ local \in 0..(SeqBound - 1)
            BY <2>0, PacketsAssumption DEF PacketsTypeOK
          <6>2. local + 1 \in Int /\ local \in -1..(SeqBound - 1)
            BY <6>1
          <6>3. QED
            BY <6>2, NumberType
        <5>2. local' = (local + 1) % SeqBound /\ latest' = local /\ lossless' = lossless
          BY <4>3 DEF WriteOk
        <5>3. QED
          BY <2>0, <3>1, <4>1, <5>1, <5>2 DEF PacketsTypeOK, NumbersInv, scanning, packing
      <4>4. QED
        BY <2>8, <4>2, <4>3
    <3>4. SendInv'
      <4>1. CASE WriteFails
        BY <2>0, <3>1, <4>1 DEF WriteFails, SendInv, scanning, packing
      <4>2. CASE WriteOk
        <5>1. lossless => rebuilt' = UpTo(pkts[next])
          BY <2>0, <3>1, <3>2, <4>2, Rebuilds DEF WriteOk
        <5>2. next' # 1 /\ next' - 1 = next
          BY <2>0, <3>1 DEF PacketsTypeOK
        <5>3. lossless' => rebuilt' = UpTo(pkts[next' - 1])
          BY <4>2, <5>1, <5>2 DEF WriteOk
        <5>4. lossless' => rebuilt' = IF next' = 1 THEN <<>> ELSE UpTo(pkts[next - 1])'
          BY <3>1, <5>2, <5>3 DEF UpTo, Slice, scanning, packing
        <5>5. QED
          BY <2>0, <3>1, <5>4 DEF SendInv, scanning, packing
      <4>3. QED
        BY <2>8, <4>1, <4>2
    <3>5. QED
      BY <2>0, <3>1, <3>2, <3>3, <3>4 DEF PacketsInv, UntouchedInv, ScanInv, scanning, packing
  <2>9. CASE EndSend
    BY <2>0, <2>9, EmptySeq, PacketsAssumption
    DEF EndSend, PacketsInv, PacketsTypeOK, UntouchedInv, ScanInv, PackInv, SendInv, NumbersInv
  <2>10. CASE UNCHANGED packets
    <3>1. PackInv' /\ (stage \in {"packing", "sending"} => UnitsFound')
      BY <2>0, <2>10, PackKept, UnitsFoundKept DEF PacketsInv, packets, scanning
    <3>2. ScanInv'
      BY <2>0, <2>10, SameFrame DEF ScanInv, Found, packets, scanning
    <3>3. SendInv'
      BY <2>0, <2>10 DEF SendInv, UpTo, Slice, packets, scanning, packing, sending
    <3>4. QED
      BY <2>0, <2>10, <3>1, <3>2, <3>3
      DEF PacketsInv, PacketsTypeOK, UntouchedInv, NumbersInv, packets, scanning, packing, sending
  <2>11. QED
    BY <2>1, <2>2, <2>3, <2>4, <2>5, <2>6, <2>7, <2>8, <2>9, <2>10 DEF PacketsNext
<1>3. QED
  BY <1>1, <1>2, PTL DEF PacketsSpec

(* Whatever bytes the encoder delivers and whichever writes fail, the units *)
(* found lose nothing, the packets fit, a receiver that gets them all has   *)
(* the units, and the numbers have no gap (transport.rs 742-788, 1027-1097).*)
THEOREM FramesSurvive == PacketsSpec => []FrameSurvives
<1>1. PacketsInv => FrameSurvives
  <2> SUFFICES ASSUME PacketsInv PROVE FrameSurvives
    OBVIOUS
  <2>1. ASSUME stage = "sending" PROVE PacketsFit
    <3>1. PackInv /\ nal = Len(units) + 1 /\ PacketsTypeOK
      BY <2>1 DEF PacketsInv, SendInv
    <3>2. SUFFICES ASSUME NEW j \in 1..Len(pkts)
                   PROVE  /\ Size(pkts[j]) + (IF pkts[j].kind = "whole" THEN 0 ELSE 2) <= MaxPayload
                          /\ pkts[j].marker <=> j = Len(pkts)
      BY DEF PacketsFit
    <3>3. PICK p : p = pkts[j]
      OBVIOUS
    <3>4. Carries(p) /\ p.from \in Nat /\ p.to \in Nat /\ p.unit \in Nat /\ Len(units) \in Nat
      BY <3>1, <3>3, PacketsTyped, LenProperties DEF PackInv, PacketsTypeOK
    <3>5. Size(p) + (IF p.kind = "whole" THEN 0 ELSE 2) <= MaxPayload
      BY <3>4, PacketsAssumption DEF Carries, Size, Chunk
    <3>6. CASE j = Len(pkts)
      <4>1. Reached(p)
        <5>1. pkts # <<>>
          BY <3>1, <3>6, PacketsTyped
        <5>2. QED
          BY <3>1, <3>3, <3>6, <5>1 DEF PackInv
      <4>2. p.marker
        BY <3>1, <3>4, <4>1 DEF Reached, Carries
      <4>3. QED
        BY <3>3, <3>5, <3>6, <4>2
    <3>7. CASE j # Len(pkts)
      <4>1. j \in 1..(Len(pkts) - 1) /\ j + 1 \in 1..Len(pkts)
        BY <3>1, <3>7, PacketsTyped
      <4>2. Follows(p, pkts[j + 1]) /\ Carries(pkts[j + 1])
        BY <3>1, <3>3, <4>1 DEF PackInv
      <4>3. ~p.marker
        BY <3>4, <4>2 DEF Follows, Begins, Carries
      <4>4. QED
        BY <3>3, <3>5, <3>7, <4>3
    <3>8. QED
      BY <3>6, <3>7
  <2>2. ASSUME stage = "sending", next > Len(pkts), lossless
        PROVE  rebuilt = [k \in 1..Len(units) |-> Slice(units[k])]
    <3>1. /\ PackInv /\ nal = Len(units) + 1 /\ PacketsTypeOK
          /\ rebuilt = IF next = 1 THEN <<>> ELSE UpTo(pkts[next - 1])
      BY <2>2 DEF PacketsInv, SendInv
    <3>2. next = Len(pkts) + 1 /\ Len(pkts) \in Nat /\ Len(units) \in Nat /\ pkts \in Seq(RtpPackets)
      BY <2>2, <3>1, PacketsTyped, LenProperties DEF PacketsTypeOK
    <3>3. CASE pkts = <<>>
      BY <3>1, <3>2, <3>3 DEF PackInv
    <3>4. CASE pkts # <<>>
      <4>1. PICK p : p = pkts[Len(pkts)]
        OBVIOUS
      <4>2. Len(pkts) \in 1..Len(pkts) /\ next # 1 /\ next - 1 = Len(pkts)
        BY <3>2, <3>4, EmptySeq
      <4>3. Carries(p) /\ Reached(p) /\ p.unit \in Nat
        BY <3>1, <3>4, <4>1, <4>2, PacketsTyped DEF PackInv
      <4>4. p.unit = Len(units) /\ p.to = units[p.unit].to
        BY <3>1, <3>2, <4>3 DEF Reached, Carries
      <4>5. QED
        BY <3>1, <4>1, <4>2, <4>4 DEF UpTo, Slice
    <3>5. QED
      BY <3>3, <3>4
  <2>3. QED
    BY <2>1, <2>2 DEF PacketsInv, FrameSurvives, NumbersInv
<1>2. QED
  BY <1>1, PacketsInvariant, PTL

-----------------------------------------------------------------------------
(* Together *)

(* A behaviour of the run's specification is one of each of the two.        *)
THEOREM StreamTogether == Spec => StreamSpec /\ PacketsSpec
<1>1. Init => StreamInit /\ PacketsInit
  BY DEF Init
<1>2. [Next]_<<part, stream, packets>> => [StreamNext]_stream /\ [PacketsNext]_packets
  BY DEF Next
<1>3. QED
  BY <1>1, <1>2, PTL DEF Spec, StreamSpec, PacketsSpec

(* What each promises holds when both run.                                  *)
COROLLARY StreamRun == Spec => []StreamTypeOK /\ []FrameSurvives /\ TierEarned /\ FeedSpec
BY StreamTogether, StreamTypeCorrect, FramesSurvive, TierEarnedAlways, StreamImplementsFeeds, PTL
=============================================================================
