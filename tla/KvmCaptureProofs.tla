-------------------------- MODULE KvmCaptureProofs --------------------------
(***************************************************************************)
(* Proofs about KvmCapture: types, that KVM_STATE tells what the hardware  *)
(* is doing whenever KVM_LOCK is free, that the hardware is started once,  *)
(* what frames and reads may rely on until the first reset, and that the   *)
(* marker file tells the HDMI output.                                      *)
(***************************************************************************)
EXTENDS KvmCapture, SequenceTheorems, TLAPS

(* The programs of the HDMI handlers are sequences of steps. *)
LEMMA ProgramType == \A r \in Requests : Program(r) \in Seq(PanelSteps)
<1>1. /\ <<>> \in Seq(PanelSteps)
      /\ \A s \in PanelSteps : <<s>> \in Seq(PanelSteps)
      /\ <<"hdmiOn", "reset">> \in Seq(PanelSteps)
  BY DEF PanelSteps
<1>2. SetHdmi(TRUE) \in Seq(PanelSteps) /\ SetHdmi(FALSE) \in Seq(PanelSteps)
  BY <1>1 DEF SetHdmi, PanelSteps
<1>3. /\ <<"reset">> \in Seq(PanelSteps) /\ <<"sleep">> \in Seq(PanelSteps)
      /\ <<"clearFlag">> \in Seq(PanelSteps) /\ <<"setFlag">> \in Seq(PanelSteps)
  BY <1>1 DEF PanelSteps
<1> HIDE DEF SetHdmi, PanelSteps
<1>4. <<"reset">> \o SetHdmi(FALSE) \o <<"sleep">> \o SetHdmi(TRUE) \o <<"clearFlag">>
         \in Seq(PanelSteps)
  BY <1>2, <1>3, ConcatProperties
<1>5. SetHdmi(TRUE) \o <<"clearFlag">> \in Seq(PanelSteps)
  BY <1>2, <1>3, ConcatProperties
<1>6. SetHdmi(FALSE) \o <<"setFlag">> \in Seq(PanelSteps)
  BY <1>2, <1>3, ConcatProperties
<1>7. SUFFICES ASSUME NEW r \in Requests PROVE Program(r) \in Seq(PanelSteps)
  OBVIOUS
<1>8. r \in {"reset", "enable", "disable"}
  BY CaptureAssumption
<1>9. CASE r = "reset"
  BY <1>4, <1>9 DEF Program
<1>10. CASE r = "enable"
  BY <1>5, <1>10 DEF Program
<1>11. CASE r = "disable"
  BY <1>6, <1>11 DEF Program
<1>12. QED
  BY <1>8, <1>9, <1>10, <1>11

(* The variables of the specification keep their types. *)
THEOREM TypeCorrect == Spec => []TypeOK
<1> USE DEF Holding, Steps
<1>1. Init => TypeOK
  <2> SUFFICES ASSUME Init PROVE TypeOK
    OBVIOUS
  <2>1. todo \in [Operators -> Seq(PanelSteps)]
    BY DEF Init, PanelSteps
  <2>2. /\ pc \in [Grabbers -> Steps] /\ buf \in [Grabbers -> Bufs \cup {Free}]
        /\ \A g \in Grabbers : Holding(g) <=> buf[g] # Free
    BY DEF Init
  <2>3. /\ state \in {"NotStarted", "Initializing", "Ready", "Failed"}
        /\ mode \in {"None", "Mjpeg", "H264"} /\ hw \in {"off", "starting", "on"}
        /\ failures \in 0..RetryLimit /\ lock \in Grabbers \cup {Free}
        /\ live \in SUBSET Bufs /\ lost \in SUBSET Bufs
    BY CaptureAssumption DEF Init
  <2>4. /\ hdmi \in BOOLEAN /\ flag \in BOOLEAN /\ abandoned \in BOOLEAN
        /\ stopped \in BOOLEAN /\ libLoaded \in BOOLEAN /\ disturbed \in BOOLEAN
    BY DEF Init
  <2> HIDE DEF Holding, Steps
  <2>5. QED
    BY <2>1, <2>2, <2>3, <2>4 DEF TypeOK
<1>2. TypeOK /\ [Next]_vars => TypeOK'
  <2> SUFFICES ASSUME TypeOK, [Next]_vars PROVE TypeOK'
    OBVIOUS
  <2> USE CaptureAssumption DEF frames, panel, env, Goto
  <2>1. ASSUME NEW g \in Grabbers, Request(g) PROVE TypeOK'
    <3>1. \E step \in {"waiting", "wantInit", "wantRead"} : pc' = [pc EXCEPT ![g] = step]
      BY <2>1 DEF Request
    <3>2. QED
      BY <2>1, <3>1 DEF TypeOK, Request
  <2>2. ASSUME NEW g \in Grabbers, WaitEnds(g) PROVE TypeOK'
    BY <2>2 DEF TypeOK, WaitEnds
  <2>3. ASSUME NEW g \in Grabbers, BeginInit(g) PROVE TypeOK'
    BY <2>3 DEF TypeOK, BeginInit
  <2>4. ASSUME NEW g \in Grabbers, FinishInit(g) PROVE TypeOK'
    BY <2>4 DEF TypeOK, FinishInit
  <2>5. ASSUME NEW g \in Grabbers, BeginRead(g) PROVE TypeOK'
    BY <2>5 DEF TypeOK, BeginRead
  <2>6. ASSUME NEW g \in Grabbers, Settled(g) PROVE TypeOK'
    BY <2>6 DEF TypeOK, Settled
  <2>7. ASSUME NEW g \in Grabbers, ReadFails(g) \/ ReadEmpty(g) PROVE TypeOK'
    BY <2>7 DEF TypeOK, ReadFails, ReadEmpty
  <2>8. ASSUME NEW g \in Grabbers, ReadOk(g) PROVE TypeOK'
    BY <2>8 DEF TypeOK, ReadOk
  <2>9. ASSUME NEW g \in Grabbers, CopyFrame(g) PROVE TypeOK'
    BY <2>9 DEF TypeOK, CopyFrame
  <2>10. ASSUME NEW g \in Grabbers, DropFrame(g) PROVE TypeOK'
    BY <2>10 DEF TypeOK, DropFrame
  <2>11. ASSUME NEW o \in Operators, HdmiRequest(o) PROVE TypeOK'
    BY <2>11, ProgramType DEF TypeOK, HdmiRequest
  <2>12. ASSUME NEW o \in Operators, HdmiStep(o) PROVE TypeOK'
    <3>1. todo' \in [Operators -> Seq(PanelSteps)]
      <4>1. Tail(todo[o]) \in Seq(PanelSteps)
        BY <2>12, HeadTailProperties DEF HdmiStep, TypeOK
      <4>2. QED
        BY <2>12, <4>1 DEF HdmiStep, TypeOK
    <3>2. /\ state' \in {"NotStarted", "Initializing", "Ready", "Failed"}
          /\ mode' \in {"None", "Mjpeg", "H264"}
          /\ failures' \in 0..RetryLimit
          /\ hw' \in {"off", "starting", "on"}
          /\ live' \in SUBSET Bufs /\ lost' \in SUBSET Bufs /\ disturbed' \in BOOLEAN
      <4>1. CASE Head(todo[o]) = "reset"
        BY <2>12, <4>1 DEF HdmiStep, ResetInitState, TypeOK
      <4>2. CASE Head(todo[o]) # "reset"
        BY <2>12, <4>2 DEF HdmiStep, TypeOK
      <4>3. QED
        BY <4>1, <4>2
    <3>3. hdmi' \in BOOLEAN /\ flag' \in BOOLEAN /\ abandoned' \in BOOLEAN
      BY <2>12 DEF HdmiStep, TypeOK
    <3>4. QED
      BY <2>12, <3>1, <3>2, <3>3 DEF HdmiStep, TypeOK
  <2>13. ASSUME NEW o \in Operators, HangUp(o) PROVE TypeOK'
    BY <2>13 DEF TypeOK, HangUp
  <2>14. CASE Shutdown
    BY <2>14 DEF TypeOK, Shutdown
  <2>15. CASE UNCHANGED vars
    BY <2>15 DEF TypeOK, vars
  <2>16. QED
    BY <2>1, <2>2, <2>3, <2>4, <2>5, <2>6, <2>7, <2>8, <2>9, <2>10, <2>11, <2>12, <2>13, <2>14, <2>15
    DEF Next, Grab
<1>3. QED
  BY <1>1, <1>2, PTL DEF Spec

-----------------------------------------------------------------------------
(* The hardware *)

(* The lock is held exactly by the thread that starts the hardware or       *)
(* reads, the state and the library agree, and they are in between only     *)
(* while a thread starts them.  StateTellsHardware alone is not inductive:  *)
(* it says nothing of what the holder of the lock leaves behind.            *)
LockIsHeld ==
    \A g \in Grabbers : pc[g] \in {"init", "settling", "reading"} <=> lock = g
StateIsHardware ==
    /\ (state = "Ready") <=> (hw = "on")
    /\ (state = "Initializing") <=> (hw = "starting")
    /\ state = "Initializing" => \E g \in Grabbers : pc[g] = "init"
    /\ \A g \in Grabbers : pc[g] = "init" => state = "Initializing"
HardwareInv == LockIsHeld /\ StateIsHardware

THEOREM HardwareInductive == Spec => []HardwareInv
<1> USE DEF HardwareInv, LockIsHeld, StateIsHardware
<1>1. Init => HardwareInv
  BY CaptureAssumption DEF Init
<1>2. TypeOK /\ HardwareInv /\ [Next]_vars => HardwareInv'
  <2> SUFFICES ASSUME TypeOK, HardwareInv, [Next]_vars PROVE HardwareInv'
    OBVIOUS
  <2> USE CaptureAssumption DEF TypeOK, frames, panel, env, Goto
  <2>1. ASSUME NEW g \in Grabbers, Request(g) PROVE HardwareInv'
    <3>1. \E step \in {"waiting", "wantInit", "wantRead"} : pc' = [pc EXCEPT ![g] = step]
      BY <2>1 DEF Request
    <3>2. QED
      BY <2>1, <3>1 DEF Request
  <2>2. ASSUME NEW g \in Grabbers, WaitEnds(g) PROVE HardwareInv'
    BY <2>2 DEF WaitEnds
  <2>3. ASSUME NEW g \in Grabbers, BeginInit(g) PROVE HardwareInv'
    BY <2>3 DEF BeginInit
  <2>4. ASSUME NEW g \in Grabbers, FinishInit(g) PROVE HardwareInv'
    BY <2>4 DEF FinishInit
  <2>5. ASSUME NEW g \in Grabbers, BeginRead(g) PROVE HardwareInv'
    BY <2>5 DEF BeginRead
  <2>6. ASSUME NEW g \in Grabbers, Settled(g) PROVE HardwareInv'
    BY <2>6 DEF Settled
  <2>7. ASSUME NEW g \in Grabbers, ReadFails(g) \/ ReadEmpty(g) PROVE HardwareInv'
    BY <2>7 DEF ReadFails, ReadEmpty
  <2>8. ASSUME NEW g \in Grabbers, ReadOk(g) PROVE HardwareInv'
    BY <2>8 DEF ReadOk
  <2>9. ASSUME NEW g \in Grabbers, CopyFrame(g) PROVE HardwareInv'
    BY <2>9 DEF CopyFrame
  <2>10. ASSUME NEW g \in Grabbers, DropFrame(g) PROVE HardwareInv'
    BY <2>10 DEF DropFrame
  <2>11. ASSUME NEW o \in Operators, HdmiRequest(o) PROVE HardwareInv'
    BY <2>11 DEF HdmiRequest
  <2>12. ASSUME NEW o \in Operators, HdmiStep(o) PROVE HardwareInv'
    <3>1. CASE Head(todo[o]) = "reset"
      BY <2>12, <3>1 DEF HdmiStep, ResetInitState
    <3>2. CASE Head(todo[o]) # "reset"
      BY <2>12, <3>2 DEF HdmiStep
    <3>3. QED
      BY <3>1, <3>2
  <2>13. ASSUME NEW o \in Operators, HangUp(o) PROVE HardwareInv'
    BY <2>13 DEF HangUp
  <2>14. CASE Shutdown
    BY <2>14 DEF Shutdown
  <2>15. CASE UNCHANGED vars
    BY <2>15 DEF vars
  <2>16. QED
    BY <2>1, <2>2, <2>3, <2>4, <2>5, <2>6, <2>7, <2>8, <2>9, <2>10, <2>11, <2>12, <2>13, <2>14, <2>15
    DEF Next, Grab
<1>3. QED
  BY <1>1, <1>2, TypeCorrect, PTL DEF Spec

(* Whenever nobody holds KVM_LOCK, KVM_STATE tells whether the hardware is  *)
(* up and nobody has left it half started (ensure_initialized, deinit,      *)
(* reset_init_state).                                                       *)
THEOREM StateTells == Spec => []StateTellsHardware
<1>1. TypeOK /\ HardwareInv => StateTellsHardware
  BY CaptureAssumption DEF TypeOK, HardwareInv, LockIsHeld, StateIsHardware, StateTellsHardware
<1>2. QED
  BY <1>1, TypeCorrect, HardwareInductive, PTL

(* Without libkvm.so no request gets past initialisation.                   *)
THEOREM LibraryNeeded == Spec => []NoLibraryNoFrames
<1> USE DEF NoLibraryNoFrames
<1>1. Init => NoLibraryNoFrames
  BY DEF Init
<1>2. TypeOK /\ HardwareInv /\ NoLibraryNoFrames /\ [Next]_vars => NoLibraryNoFrames'
  <2> SUFFICES ASSUME TypeOK, HardwareInv, NoLibraryNoFrames, [Next]_vars, ~libLoaded'
               PROVE  NoLibraryNoFrames'
    OBVIOUS
  <2>1. ~libLoaded
    BY DEF Next, Request, Grab, WaitEnds, BeginInit, FinishInit, BeginRead, Settled, ReadFails,
       ReadEmpty, ReadOk, CopyFrame, DropFrame, HdmiRequest, HdmiStep, HangUp, Shutdown, vars, env
  <2>2. /\ hw = "off" /\ lock = Free /\ state \notin {"Ready", "Initializing"}
        /\ \A g \in Grabbers : pc[g] \in {"idle", "wantInit"}
    BY <2>1 DEF HardwareInv, StateIsHardware
  <2>3. ASSUME NEW g \in Grabbers, Request(g) \/ Grab(g) PROVE NoLibraryNoFrames'
    <3>1. Request(g) \/ BeginInit(g)
      BY <2>2, <2>3 DEF Grab, WaitEnds, FinishInit, BeginRead, Settled, ReadFails,
         ReadEmpty, ReadOk, CopyFrame, DropFrame
    <3>2. \E step \in {"idle", "wantInit"} : pc' = [pc EXCEPT ![g] = step]
      BY <2>1, <2>2, <3>1 DEF Request, BeginInit, Goto
    <3>3. hw' = hw /\ lock' = lock
      BY <2>1, <2>2, <3>1 DEF Request, BeginInit
    <3>4. QED
      BY <2>2, <3>2, <3>3 DEF TypeOK
  <2>4. ASSUME NEW o \in Operators, HdmiRequest(o) \/ HdmiStep(o) \/ HangUp(o)
        PROVE  NoLibraryNoFrames'
    BY <2>2, <2>4 DEF HdmiRequest, HdmiStep, HangUp, ResetInitState, frames
  <2>5. CASE Shutdown
    BY <2>2, <2>5 DEF Shutdown
  <2>6. CASE UNCHANGED vars
    BY <2>2, <2>6 DEF vars, frames
  <2>7. QED
    BY <2>3, <2>4, <2>5, <2>6 DEF Next
<1>3. QED
  BY <1>1, <1>2, TypeCorrect, HardwareInductive, PTL DEF Spec

-----------------------------------------------------------------------------
(* Frames *)

(* A step that leaves the frames alone, or only moves a thread between      *)
(* stages in which it has none.                                             *)
SameFrames ==
    /\ UNCHANGED <<live, lost, buf>>
    /\ \A g \in Grabbers : Holding(g)' <=> Holding(g)

LEMMA GrabSameFrames ==
    ASSUME TypeOK, NEW g \in Grabbers, Request(g) \/ (Grab(g) /\ ~ReadEmpty(g) /\ ~ReadOk(g) /\ ~DropFrame(g))
    PROVE  SameFrames /\ UNCHANGED disturbed
<1> USE DEF Goto, env, SameFrames, Holding, TypeOK
<1>1. CASE Request(g)
  <2>1. \E step \in {"waiting", "wantInit", "wantRead"} : pc' = [pc EXCEPT ![g] = step]
    BY <1>1 DEF Request
  <2>2. QED
    BY <1>1, <2>1 DEF Request
<1>2. CASE WaitEnds(g)
  BY <1>2 DEF WaitEnds
<1>3. CASE BeginInit(g)
  BY <1>3 DEF BeginInit
<1>4. CASE FinishInit(g)
  BY <1>4 DEF FinishInit
<1>5. CASE BeginRead(g)
  BY <1>5 DEF BeginRead
<1>6. CASE Settled(g)
  BY <1>6 DEF Settled
<1>7. CASE ReadFails(g)
  BY <1>7 DEF ReadFails
<1>8. CASE CopyFrame(g)
  BY <1>8 DEF CopyFrame
<1>9. QED
  BY <1>1, <1>2, <1>3, <1>4, <1>5, <1>6, <1>7, <1>8 DEF Grab

(* An HDMI step or the shutdown either leaves everything alone or takes     *)
(* down hardware that was up, with all its buffers.                         *)
LEMMA PanelFrames ==
    ASSUME \/ \E o \in Operators : HdmiRequest(o) \/ HdmiStep(o) \/ HangUp(o)
           \/ Shutdown \/ UNCHANGED vars
    PROVE  /\ UNCHANGED <<pc, buf>>
           /\ \/ UNCHANGED <<live, lost, hw, disturbed>>
              \/ disturbed' /\ live' = {}
              \/ UNCHANGED <<live, lost, hw>> /\ (disturbed => disturbed')
  BY DEF HdmiRequest, HdmiStep, HangUp, ResetInitState, Shutdown, vars, frames, env

(* Every buffer handed out will be given back: a thread has the frame, or   *)
(* it is the buffer of an empty read, which a reset gives back (read_img).  *)
THEOREM NoLeak == Spec => []NoBufferLeak
<1> USE DEF NoBufferLeak
<1>1. Init => NoBufferLeak
  BY DEF Init
<1>2. TypeOK /\ NoBufferLeak /\ [Next]_vars => NoBufferLeak'
  <2> SUFFICES ASSUME TypeOK, NoBufferLeak, [Next]_vars PROVE NoBufferLeak'
    OBVIOUS
  <2>1. ASSUME NEW g \in Grabbers, Request(g) \/ (Grab(g) /\ ~ReadEmpty(g) /\ ~ReadOk(g) /\ ~DropFrame(g))
        PROVE  NoBufferLeak'
    BY <2>1, GrabSameFrames DEF SameFrames
  <2>2. ASSUME NEW g \in Grabbers, ReadOk(g) PROVE NoBufferLeak'
    <3>1. PICK b \in Bufs \ live : live' = live \cup {b} /\ buf' = [buf EXCEPT ![g] = b]
      BY <2>2 DEF ReadOk
    <3>0. lost' = lost
      BY <2>2 DEF ReadOk, env
    <3>2. ~Holding(g) /\ Holding(g)' /\ buf'[g] = b
      BY <2>2, <3>1 DEF ReadOk, Holding, Goto, TypeOK
    <3>3. \A h \in Grabbers \ {g} : (Holding(h)' <=> Holding(h)) /\ buf'[h] = buf[h]
      BY <2>2, <3>1 DEF ReadOk, Holding, Goto, TypeOK
    <3>4. QED
      BY <3>0, <3>1, <3>2, <3>3
  <2>3. ASSUME NEW g \in Grabbers, DropFrame(g) PROVE NoBufferLeak'
    <3>1. live' = live \ {buf[g]} /\ lost' = lost \ {buf[g]}
      BY <2>3 DEF DropFrame
    <3>2. \A h \in Grabbers \ {g} : (Holding(h)' <=> Holding(h)) /\ buf'[h] = buf[h]
      BY <2>3 DEF DropFrame, Holding, Goto, TypeOK
    <3>3. QED
      BY <3>1, <3>2
  <2>4. CASE \/ \E o \in Operators : HdmiRequest(o) \/ HdmiStep(o) \/ HangUp(o)
             \/ Shutdown \/ UNCHANGED vars
    BY <2>4, PanelFrames DEF Holding
  <2>5. ASSUME NEW g \in Grabbers, ReadEmpty(g) PROVE NoBufferLeak'
    <3>1. \A h \in Grabbers : (Holding(h)' <=> Holding(h)) /\ buf'[h] = buf[h]
      BY <2>5 DEF ReadEmpty, Holding, Goto, TypeOK
    <3>2. QED
      BY <2>5, <3>1 DEF ReadEmpty
  <2>6. QED
    BY <2>1, <2>2, <2>3, <2>4, <2>5 DEF Next, Grab
<1>3. QED
  BY <1>1, <1>2, TypeCorrect, PTL DEF Spec

(* Until hardware that was up is first taken down, the buffer of a frame is *)
(* handed out and no other frame has it (KvmFrame and its drop).            *)
THEOREM FramesOwned == Spec => []FramesOwnedUntilReset
<1> USE DEF FramesOwnedUntilReset, FrameOwnsBuffer
<1>1. Init => FramesOwnedUntilReset
  BY DEF Init, Holding
<1>2. TypeOK /\ FramesOwnedUntilReset /\ [Next]_vars => FramesOwnedUntilReset'
  <2> SUFFICES ASSUME TypeOK, FramesOwnedUntilReset, [Next]_vars
               PROVE  FramesOwnedUntilReset'
    OBVIOUS
  <2>1. ASSUME NEW g \in Grabbers, Request(g) \/ (Grab(g) /\ ~ReadEmpty(g) /\ ~ReadOk(g) /\ ~DropFrame(g))
        PROVE  FramesOwnedUntilReset'
    BY <2>1, GrabSameFrames DEF SameFrames
  <2>2. ASSUME NEW g \in Grabbers, ReadOk(g) PROVE FramesOwnedUntilReset'
    <3>1. PICK b \in Bufs \ live : live' = live \cup {b} /\ buf' = [buf EXCEPT ![g] = b]
      BY <2>2 DEF ReadOk
    <3>2. buf'[g] = b /\ disturbed' = disturbed
      BY <2>2, <3>1 DEF ReadOk, TypeOK, env
    <3>3. \A h \in Grabbers \ {g} : (Holding(h)' <=> Holding(h)) /\ buf'[h] = buf[h]
      BY <2>2, <3>1 DEF ReadOk, Holding, Goto, TypeOK
    <3>4. QED
      BY <3>1, <3>2, <3>3
  <2>3. ASSUME NEW g \in Grabbers, DropFrame(g) PROVE FramesOwnedUntilReset'
    <3>1. live' = live \ {buf[g]} /\ disturbed' = disturbed
      BY <2>3 DEF DropFrame
    <3>2. Holding(g) /\ ~Holding(g)'
      BY <2>3 DEF DropFrame, Holding, Goto, TypeOK
    <3>3. \A h \in Grabbers \ {g} : (Holding(h)' <=> Holding(h)) /\ buf'[h] = buf[h]
      BY <2>3 DEF DropFrame, Holding, Goto, TypeOK
    <3>4. QED
      BY <3>1, <3>2, <3>3
  <2>4. CASE \/ \E o \in Operators : HdmiRequest(o) \/ HdmiStep(o) \/ HangUp(o)
             \/ Shutdown \/ UNCHANGED vars
    BY <2>4, PanelFrames DEF Holding
  <2>5. ASSUME NEW g \in Grabbers, ReadEmpty(g) PROVE FramesOwnedUntilReset'
    <3>1. /\ live \subseteq live' /\ disturbed' = disturbed
          /\ \A h \in Grabbers : (Holding(h)' <=> Holding(h)) /\ buf'[h] = buf[h]
      BY <2>5 DEF ReadEmpty, Holding, Goto, TypeOK
    <3>2. QED
      BY <3>1
  <2>6. QED
    BY <2>1, <2>2, <2>3, <2>4, <2>5 DEF Next, Grab
<1>3. QED
  BY <1>1, <1>2, TypeCorrect, PTL DEF Spec

(* A thread past ensure_initialized finds the hardware up until it has      *)
(* dropped its frame, as long as nothing took it down (get_mjpeg, get_h264).*)
ReadyThreads ==
    ~disturbed => \A g \in Grabbers :
        pc[g] \in {"wantRead", "settling", "reading", "holding", "copied"} => hw = "on"

LEMMA ReadyInvariant == Spec => []ReadyThreads
<1> USE DEF ReadyThreads
<1>1. Init => ReadyThreads
  BY DEF Init
<1>2. TypeOK /\ HardwareInv /\ ReadyThreads /\ [Next]_vars => ReadyThreads'
  <2> SUFFICES ASSUME TypeOK, HardwareInv, ReadyThreads, [Next]_vars PROVE ReadyThreads'
    OBVIOUS
  <2>0. (state = "Ready") <=> (hw = "on")
    BY DEF HardwareInv, StateIsHardware
  <2> USE DEF TypeOK, Goto, env
  <2>1. ASSUME NEW g \in Grabbers, Request(g) PROVE ReadyThreads'
    <3>1. \/ pc' = [pc EXCEPT ![g] = "wantRead"] /\ hw = "on"
          \/ \E step \in {"waiting", "wantInit"} : pc' = [pc EXCEPT ![g] = step]
      BY <2>0, <2>1 DEF Request
    <3>2. QED
      BY <2>1, <3>1 DEF Request
  <2>2. ASSUME NEW g \in Grabbers, WaitEnds(g) PROVE ReadyThreads'
    BY <2>0, <2>2 DEF WaitEnds
  <2>3. ASSUME NEW g \in Grabbers, BeginInit(g) PROVE ReadyThreads'
    BY <2>0, <2>3 DEF BeginInit
  <2>4. ASSUME NEW g \in Grabbers, FinishInit(g) PROVE ReadyThreads'
    BY <2>4 DEF FinishInit
  <2>5. ASSUME NEW g \in Grabbers,
               \/ BeginRead(g) \/ Settled(g) \/ ReadFails(g) \/ ReadEmpty(g) \/ ReadOk(g)
               \/ CopyFrame(g) \/ DropFrame(g)
        PROVE  ReadyThreads'
    BY <2>5 DEF BeginRead, Settled, ReadFails, ReadEmpty, ReadOk, CopyFrame, DropFrame
  <2>6. CASE \/ \E o \in Operators : HdmiRequest(o) \/ HdmiStep(o) \/ HangUp(o)
             \/ Shutdown \/ UNCHANGED vars
    BY <2>6, PanelFrames
  <2>7. QED
    BY <2>1, <2>2, <2>3, <2>4, <2>5, <2>6 DEF Next, Grab
<1>3. QED
  BY <1>1, <1>2, TypeCorrect, HardwareInductive, PTL DEF Spec

(* A read happens on hardware that is up, until it is first taken down.     *)
THEOREM ReadsUp == Spec => []ReadsUpUntilReset
<1>1. ReadyThreads => ReadsUpUntilReset
  BY DEF ReadyThreads, ReadsUpUntilReset
<1>2. QED
  BY <1>1, ReadyInvariant, PTL

(* Until that first time no frame is copied or freed while the hardware     *)
(* starts or is down: the crash that NoFreeWhileStarting is about takes a   *)
(* reset (into_bytes, KvmFrame::drop, reset_init_state).                    *)
THEOREM FramesUp == Spec => [](~disturbed => \A g \in Grabbers : Holding(g) => hw = "on")
<1>1. ReadyThreads => (~disturbed => \A g \in Grabbers : Holding(g) => hw = "on")
  BY DEF ReadyThreads, Holding
<1>2. QED
  BY <1>1, ReadyInvariant, PTL

(* The capture handle implements HardwareOwner (get_mjpeg, get_h264,        *)
(* ensure_initialized, reset_init_state, deinit): a thread is a user from   *)
(* its lock of KVM_LOCK to the unlock, and every step is a step of the      *)
(* owner or leaves it alone.                                                *)
THEOREM CaptureImplementsOwner == Spec => OwnerSpec
<1> DEFINE Inside(g) == pc[g] \in {"init", "settling", "reading"}
           User == {g \in Grabbers : Inside(g)}
<1>1. Init => Owner!Init
  BY DEF Init, Owner!Init
<1>2. TypeOK /\ HardwareInv /\ ReadyThreads /\ [Next]_vars => [Owner!Next]_(Owner!vars)
  <2> SUFFICES ASSUME TypeOK, HardwareInv, ReadyThreads, [Next]_vars
               PROVE  [Owner!Next]_(Owner!vars)
    OBVIOUS
  <2>a. /\ pc \in [Grabbers -> Steps] /\ Free \notin Grabbers
        /\ (state = "Ready") <=> (hw = "on")
        /\ (state = "Initializing") <=> (hw = "starting")
        /\ hw \in {"off", "starting", "on"} /\ disturbed \in BOOLEAN
    BY CaptureAssumption DEF TypeOK, HardwareInv, StateIsHardware
  (* A thread inside holds the lock, and a free lock is held by none. *)
  <2>b. ASSUME NEW g \in Grabbers, Inside(g) PROVE User = {g} /\ lock = g
    BY <2>b DEF HardwareInv, LockIsHeld
  <2>c. ASSUME lock = Free PROVE User = {} /\ hw # "starting"
    BY <2>a, <2>c DEF HardwareInv, LockIsHeld, StateIsHardware
  <2>d. ASSUME UNCHANGED <<hw, disturbed>>, User' = User PROVE UNCHANGED Owner!vars
    BY <2>d DEF Owner!vars
  <2>e. ASSUME NEW g \in Grabbers, NEW step, Goto(g, step)
        PROVE  User' = IF step \in {"init", "settling", "reading"} THEN User \cup {g}
                                                                  ELSE User \ {g}
    BY <2>a, <2>e DEF Goto
  <2>1. ASSUME NEW g \in Grabbers, Request(g) \/ WaitEnds(g) \/ CopyFrame(g) \/ DropFrame(g)
        PROVE  UNCHANGED Owner!vars
    <3>1. UNCHANGED <<hw, disturbed>> /\ ~Inside(g)
      BY <2>1 DEF Request, WaitEnds, CopyFrame, DropFrame, env
    <3>2. \E step : Goto(g, step) /\ step \notin {"init", "settling", "reading"}
      BY <2>1 DEF Request, WaitEnds, CopyFrame, DropFrame
    <3>3. QED
      BY <2>d, <2>e, <3>1, <3>2
  <2>2. ASSUME NEW g \in Grabbers, BeginInit(g) PROVE [Owner!Next]_(Owner!vars)
    <3>1. User = {} /\ hw # "starting" /\ ~Inside(g)
      BY <2>2, <2>c DEF BeginInit
    <3>2. CASE Goto(g, "init")
      <4>1. hw' = "starting" /\ hw = "off" /\ disturbed' = disturbed
        BY <2>2, <2>a, <3>1, <3>2 DEF BeginInit, Goto, TypeOK, env
      <4>2. User' = {g}
        BY <2>e, <3>1, <3>2
      <4>3. Owner!Start(g)
        BY <3>1, <4>1, <4>2 DEF Owner!Start
      <4>4. QED
        BY <4>3 DEF Owner!Next
    <3>3. CASE Goto(g, "wantRead") \/ Goto(g, "idle")
      <4>1. UNCHANGED <<hw, disturbed>>
        BY <2>2, <2>a, <3>3 DEF BeginInit, Goto, TypeOK, env
      <4>2. User' = User
        BY <2>e, <3>1, <3>3
      <4>3. QED
        BY <2>d, <4>1, <4>2
    <3>4. QED
      BY <2>2, <3>2, <3>3 DEF BeginInit
  <2>3. ASSUME NEW g \in Grabbers, FinishInit(g) PROVE Owner!Next
    <3>1. User = {g} /\ hw = "starting"
      BY <2>3, <2>a, <2>b DEF FinishInit, HardwareInv, StateIsHardware
    <3>2. User' = {} /\ hw' = "on" /\ disturbed' = disturbed
      BY <2>3, <2>e, <3>1 DEF FinishInit, env
    <3>3. Owner!Started(g)
      BY <3>1, <3>2 DEF Owner!Started
    <3>4. QED
      BY <3>3 DEF Owner!Next
  <2>4. ASSUME NEW g \in Grabbers, BeginRead(g) PROVE Owner!Next
    <3>1. User = {} /\ UNCHANGED <<hw, disturbed>>
      BY <2>4, <2>c DEF BeginRead, env
    <3>2. Goto(g, "reading") \/ Goto(g, "settling")
      BY <2>4 DEF BeginRead
    <3>3. User' = {g}
      BY <2>e, <3>1, <3>2
    <3>4. disturbed \/ hw = "on"
      BY <2>4 DEF BeginRead, ReadyThreads
    <3>5. Owner!Enter(g)
      BY <3>1, <3>3, <3>4 DEF Owner!Enter
    <3>6. QED
      BY <3>5 DEF Owner!Next
  <2>5. ASSUME NEW g \in Grabbers, Settled(g) PROVE UNCHANGED Owner!vars
    <3>1. Inside(g) /\ Goto(g, "reading") /\ UNCHANGED <<hw, disturbed>>
      BY <2>5 DEF Settled, env
    <3>2. User' = User
      BY <2>e, <3>1
    <3>3. QED
      BY <2>d, <3>1, <3>2
  <2>6. ASSUME NEW g \in Grabbers, ReadFails(g) \/ ReadEmpty(g) \/ ReadOk(g) PROVE Owner!Next
    <3>1. /\ Inside(g) /\ UNCHANGED <<hw, disturbed>>
          /\ Goto(g, "idle") \/ Goto(g, "holding")
      BY <2>6 DEF ReadFails, ReadEmpty, ReadOk, env
    <3>2. User = {g} /\ User' = {}
      BY <2>b, <2>e, <3>1
    <3>3. hw # "starting"
      BY <2>6, <2>a, <2>b, <3>1 DEF ReadFails, ReadEmpty, ReadOk, HardwareInv, LockIsHeld, StateIsHardware
    <3>4. Owner!Leave(g)
      BY <3>1, <3>2, <3>3 DEF Owner!Leave
    <3>5. QED
      BY <3>4 DEF Owner!Next
  <2>7. ASSUME lock = Free, UNCHANGED pc, disturbed' = (disturbed \/ state = "Ready"),
               IF state = "Ready" THEN hw' = "off" ELSE UNCHANGED hw
        PROVE  [Owner!Next]_(Owner!vars)
    <3>1. User = {} /\ User' = {}
      BY <2>7, <2>c
    <3>2. CASE state = "Ready"
      <4>1. Owner!TakeDown
        BY <2>7, <2>a, <3>1, <3>2 DEF Owner!TakeDown
      <4>2. QED
        BY <4>1 DEF Owner!Next
    <3>3. CASE state # "Ready"
      BY <2>7, <2>a, <2>d, <3>1, <3>3
    <3>4. QED
      BY <3>2, <3>3
  <2>8. ASSUME NEW o \in Operators, HdmiStep(o) PROVE [Owner!Next]_(Owner!vars)
    <3>1. CASE Head(todo[o]) = "reset"
      BY <2>7, <2>8, <3>1 DEF HdmiStep, ResetInitState
    <3>2. CASE Head(todo[o]) # "reset"
      <4>1. UNCHANGED <<pc, hw, disturbed>>
        BY <2>8, <3>2 DEF HdmiStep
      <4>2. QED
        BY <2>d, <4>1
    <3>3. QED
      BY <3>1, <3>2
  <2>9. CASE Shutdown
    BY <2>7, <2>9 DEF Shutdown
  <2>10. CASE UNCHANGED vars \/ \E o \in Operators : HdmiRequest(o) \/ HangUp(o)
    <3>1. UNCHANGED <<pc, hw, disturbed>>
      BY <2>10 DEF vars, HdmiRequest, HangUp, frames, env
    <3>2. QED
      BY <2>d, <3>1
  <2>11. QED
    BY <2>1, <2>2, <2>3, <2>4, <2>5, <2>6, <2>8, <2>9, <2>10 DEF Next, Grab
<1>3. QED
  BY <1>1, <1>2, TypeCorrect, HardwareInductive, ReadyInvariant, PTL
  DEF Spec, OwnerSpec, Owner!Spec

(* The double check under the lock: kvmv_init is never called on hardware   *)
(* that is up.                                                              *)
COROLLARY StartsOnce == Spec => [][hw' = "starting" => hw \in {"off", "starting"}]_hw
<1>1. [Owner!Next]_(Owner!vars) => [hw' = "starting" => hw \in {"off", "starting"}]_hw
  BY DEF Owner!Next, Owner!vars, Owner!Start, Owner!Started, Owner!Enter, Owner!Leave,
     Owner!TakeDown
<1>2. QED
  BY <1>1, CaptureImplementsOwner, PTL DEF OwnerSpec, Owner!Spec

-----------------------------------------------------------------------------
(* The marker file *)

(* Sequences of the lengths that the programs are put together from.        *)
LEMMA Concat11 ==
    ASSUME NEW a \in PanelSteps, NEW b \in PanelSteps
    PROVE  <<a>> \o <<b>> = <<a, b>>
<1> DEFINE s == <<a>>  t == <<b>>  u == <<a, b>>
<1>1. s \in Seq(PanelSteps) /\ t \in Seq(PanelSteps) /\ u \in Seq(PanelSteps)
  OBVIOUS
<1>2. Len(s \o t) = Len(u) /\ \A i \in 1..Len(u) : (s \o t)[i] = u[i]
  BY ConcatProperties
<1>3. s \o t \in Seq(PanelSteps)
  BY <1>1, ConcatProperties
<1> HIDE DEF s, t, u
<1>4. s \o t = u
  BY <1>1, <1>2, <1>3, SeqEqual
<1>5. QED
  BY <1>4 DEF s, t, u

LEMMA Concat21 ==
    ASSUME NEW a \in PanelSteps, NEW b \in PanelSteps, NEW c \in PanelSteps
    PROVE  <<a, b>> \o <<c>> = <<a, b, c>>
<1> DEFINE s == <<a, b>>  t == <<c>>  u == <<a, b, c>>
<1>1. s \in Seq(PanelSteps) /\ t \in Seq(PanelSteps) /\ u \in Seq(PanelSteps)
  OBVIOUS
<1>2. Len(s \o t) = Len(u) /\ \A i \in 1..Len(u) : (s \o t)[i] = u[i]
  BY ConcatProperties
<1>3. s \o t \in Seq(PanelSteps)
  BY <1>1, ConcatProperties
<1> HIDE DEF s, t, u
<1>4. s \o t = u
  BY <1>1, <1>2, <1>3, SeqEqual
<1>5. QED
  BY <1>4 DEF s, t, u

LEMMA Concat32 ==
    ASSUME NEW a \in PanelSteps, NEW b \in PanelSteps, NEW c \in PanelSteps,
           NEW d \in PanelSteps, NEW e \in PanelSteps
    PROVE  <<a, b, c>> \o <<d, e>> = <<a, b, c, d, e>>
<1> DEFINE s == <<a, b, c>>  t == <<d, e>>  u == <<a, b, c, d, e>>
<1>1. s \in Seq(PanelSteps) /\ t \in Seq(PanelSteps) /\ u \in Seq(PanelSteps)
  OBVIOUS
<1>2. Len(s \o t) = Len(u) /\ \A i \in 1..Len(u) : (s \o t)[i] = u[i]
  BY ConcatProperties
<1>3. s \o t \in Seq(PanelSteps)
  BY <1>1, ConcatProperties
<1> HIDE DEF s, t, u
<1>4. s \o t = u
  BY <1>1, <1>2, <1>3, SeqEqual
<1>5. QED
  BY <1>4 DEF s, t, u

LEMMA ConcatReset ==
    <<"reset", "hdmiOff", "sleep", "hdmiOn", "reset">> \o <<"clearFlag">>
        = <<"reset", "hdmiOff", "sleep", "hdmiOn", "reset", "clearFlag">>
<1> DEFINE s == <<"reset", "hdmiOff", "sleep", "hdmiOn", "reset">>  t == <<"clearFlag">>
           u == <<"reset", "hdmiOff", "sleep", "hdmiOn", "reset", "clearFlag">>
<1>1. s \in Seq(PanelSteps) /\ t \in Seq(PanelSteps) /\ u \in Seq(PanelSteps)
  BY DEF PanelSteps
<1>2. Len(s \o t) = Len(u) /\ \A i \in 1..Len(u) : (s \o t)[i] = u[i]
  BY ConcatProperties
<1>3. s \o t \in Seq(PanelSteps)
  BY <1>1, ConcatProperties
<1> HIDE DEF s, t, u
<1>4. s \o t = u
  BY <1>1, <1>2, <1>3, SeqEqual
<1>5. QED
  BY <1>4 DEF s, t, u

(* The handlers' steps with the library.                                    *)
LEMMA ProgramSteps ==
    ASSUME libLoaded
    PROVE  /\ Program("reset") = <<"reset", "hdmiOff", "sleep", "hdmiOn", "reset", "clearFlag">>
           /\ Program("enable") = <<"hdmiOn", "reset", "clearFlag">>
           /\ Program("disable") = <<"hdmiOff", "setFlag">>
<1>1. SetHdmi(TRUE) = <<"hdmiOn", "reset">> /\ SetHdmi(FALSE) = <<"hdmiOff">>
  BY DEF SetHdmi
<1>2. /\ <<"reset">> \o <<"hdmiOff">> = <<"reset", "hdmiOff">>
      /\ <<"hdmiOff">> \o <<"setFlag">> = <<"hdmiOff", "setFlag">>
  BY Concat11 DEF PanelSteps
<1>3. /\ <<"reset", "hdmiOff">> \o <<"sleep">> = <<"reset", "hdmiOff", "sleep">>
      /\ <<"hdmiOn", "reset">> \o <<"clearFlag">> = <<"hdmiOn", "reset", "clearFlag">>
  BY Concat21 DEF PanelSteps
<1>4. <<"reset", "hdmiOff", "sleep">> \o <<"hdmiOn", "reset">>
         = <<"reset", "hdmiOff", "sleep", "hdmiOn", "reset">>
  BY Concat32 DEF PanelSteps
<1>5. <<"reset", "hdmiOff", "sleep", "hdmiOn", "reset">> \o <<"clearFlag">>
         = <<"reset", "hdmiOff", "sleep", "hdmiOn", "reset", "clearFlag">>
  BY ConcatReset
<1>6. QED
  BY <1>1, <1>2, <1>3, <1>4, <1>5 DEF Program

(* What is left of a request makes output and marker agree in the end.      *)
Mends(steps) ==
    \/ steps = <<>> /\ (abandoned \/ (flag <=> ~hdmi))
    \/ steps = <<"setFlag">> /\ ~hdmi
    \/ steps \in {<<"clearFlag">>, <<"reset", "clearFlag">>} /\ hdmi
    \/ steps \in {<<"hdmiOn", "reset", "clearFlag">>, <<"hdmiOff", "setFlag">>,
                  <<"sleep", "hdmiOn", "reset", "clearFlag">>,
                  <<"hdmiOff", "sleep", "hdmiOn", "reset", "clearFlag">>,
                  <<"reset", "hdmiOff", "sleep", "hdmiOn", "reset", "clearFlag">>}

MendsInv == libLoaded => \A o \in Operators : Mends(todo[o])

(* One step of the only operator.                                           *)
LEMMA StepMends ==
    ASSUME TypeOK, NEW o \in Operators, Mends(todo[o]), HdmiStep(o)
    PROVE  Mends(todo[o])'
<1> DEFINE step == Head(todo[o])
<1>1. /\ todo'[o] = Tail(todo[o]) /\ todo[o] # <<>>
      /\ hdmi' = CASE step = "hdmiOn" -> TRUE [] step = "hdmiOff" -> FALSE [] OTHER -> hdmi
      /\ flag' = CASE step = "setFlag" -> TRUE [] step = "clearFlag" -> FALSE [] OTHER -> flag
  BY DEF HdmiStep, TypeOK
<1>2. CASE todo[o] = <<"setFlag">> /\ ~hdmi
  <2>1. Tail(todo[o]) = <<>> /\ step = "setFlag"
    BY <1>2
  <2>2. QED
    BY <1>1, <1>2, <2>1 DEF Mends
<1>3. CASE todo[o] = <<"clearFlag">> /\ hdmi
  <2>1. Tail(todo[o]) = <<>> /\ step = "clearFlag"
    BY <1>3
  <2>2. QED
    BY <1>1, <1>3, <2>1 DEF Mends
<1>4. CASE todo[o] = <<"reset", "clearFlag">> /\ hdmi
  <2>1. Tail(todo[o]) = <<"clearFlag">> /\ step = "reset"
    BY <1>4
  <2>2. QED
    BY <1>1, <1>4, <2>1 DEF Mends
<1>5. CASE todo[o] = <<"hdmiOn", "reset", "clearFlag">>
  <2>1. Tail(todo[o]) = <<"reset", "clearFlag">> /\ step = "hdmiOn"
    BY <1>5
  <2>2. QED
    BY <1>1, <2>1 DEF Mends
<1>6. CASE todo[o] = <<"hdmiOff", "setFlag">>
  <2>1. Tail(todo[o]) = <<"setFlag">> /\ step = "hdmiOff"
    BY <1>6
  <2>2. QED
    BY <1>1, <2>1 DEF Mends
<1>7. CASE todo[o] = <<"sleep", "hdmiOn", "reset", "clearFlag">>
  <2>1. Tail(todo[o]) = <<"hdmiOn", "reset", "clearFlag">>
    BY <1>7
  <2>2. QED
    BY <1>1, <2>1 DEF Mends
<1>8. CASE todo[o] = <<"hdmiOff", "sleep", "hdmiOn", "reset", "clearFlag">>
  <2>1. Tail(todo[o]) = <<"sleep", "hdmiOn", "reset", "clearFlag">>
    BY <1>8
  <2>2. QED
    BY <1>1, <2>1 DEF Mends
<1>9. CASE todo[o] = <<"reset", "hdmiOff", "sleep", "hdmiOn", "reset", "clearFlag">>
  <2>1. Tail(todo[o]) = <<"hdmiOff", "sleep", "hdmiOn", "reset", "clearFlag">>
    BY <1>9
  <2>2. QED
    BY <1>1, <2>1 DEF Mends
<1>10. QED
  BY <1>1, <1>2, <1>3, <1>4, <1>5, <1>6, <1>7, <1>8, <1>9 DEF Mends

(* With HDMI requests one at a time, whatever the capture threads and the   *)
(* shutdown do meanwhile, output and marker agree once a request was served *)
(* (reset_hdmi_handler, enable_hdmi_handler, disable_hdmi_handler).         *)
THEOREM FlagTruthful ==
    ASSUME NEW only, Operators = {only}
    PROVE  Spec => []HdmiFlagTruthful
<1>1. Init => MendsInv
  BY DEF Init, MendsInv, Mends
<1>2. TypeOK /\ MendsInv /\ [Next]_vars => MendsInv'
  <2> SUFFICES ASSUME TypeOK, MendsInv, [Next]_vars, libLoaded' PROVE Mends(todo[only])'
    BY DEF MendsInv
  <2> USE DEF frames, panel, env
  <2>0. libLoaded
    BY DEF Next, Grab, Request, WaitEnds, BeginInit, FinishInit, BeginRead, Settled, ReadFails,
       ReadEmpty, ReadOk, CopyFrame, DropFrame, HdmiRequest, HdmiStep, HangUp, Shutdown, vars
  <2>1. Mends(todo[only])
    BY <2>0 DEF MendsInv
  <2>2. CASE UNCHANGED panel
    BY <2>1, <2>2 DEF Mends
  <2>3. CASE HdmiRequest(only)
    <3>1. PICK r \in Requests : todo' = [todo EXCEPT ![only] = Program(r)]
      BY <2>3 DEF HdmiRequest
    <3>2. todo'[only] = Program(r) /\ r \in {"reset", "enable", "disable"}
      BY <3>1, CaptureAssumption DEF TypeOK
    <3>3. QED
      BY <2>0, <3>2, ProgramSteps DEF Mends
  <2>4. CASE HdmiStep(only)
    BY <2>1, <2>4, StepMends
  <2>5. CASE HangUp(only)
    BY <2>5 DEF HangUp, Mends, TypeOK
  <2>6. QED
    BY <2>2, <2>3, <2>4, <2>5
    DEF Next, Grab, Request, WaitEnds, BeginInit, FinishInit, BeginRead, Settled, ReadFails,
       ReadEmpty, ReadOk, CopyFrame, DropFrame, Shutdown, vars
<1>3. MendsInv => HdmiFlagTruthful
  <2> SUFFICES ASSUME MendsInv, libLoaded, ~abandoned, todo[only] = <<>> PROVE flag <=> ~hdmi
    BY DEF HdmiFlagTruthful
  <2>1. Mends(<<>>)
    BY DEF MendsInv
  <2>2. QED
    BY <2>1 DEF Mends
<1>4. QED
  BY <1>1, <1>2, <1>3, TypeCorrect, PTL DEF Spec
=============================================================================
