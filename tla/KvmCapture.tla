----------------------------- MODULE KvmCapture -----------------------------
(***************************************************************************)
(* The capture hardware handle (kvm/src/lib.rs) and the threads that use   *)
(* it: blocking threads of the MJPEG loop, the H.264 loop and the SPS/PPS  *)
(* prefetch, the HDMI handlers (server/src/vm.rs) and the shutdown hook.   *)
(*                                                                         *)
(* KVM_LOCK guards initialisation, reading and resetting, but every thread *)
(* decides what to do from an unlocked look at KVM_STATE, lets the lock go *)
(* between ensure_initialized and the read, and frees its frame without    *)
(* the lock.  libkvm is external: hw is what it is doing, live the frame   *)
(* buffers it has handed out; one library call is one step (kvm-sys holds  *)
(* a mutex across each call).  The two second wait after kvmv_init, during *)
(* which the library goes on starting, is the stage "starting" of hw.      *)
(***************************************************************************)
EXTENDS Naturals, Sequences, FiniteSets

CONSTANTS
    Grabbers,    (* threads that ask for frames                            *)
    ModeOf,      (* ModeOf[g]: the encoder mode thread g asks for          *)
    Operators,   (* HDMI requests, one after the other each                *)
    Requests,    (* which HDMI requests are sent: reset, enable, disable   *)
    Bufs,        (* frame buffers of the library                           *)
    RetryLimit,  (* read failures after which Failed is final (5)          *)
    MayShutDown, (* a termination signal may come                          *)
    Free         (* nobody, or no buffer                                   *)

ASSUME CaptureAssumption ==
    /\ ModeOf \in [Grabbers -> {"Mjpeg", "H264"}]
    /\ Requests \subseteq {"reset", "enable", "disable"}
    /\ MayShutDown \in BOOLEAN
    /\ RetryLimit \in Nat
    /\ Free \notin Grabbers \cup Bufs

VARIABLES
    state,     (* KVM_STATE                                                *)
    mode,      (* ENCODER_MODE                                             *)
    failures,  (* init_failures, counted up to RetryLimit                  *)
    lock,      (* holder of KVM_LOCK across several steps, or Free         *)
    hw,        (* the library: off, starting or on                         *)
    live,      (* buffers handed out and not yet freed                     *)
    pc,        (* where each grabber is                                    *)
    buf,       (* the buffer of the KvmFrame each grabber holds            *)
    hdmi,      (* the HDMI output                                          *)
    flag,      (* HDMI_DISABLE_FILE exists                                 *)
    todo,      (* steps left of the HDMI request of each operator          *)
    abandoned, (* an operator hung up in the middle of the last request    *)
    stopped,   (* the shutdown hook has run                                *)
    libLoaded, (* libkvm.so was found, once and for all                    *)
    lost,      (* history: live buffers that an empty read left to nobody  *)
    disturbed  (* history: hardware that was up has been taken down        *)

frames == <<live, pc, buf>>
panel == <<hdmi, flag, todo, abandoned>>
env == <<stopped, libLoaded, lost, disturbed>>
vars == <<state, mode, failures, lock, hw, frames, panel, env>>

Steps == {"idle", "waiting", "wantInit", "init", "wantRead", "settling", "reading", "holding", "copied"}
PanelSteps == {"reset", "hdmiOn", "hdmiOff", "sleep", "setFlag", "clearFlag"}

(* Thread g has a KvmFrame. *)
Holding(g) == pc[g] \in {"holding", "copied"}

TypeOK ==
    /\ state \in {"NotStarted", "Initializing", "Ready", "Failed"}
    /\ mode \in {"None", "Mjpeg", "H264"}
    /\ failures \in 0..RetryLimit
    /\ lock \in Grabbers \cup {Free}
    /\ hw \in {"off", "starting", "on"}
    /\ live \in SUBSET Bufs /\ lost \in SUBSET Bufs
    /\ pc \in [Grabbers -> Steps]
    /\ buf \in [Grabbers -> Bufs \cup {Free}]
    /\ \A g \in Grabbers : Holding(g) <=> buf[g] # Free
    /\ hdmi \in BOOLEAN /\ flag \in BOOLEAN
    /\ todo \in [Operators -> Seq(PanelSteps)]
    /\ abandoned \in BOOLEAN /\ stopped \in BOOLEAN
    /\ libLoaded \in BOOLEAN /\ disturbed \in BOOLEAN

Init ==
    /\ state = "NotStarted" /\ mode = "None" /\ failures = 0
    /\ lock = Free
    /\ hw = "off"
    /\ live = {} /\ lost = {}
    /\ pc = [g \in Grabbers |-> "idle"]
    /\ buf = [g \in Grabbers |-> Free]
    /\ hdmi = TRUE /\ flag = FALSE
    /\ todo = [o \in Operators |-> <<>>]
    /\ abandoned = FALSE /\ stopped = FALSE
    /\ libLoaded \in BOOLEAN /\ disturbed = FALSE

Goto(g, step) == pc' = [pc EXCEPT ![g] = step]

-----------------------------------------------------------------------------
(* ensure_initialized *)

(* The unlocked look at KVM_STATE that starts every frame request. *)
Request(g) ==
    /\ pc[g] = "idle"
    /\ \/ state = "Ready" /\ Goto(g, "wantRead")
       \/ state = "Initializing" /\ Goto(g, "waiting")
       \/ /\ state \in {"NotStarted", "Failed"}
          /\ state = "Failed" => failures < RetryLimit
          /\ Goto(g, "wantInit")
    /\ UNCHANGED <<state, mode, failures, lock, hw, live, buf, panel, env>>

(* 50 ms later: ready, or the request fails. *)
WaitEnds(g) ==
    /\ pc[g] = "waiting"
    /\ Goto(g, IF state = "Ready" THEN "wantRead" ELSE "idle")
    /\ UNCHANGED <<state, mode, failures, lock, hw, live, buf, panel, env>>

(* What the mutants of the runs change. *)
BeginInitNoDoubleCheck(g) ==
    /\ pc[g] = "wantInit" /\ lock = Free
    /\ state' = "Initializing" /\ lock' = g /\ hw' = "starting"
    /\ Goto(g, "init")
    /\ UNCHANGED <<mode, failures, live, buf, panel, env>>

(* With the lock: another thread may have finished first, the library may  *)
(* be missing, or this thread starts the hardware and keeps the lock.      *)
BeginInit(g) ==
    /\ pc[g] = "wantInit" /\ lock = Free
    /\ \/ /\ state = "Ready"
          /\ Goto(g, "wantRead")
          /\ UNCHANGED <<state, lock, hw>>
       \/ /\ state # "Ready" /\ ~libLoaded
          /\ state' = "Failed"
          /\ Goto(g, "idle")
          /\ UNCHANGED <<lock, hw>>
       \/ /\ state # "Ready" /\ libLoaded
          /\ state' = "Initializing"
          /\ lock' = g
          /\ hw' = "starting"
          /\ Goto(g, "init")
    /\ UNCHANGED <<mode, failures, live, buf, panel, env>>

FinishInitTooSoon(g) ==
    /\ pc[g] = "init"
    /\ state' = "Ready" /\ failures' = 0 /\ lock' = Free
    /\ Goto(g, "wantRead")
    /\ UNCHANGED <<mode, hw, live, buf, panel, env>>

FinishInitKeepsState(g) ==
    /\ pc[g] = "init"
    /\ hw' = "on" /\ failures' = 0 /\ lock' = Free
    /\ Goto(g, "wantRead")
    /\ UNCHANGED <<state, mode, live, buf, panel, env>>

FinishInitKeepsLock(g) ==
    /\ pc[g] = "init"
    /\ state' = "Ready" /\ hw' = "on" /\ failures' = 0
    /\ Goto(g, "wantRead")
    /\ UNCHANGED <<mode, lock, live, buf, panel, env>>

(* Two seconds later the hardware is up. *)
FinishInit(g) ==
    /\ pc[g] = "init"
    /\ state' = "Ready" /\ hw' = "on" /\ failures' = 0
    /\ lock' = Free
    /\ Goto(g, "wantRead")
    /\ UNCHANGED <<mode, live, buf, panel, env>>

-----------------------------------------------------------------------------
(* get_mjpeg and get_h264 after ensure_initialized *)

(* switch_encoder_mode_locked: a change from one encoder to the other      *)
(* sleeps with the lock held before the new mode is stored.                *)
BeginRead(g) ==
    /\ pc[g] = "wantRead" /\ lock = Free
    /\ lock' = g
    /\ IF mode \in {ModeOf[g], "None"}
       THEN mode' = ModeOf[g] /\ Goto(g, "reading")
       ELSE UNCHANGED mode /\ Goto(g, "settling")
    /\ UNCHANGED <<state, failures, hw, live, buf, panel, env>>

Settled(g) ==
    /\ pc[g] = "settling"
    /\ mode' = ModeOf[g]
    /\ Goto(g, "reading")
    /\ UNCHANGED <<state, failures, lock, hw, live, buf, panel, env>>

(* read_img fails: HDMI and encoder errors are counted, others are not; a  *)
(* null frame is an error too, after the count was reset.  The count is a  *)
(* u8 in the code; here it stops at the only value it is compared to.      *)
ReadFails(g) ==
    /\ pc[g] = "reading"
    /\ \/ failures' \in {failures, 0}
       \/ failures' = IF failures < RetryLimit THEN failures + 1 ELSE failures
    /\ lock' = Free
    /\ Goto(g, "idle")
    /\ UNCHANGED <<state, mode, hw, live, buf, panel, env>>

(* A buffer with nothing in it is an error as well: the pointer is dropped *)
(* without free_kvmv_data, and only a reset gives the buffer back.         *)
ReadEmpty(g) ==
    /\ pc[g] = "reading"
    /\ \E b \in Bufs \ live : live' = live \cup {b} /\ lost' = lost \cup {b}
    /\ failures' = 0
    /\ lock' = Free
    /\ Goto(g, "idle")
    /\ UNCHANGED <<state, mode, hw, buf, panel, stopped, libLoaded, disturbed>>

ReadOkUnchecked(g) ==
    /\ pc[g] = "reading"
    /\ \E b \in (Bufs \ live) \cup {Free} :
          /\ live' = live \cup ({b} \ {Free})
          /\ buf' = [buf EXCEPT ![g] = b]
    /\ failures' = 0
    /\ lock' = Free
    /\ Goto(g, "holding")
    /\ UNCHANGED <<state, mode, hw, panel, env>>

(* read_img returns a frame in a buffer the library had free. *)
ReadOk(g) ==
    /\ pc[g] = "reading"
    /\ \E b \in Bufs \ live :
          /\ live' = live \cup {b}
          /\ buf' = [buf EXCEPT ![g] = b]
    /\ failures' = 0
    /\ lock' = Free
    /\ Goto(g, "holding")
    /\ UNCHANGED <<state, mode, hw, panel, env>>

FreeFrameEarly(g) ==
    /\ pc[g] = "holding"
    /\ live' = live \ {buf[g]}
    /\ Goto(g, "copied")
    /\ UNCHANGED <<state, mode, failures, lock, hw, buf, panel, env>>

(* into_bytes copies the frame, without the lock ... *)
CopyFrame(g) ==
    /\ pc[g] = "holding"
    /\ Goto(g, "copied")
    /\ UNCHANGED <<state, mode, failures, lock, hw, live, buf, panel, env>>

DropFrameLeaks(g) ==
    /\ pc[g] = "copied"
    /\ buf' = [buf EXCEPT ![g] = Free]
    /\ Goto(g, "idle")
    /\ UNCHANGED <<state, mode, failures, lock, hw, live, panel, env>>

(* ... and its drop frees the buffer, without the lock. *)
DropFrame(g) ==
    /\ pc[g] = "copied"
    /\ live' = live \ {buf[g]} /\ lost' = lost \ {buf[g]}
    /\ buf' = [buf EXCEPT ![g] = Free]
    /\ Goto(g, "idle")
    /\ UNCHANGED <<state, mode, failures, lock, hw, panel, stopped, libLoaded, disturbed>>

-----------------------------------------------------------------------------
(* Resetting *)

(* reset_init_state: frees every buffer and stops the hardware. *)
ResetInitState ==
    /\ lock = Free
    /\ IF state = "Ready"
       THEN live' = {} /\ lost' = {} /\ hw' = "off"
       ELSE UNCHANGED <<live, lost, hw>>
    /\ state' = "NotStarted" /\ mode' = "None" /\ failures' = 0
    /\ disturbed' = (disturbed \/ state = "Ready")

(* set_hdmi does nothing without the library; set_hdmi(true) resets.       *)
SetHdmi(enable) ==
    IF ~libLoaded THEN <<>> ELSE IF enable THEN <<"hdmiOn", "reset">> ELSE <<"hdmiOff">>

ProgramWithoutFlag(request) ==
    [reset   |-> <<"reset">> \o SetHdmi(FALSE) \o <<"sleep">> \o SetHdmi(TRUE) \o <<"clearFlag">>,
     enable  |-> SetHdmi(TRUE) \o <<"clearFlag">>,
     disable |-> SetHdmi(FALSE)][request]

(* The HDMI handlers. *)
Program(request) ==
    [reset   |-> <<"reset">> \o SetHdmi(FALSE) \o <<"sleep">> \o SetHdmi(TRUE) \o <<"clearFlag">>,
     enable  |-> SetHdmi(TRUE) \o <<"clearFlag">>,
     disable |-> SetHdmi(FALSE) \o <<"setFlag">>][request]

HdmiRequest(o) ==
    /\ todo[o] = <<>>
    /\ \E r \in Requests : todo' = [todo EXCEPT ![o] = Program(r)]
    /\ UNCHANGED <<state, mode, failures, lock, hw, frames, hdmi, flag, abandoned, env>>

(* A request served to its end also mends what an abandoned one left.      *)
HdmiStep(o) ==
    /\ todo[o] # <<>>
    /\ todo' = [todo EXCEPT ![o] = Tail(@)]
    /\ LET step == Head(todo[o]) IN
       /\ IF step = "reset"
          THEN ResetInitState
          ELSE UNCHANGED <<state, mode, failures, hw, live, lost, disturbed>>
       /\ hdmi' = CASE step = "hdmiOn" -> TRUE [] step = "hdmiOff" -> FALSE [] OTHER -> hdmi
       /\ flag' = CASE step = "setFlag" -> TRUE [] step = "clearFlag" -> FALSE [] OTHER -> flag
       /\ abandoned' = (abandoned /\ todo'[o] # <<>>)
    /\ UNCHANGED <<lock, pc, buf, stopped, libLoaded>>

(* The client goes away during the reset's one second sleep, which drops   *)
(* the handler and leaves the output off.  The file operations run on a    *)
(* blocking thread and finish even then.                                   *)
HangUp(o) ==
    /\ todo[o] # <<>> /\ Head(todo[o]) = "sleep"
    /\ todo' = [todo EXCEPT ![o] = <<>>]
    /\ abandoned' = TRUE
    /\ UNCHANGED <<state, mode, failures, lock, hw, frames, hdmi, flag, env>>

(* Kvm::deinit, run by shutdown_signal; the capture loops go on. *)
Shutdown ==
    /\ MayShutDown /\ ~stopped
    /\ lock = Free
    /\ IF state = "Ready"
       THEN live' = {} /\ lost' = {} /\ hw' = "off" /\ state' = "NotStarted" /\ mode' = "None"
       ELSE UNCHANGED <<live, lost, hw, state, mode>>
    /\ stopped' = TRUE
    /\ disturbed' = (disturbed \/ state = "Ready")
    /\ UNCHANGED <<failures, lock, pc, buf, panel, libLoaded>>

-----------------------------------------------------------------------------
Grab(g) ==
    \/ WaitEnds(g) \/ BeginInit(g) \/ FinishInit(g)
    \/ BeginRead(g) \/ Settled(g) \/ ReadFails(g) \/ ReadEmpty(g) \/ ReadOk(g)
    \/ CopyFrame(g) \/ DropFrame(g)

Next ==
    \/ \E g \in Grabbers : Request(g) \/ Grab(g)
    \/ \E o \in Operators : HdmiRequest(o) \/ HdmiStep(o) \/ HangUp(o)
    \/ Shutdown

Spec == Init /\ [][Next]_vars

(* Threads are scheduled, and a waiter for a parking_lot mutex gets it in  *)
(* the end: strong fairness on taking the lock, weak on the other steps.   *)
Fairness ==
    \A g \in Grabbers :
        /\ WF_vars(Grab(g))
        /\ SF_vars(BeginInit(g)) /\ SF_vars(BeginRead(g))

FairSpec == Spec /\ Fairness

-----------------------------------------------------------------------------
(* Properties. *)

(* Whenever nobody holds KVM_LOCK, KVM_STATE tells the truth about the     *)
(* hardware and no thread has left it Initializing for ever.               *)
StateTellsHardware ==
    lock = Free => /\ state # "Initializing"
                   /\ (state = "Ready") <=> (hw = "on")
                   /\ hw # "starting"

(* A buffer the library has handed out belongs to a frame some thread will *)
(* drop, so that buffers are not exhausted (comment at kvm/src/lib.rs 105),*)
(* with one exception: the buffer of a read of size 0, which nobody frees  *)
(* until the hardware is reset (409-411).                                  *)
NoBufferLeak == live \subseteq {buf[g] : g \in {h \in Grabbers : Holding(h)}} \cup lost

(* The memory behind a frame is not freed while the frame exists, and no   *)
(* other frame has it: what the unsafe slices and the Send/Sync of KvmFrame*)
(* need (kvm/src/lib.rs 65, 110, 130).  It holds until the first reset.    *)
FrameOwnsBuffer ==
    \A g \in Grabbers : Holding(g) =>
        /\ buf[g] \in live
        /\ \A h \in Grabbers \ {g} : Holding(h) => buf[h] # buf[g]

FramesOwnedUntilReset == ~disturbed => FrameOwnsBuffer

(* kvmv_read_img is only called on initialised hardware, which is why      *)
(* ensure_initialized comes first (kvm/src/lib.rs 198, 350): it does   *)
(* until the first reset.                                                  *)
ReadsUpUntilReset == ~disturbed => \A g \in Grabbers : pc[g] = "reading" => hw = "on"

(* "Calling free while MMF is reinitializing causes SIGSEGV": no buffer is *)
(* freed while the hardware starts (kvm/src/lib.rs 336).                   *)
NoFreeWhileStarting ==
    [][\A g \in Grabbers : (pc[g] = "copied" /\ pc'[g] = "idle") => hw # "starting"]_pc

(* With the library and one HDMI request at a time: when none is being     *)
(* served and the last was not abandoned half way, the marker file that    *)
(* the status request reads agrees with the output (server/src/vm.rs       *)
(* 1259-1293).  Requests that cross may leave it wrong.                    *)
HdmiFlagTruthful ==
    (libLoaded /\ ~abandoned /\ \A o \in Operators : todo[o] = <<>>) => (flag <=> ~hdmi)

(* Without the library nothing is ever started, however often frames and   *)
(* resets are asked for: no request goes past initialisation.              *)
NoLibraryNoFrames ==
    ~libLoaded => /\ hw = "off" /\ lock = Free
                  /\ \A g \in Grabbers : pc[g] \in {"idle", "wantInit"}

(* Every frame request returns: nobody waits for the lock for ever. *)
RequestReturns == \A g \in Grabbers : pc[g] # "idle" ~> pc[g] = "idle"

(* The threads between a lock and an unlock of KVM_LOCK are the users of   *)
(* the hardware.  With this, threads that raced through the unlocked look  *)
(* at KVM_STATE do not start it twice, no two of them are in the library's *)
(* start or read together, and no reset comes between (kvm/src/lib.rs      *)
(* 246-314, 349-366).                                                     *)
Owner == INSTANCE HardwareOwner WITH
    Users <- Grabbers,
    using <- {g \in Grabbers : pc[g] \in {"init", "settling", "reading"}},
    taken <- disturbed
OwnerSpec == Owner!Spec
=============================================================================
