------------------------------- MODULE HidBus -------------------------------
(***************************************************************************)
(* The USB keyboard and mice (hid/src/lib.rs), the sockets that send       *)
(* reports to them (main.rs handle_socket), pasted text (hid.rs) and the   *)
(* mouse jiggler (vm/src/jiggler.rs).  All use one HidEngine under a       *)
(* mutex.  A write returns when its report is handed to a blocking thread, *)
(* where it stays until the USB host fetches it; the next write to the     *)
(* device waits at most 5 ms for that, then drops its own report.  A       *)
(* report is the code of the one key or button it presses.                 *)
(***************************************************************************)
EXTENDS Integers, Sequences, FiniteSets

CONSTANTS
    Sockets,   (* connections of /api/ws                                   *)
    Devices,   (* /dev/hidg0 is "keyboard", the others are mice            *)
    Keys,      (* codes that sockets send                                  *)
    Texts      (* what is pasted, as sequences of characters               *)

ASSUME HidAssumption ==
    /\ "keyboard" \in Devices /\ "off" \notin Devices
    /\ Keys \subseteq Nat \ {0}
    /\ Sockets \cap {"free", "paste", "jiggler"} = {}
    /\ Texts \subseteq Seq(STRING)

Mice == Devices \ {"keyboard"}
Up == 0
Reports == Nat
Free == -1
Failed == -2
Skip == -3

VARIABLES
    open,      (* the device's file is open                                *)
    flight,    (* the report its blocking thread holds                     *)
    host,      (* the key or button that is down for the host              *)
    lock,      (* who holds the engine's mutex                             *)
    socket,    (* where each socket is                                     *)
    left,      (* devices a closing socket has still to release            *)
    strokes,   (* the reports of the paste under way, two for a character  *)
    stroke,    (* how many of them are done                                *)
    active,    (* a socket has sent something in the last 15 seconds       *)
    jiggle,    (* JIGGLER_CONFIG_FILE: the mouse to move, or "off"         *)
    moving,    (* the mouse the jiggler has decided to move                *)
    lost,      (* history: the last report for the device was dropped      *)
    before,    (* history: what was in flight when the paste began         *)
    typed,     (* history: what the host got from the keyboard since       *)
    torn       (* history: one of these was dropped                        *)

paste == <<strokes, stroke, before, typed, torn>>
jiggler == <<active, jiggle, moving>>
hid == <<open, flight, host, lock, socket, left, lost, paste, jiggler>>

HidTypeOK ==
    /\ open \in [Devices -> BOOLEAN]
    /\ flight \in [Devices -> Reports \cup {Free, Failed}]
    /\ host \in [Devices -> Reports]
    /\ lock \in {"free", "paste", "jiggler"} \cup Sockets
    /\ socket \in [Sockets -> {"closed", "open", "ended"}]
    /\ left \subseteq Devices
    /\ strokes \in Seq(Reports \cup {Skip}) /\ stroke \in 0..Len(strokes)
    /\ active \in BOOLEAN
    /\ jiggle \in Mice \cup {"off"} /\ moving \in Mice \cup {"off"}
    /\ lost \in [Devices -> BOOLEAN]
    /\ before \in Seq(Reports) /\ typed \in Seq(Reports) /\ torn \in BOOLEAN

HidInit ==
    /\ open \in [Devices -> BOOLEAN]
    /\ flight = [d \in Devices |-> Free]
    /\ host = [d \in Devices |-> Up]
    /\ lock = "free"
    /\ socket = [s \in Sockets |-> "closed"]
    /\ left = {}
    /\ strokes = <<>> /\ stroke = 0
    /\ before = <<>> /\ typed = <<>> /\ torn = FALSE
    /\ active = TRUE /\ jiggle = "off" /\ moving = "off"
    /\ lost = [d \in Devices |-> FALSE]

-----------------------------------------------------------------------------
(* The engine *)

InFlight(d) == flight[d] \in Reports

(* write_with_timeout: the report is accepted, *)
Accepted(d, r) ==
    /\ open[d] /\ flight[d] = Free
    /\ flight' = [flight EXCEPT ![d] = r]
    /\ lost' = [lost EXCEPT ![d] = FALSE]
    /\ UNCHANGED open

(* or 5 ms pass before the one ahead of it is fetched; *)
TimedOut(d) ==
    /\ open[d] /\ InFlight(d)
    /\ lost' = [lost EXCEPT ![d] = TRUE]
    /\ UNCHANGED <<open, flight>>

(* send_keyboard and send_mouse: after an error the device is opened once  *)
(* more, and this report written again.                                    *)
Reopen(d, r) ==
    /\ ~open[d] \/ flight[d] = Failed
    /\ \E opens \in BOOLEAN :
          /\ open' = [open EXCEPT ![d] = opens]
          /\ flight' = [flight EXCEPT ![d] = IF opens THEN r ELSE Free]
          /\ lost' = [lost EXCEPT ![d] = ~opens]

Write(d, r) == Accepted(d, r) \/ TimedOut(d) \/ Reopen(d, r)

(* The host fetches a report, *)
Deliver(d) ==
    /\ InFlight(d)
    /\ host' = [host EXCEPT ![d] = flight[d]]
    /\ flight' = [flight EXCEPT ![d] = Free]
    /\ typed' = IF d = "keyboard" /\ lock = "paste" /\ ~torn THEN Append(typed, flight[d])
                ELSE typed
    /\ UNCHANGED <<open, lock, socket, left, strokes, stroke, before, torn, jiggler, lost>>

(* A report of the paste is dropped: its history ends. *)
Tear(b) ==
    /\ torn' = (torn \/ (b /\ lock = "paste"))
    /\ before' = IF torn' THEN <<>> ELSE before
    /\ typed' = IF torn' THEN <<>> ELSE typed

(* its write fails, *)
Fail(d) ==
    /\ InFlight(d)
    /\ flight' = [flight EXCEPT ![d] = Failed]
    /\ lost' = [lost EXCEPT ![d] = TRUE]
    /\ Tear(d = "keyboard")
    /\ UNCHANGED <<open, host, lock, socket, left, strokes, stroke, jiggler>>

(* reset_hid_handler, or a mount (see VirtualMedia), resets the gadget.    *)
ResetHid ==
    /\ host' = [d \in Devices |-> Up]
    /\ flight' = [d \in Devices |-> IF InFlight(d) THEN Failed ELSE flight[d]]
    /\ lost' = [d \in Devices |-> FALSE]
    /\ Tear(InFlight("keyboard"))
    /\ UNCHANGED <<open, lock, socket, left, strokes, stroke, jiggler>>

-----------------------------------------------------------------------------
(* handle_socket *)

Connect(s) ==
    /\ socket[s] = "closed"
    /\ socket' = [socket EXCEPT ![s] = "open"]
    /\ UNCHANGED <<open, flight, host, lock, left, lost, paste, jiggler>>

(* What the mutants of the runs change. *)
SendUnlocked(s, d, r) ==
    /\ socket[s] = "open"
    /\ active' = TRUE
    /\ Write(d, r)
    /\ UNCHANGED <<host, lock, socket, left, paste, jiggle, moving>>

(* A binary report or a text event: both end in one report for one device. *)
Send(s, d, r) ==
    /\ socket[s] = "open" /\ lock = "free"
    /\ active' = TRUE
    /\ Write(d, r)
    /\ UNCHANGED <<host, lock, socket, left, paste, jiggle, moving>>

HeartBeat(s) ==
    /\ socket[s] = "open"
    /\ active' = TRUE
    /\ UNCHANGED <<open, flight, host, lock, socket, left, lost, paste, jiggle, moving>>

Disconnect(s) ==
    /\ socket[s] = "open"
    /\ socket' = [socket EXCEPT ![s] = "ended"]
    /\ UNCHANGED <<open, flight, host, lock, left, lost, paste, jiggler>>

ReleaseKeyboard(s) ==
    /\ socket[s] = "ended" /\ lock = "free"
    /\ lock' = s /\ left' = {"keyboard"}
    /\ UNCHANGED <<open, flight, host, socket, lost, paste, jiggler>>

(* The connection is closed: under the lock, all devices are released,     *)
StartRelease(s) ==
    /\ socket[s] = "ended" /\ lock = "free"
    /\ lock' = s /\ left' = Devices
    /\ UNCHANGED <<open, flight, host, socket, lost, paste, jiggler>>

Release(s, d) ==
    /\ lock = s /\ d \in left
    /\ left' = left \ {d}
    /\ Write(d, Up)
    /\ UNCHANGED <<host, lock, socket, paste, jiggler>>

Released(s) ==
    /\ lock = s /\ left = {}
    /\ lock' = "free"
    /\ socket' = [socket EXCEPT ![s] = "closed"]
    /\ UNCHANGED <<open, flight, host, left, lost, paste, jiggler>>

-----------------------------------------------------------------------------
(* paste_handler *)

(* get_char_map, for some characters: a base map, which German and French  *)
(* change in part.                                                         *)
CharMap(lang) ==
    CASE lang = "de" -> [q |-> 20, y |-> 29, z |-> 28]
      [] lang = "fr" -> [q |-> 4, y |-> 28, z |-> 26, eacute |-> 31]
      [] OTHER       -> [q |-> 20, y |-> 28, z |-> 29]

(* Each character of the map is pressed and released, the others skipped.  *)
Strokes(text, lang) ==
    LET map == CharMap(lang)
        char(i) == text[(i + 1) \div 2]
    IN  [i \in 1 .. 2 * Len(text) |->
            IF char(i) \notin DOMAIN map THEN Skip ELSE IF i % 2 = 1 THEN map[char(i)] ELSE Up]

(* A text of more than 1024 bytes is refused, and changes nothing.         *)
StartPaste(text, lang) ==
    /\ lock = "free"
    /\ lock' = "paste"
    /\ strokes' = Strokes(text, lang) /\ stroke' = 0
    /\ before' = IF InFlight("keyboard") THEN <<flight["keyboard"]>> ELSE <<>>
    /\ typed' = <<>> /\ torn' = FALSE
    /\ UNCHANGED <<open, flight, host, socket, left, lost, jiggler>>

(* What the mutants of the runs change: the next one is skipped with it. *)
SkipTwoCharacters ==
    /\ lock = "paste" /\ stroke < Len(strokes)
    /\ stroke % 2 = 0 /\ strokes[stroke + 1] = Skip
    /\ stroke' = stroke + 4
    /\ UNCHANGED <<open, flight, host, lock, socket, left, lost, strokes, before, typed, torn, jiggler>>

SkipCharacter ==
    /\ lock = "paste" /\ stroke < Len(strokes)
    /\ stroke % 2 = 0 /\ strokes[stroke + 1] = Skip
    /\ stroke' = stroke + 2
    /\ UNCHANGED <<open, flight, host, lock, socket, left, lost, strokes, before, typed, torn, jiggler>>

Stroke ==
    /\ lock = "paste" /\ stroke < Len(strokes)
    /\ strokes[stroke + 1] # Skip
    /\ stroke' = stroke + 1
    /\ Write("keyboard", strokes[stroke + 1])
    /\ Tear(lost'["keyboard"])
    /\ UNCHANGED <<host, lock, socket, left, strokes, jiggler>>

PasteOver ==
    /\ lock' = "free"
    /\ strokes' = <<>> /\ stroke' = 0
    /\ before' = <<>> /\ typed' = <<>> /\ torn' = FALSE
    /\ UNCHANGED <<open, flight, host, socket, left, jiggler>>

EndPaste ==
    /\ lock = "paste" /\ stroke = Len(strokes)
    /\ PasteOver
    /\ UNCHANGED lost

(* The client goes away: the handler ends where it waits, be it between a  *)
(* key's two reports.                                                      *)
HangUp ==
    /\ lock = "paste"
    /\ PasteOver
    /\ lost' = [lost EXCEPT !["keyboard"] = @ \/ stroke % 2 = 1]

-----------------------------------------------------------------------------
(* The jiggler *)

(* enable and disable *)
SetJiggler(mode) ==
    /\ jiggle' = mode
    /\ UNCHANGED <<open, flight, host, lock, socket, left, lost, paste, active, moving>>

(* 15 seconds without activity *)
Quiet ==
    /\ active' = FALSE
    /\ UNCHANGED <<open, flight, host, lock, socket, left, lost, paste, jiggle, moving>>

(* spawn_loop reads the file and the clock before it waits for the lock,   *)
Decide ==
    /\ moving = "off" /\ jiggle # "off" /\ ~active
    /\ moving' = jiggle
    /\ UNCHANGED <<open, flight, host, lock, socket, left, lost, paste, active, jiggle>>

(* which it keeps for the 100 ms between its two reports.                  *)
Jiggle ==
    /\ moving # "off"
    /\ \/ lock = "free" /\ lock' = "jiggler" /\ UNCHANGED moving
       \/ lock = "jiggler" /\ lock' = "free" /\ moving' = "off"
    /\ Write(moving, Up)
    /\ UNCHANGED <<host, socket, left, paste, active, jiggle>>

-----------------------------------------------------------------------------
HidNext ==
    \/ \E s \in Sockets :
          \/ Connect(s) \/ HeartBeat(s) \/ Disconnect(s) \/ StartRelease(s) \/ Released(s)
          \/ \E d \in Devices : Release(s, d) \/ \E r \in Keys \cup {Up} : Send(s, d, r)
    \/ \E text \in Texts, lang \in {"", "de", "fr"} : StartPaste(text, lang)
    \/ SkipCharacter \/ Stroke \/ EndPaste \/ HangUp
    \/ Quiet \/ Decide \/ Jiggle \/ \E mode \in Mice \cup {"off"} : SetJiggler(mode)
    \/ ResetHid \/ \E d \in Devices : Deliver(d) \/ Fail(d)

HidSpec == HidInit /\ [][HidNext]_hid

-----------------------------------------------------------------------------
(* Properties. *)

(* What the host will see of a device when its thread is done.             *)
Coming(d) == IF InFlight(d) THEN flight[d] ELSE host[d]

(* When the last socket is gone and nobody writes, no key and no button    *)
(* stays down for the host ("to prevent sticky keys", main.rs 1346),       *)
(* whatever other sockets, pastes and the jiggler did before, unless the   *)
(* very report that should release it was dropped: those of main.rs        *)
(* 1349-1351 are not written again.                                        *)
KeysReleased ==
    (\A s \in Sockets : socket[s] = "closed") /\ lock = "free"
        => \A d \in Devices : lost[d] \/ Coming(d) = Up

(* The first n reports of a paste that are not skipped. *)
Due(q, n) == {i \in 1..n : q[i] # Skip}

(* What got holds is b, followed by the reports due of q's first n, each   *)
(* in the place that those due before it leave it.                         *)
Follows(got, b, q, n) ==
    /\ Len(got) = Len(b) + Cardinality(Due(q, n))
    /\ \A i \in 1..Len(b) : got[i] = b[i]
    /\ \A i \in Due(q, n) : got[Len(b) + Cardinality(Due(q, i))] = q[i]

(* What the host has got from the keyboard and will get next. *)
Got == typed \o (IF InFlight("keyboard") THEN <<flight["keyboard"]>> ELSE <<>>)

(* During a paste the host gets the text's own reports in their order,     *)
(* after at most one that was in flight when it began, whatever sockets    *)
(* send meanwhile (hid.rs 75-89), as long as none is dropped.              *)
PasteUnmixed == lock = "paste" /\ ~torn => Follows(Got, before, strokes, stroke)
=============================================================================
