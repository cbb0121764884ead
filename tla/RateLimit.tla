------------------------------ MODULE RateLimit ------------------------------
(***************************************************************************)
(* The limit on recovery attempts (passkey/recovery.rs 16-95): attempts of *)
(* an address are counted from the first of a window, under a lock; the    *)
(* counts are cloned and saved after the lock is let go.  A restart loads  *)
(* the file at the first attempt.                                          *)
(***************************************************************************)
EXTENDS Naturals, ConfFile

CONSTANTS
    Attempts,    (* requests that may be under way together                *)
    Addresses,
    MaxAttempts, (* MAX_ATTEMPTS_PER_WINDOW                                *)
    Window,      (* RATE_LIMIT_WINDOW_SECONDS                              *)
    MaxTime      (* bound on the clock                                     *)

(* The clock starts later than one window after the epoch. *)
Time == 0..MaxTime
Limit == [last : Time, attempts : 0..MaxAttempts]
Limits == [Addresses -> Limit]
Untried == [a \in Addresses |-> [last |-> 0, attempts |-> 0]]

ASSUME LimitAssumption ==
    /\ MaxAttempts \in Nat \ {0} /\ Window \in Nat
    /\ MaxTime \in Nat /\ Window < MaxTime
    /\ Unreadable \cap Limits = {}

VARIABLES
    limits,    (* RATE_LIMITS; an address never seen has zeros             *)
    loaded,    (* RATE_LIMIT_LOADED                                        *)
    limitFile, (* RATE_LIMIT_FILE                                          *)
    rlStage,   (* where each request is                                    *)
    rlCopy,    (* the clone each request is about to save                  *)
    now,
    window,    (* history: the attempts let through, counted from the      *)
               (* first of a window, which no restart forgets              *)
    rlKept     (* history: every save so far was alone and complete        *)

rateLimit == <<limits, loaded, limitFile, rlStage, rlCopy, now, window, rlKept>>

LimitTypeOK ==
    /\ limits \in Limits /\ loaded \in BOOLEAN
    /\ limitFile \in Limits \cup Unreadable
    /\ rlStage \in [Attempts -> {"idle", "counted", "cloned", "opened"}]
    /\ rlCopy \in [Attempts -> Limits]
    /\ now \in Time
    /\ window \in [Addresses -> [last : Time, attempts : 0..(MaxAttempts + 1)]]
    /\ rlKept \in BOOLEAN

LimitInit ==
    /\ limits = Untried /\ loaded = FALSE /\ limitFile = Absent
    /\ rlStage = [r \in Attempts |-> "idle"]
    /\ rlCopy = [r \in Attempts |-> Untried]
    /\ now = Window + 1
    /\ window = Untried /\ rlKept = TRUE

RlGoto(r, s) == rlStage' = [rlStage EXCEPT ![r] = s]

(* What the mutants of the runs change. *)
LoadNothing ==
    /\ ~loaded
    /\ loaded' = TRUE
    /\ UNCHANGED <<limits, limitFile, rlStage, rlCopy, now, window, rlKept>>

(* load_rate_limit_state, once *)
Load ==
    /\ ~loaded
    /\ loaded' = TRUE
    /\ limits' = IF limitFile \in Limits THEN limitFile ELSE limits
    /\ UNCHANGED <<limitFile, rlStage, rlCopy, now, window, rlKept>>

Room(limit, most) == limit.attempts < most

Over(limit) == now - limit.last > Window

Counted(limit) ==
    IF Over(limit) THEN [last |-> now, attempts |-> 1]
                   ELSE [limit EXCEPT !.attempts = @ + 1]

(* check_rate_limit; when there is no room the answer is an error.  What   *)
(* exceeds the limit is counted in window up to one too many.              *)
Count(r, a) ==
    /\ loaded /\ rlStage[r] = "idle"
    /\ Over(limits[a]) \/ Room(limits[a], MaxAttempts)
    /\ limits' = [limits EXCEPT ![a] = Counted(@)]
    /\ window' = [window EXCEPT ![a] =
                    IF Over(@) \/ Room(@, MaxAttempts + 1) THEN Counted(@) ELSE @]
    /\ RlGoto(r, "counted")
    /\ rlKept' = (rlKept /\ \A q \in Attempts : rlStage[q] = "idle")
    /\ UNCHANGED <<loaded, limitFile, rlCopy, now>>

(* save_rate_limit_state *)
CloneLimits(r) ==
    /\ rlStage[r] = "counted"
    /\ rlCopy' = [rlCopy EXCEPT ![r] = limits]
    /\ RlGoto(r, "cloned")
    /\ UNCHANGED <<limits, loaded, limitFile, now, window, rlKept>>

OpenLimits(r) ==
    /\ rlStage[r] = "cloned"
    /\ limitFile' = Empty
    /\ RlGoto(r, "opened")
    /\ UNCHANGED <<limits, loaded, rlCopy, now, window, rlKept>>

WriteLimits(r) ==
    /\ rlStage[r] = "opened"
    /\ limitFile' \in Overwritten(limitFile, rlCopy[r])
    /\ rlCopy' = [rlCopy EXCEPT ![r] = Untried]
    /\ RlGoto(r, "idle")
    /\ UNCHANGED <<limits, loaded, now, window, rlKept>>

(* The save fails, which nobody is told, or the client goes away. *)
NotSaved(r) ==
    /\ rlStage[r] # "idle"
    /\ rlCopy' = [rlCopy EXCEPT ![r] = Untried]
    /\ RlGoto(r, "idle")
    /\ rlKept' = FALSE
    /\ UNCHANGED <<limits, loaded, limitFile, now, window>>

RlRestart ==
    /\ limits' = Untried /\ loaded' = FALSE
    /\ rlStage' = [r \in Attempts |-> "idle"]
    /\ rlCopy' = [r \in Attempts |-> Untried]
    /\ rlKept' = (rlKept /\ \A r \in Attempts : rlStage[r] = "idle")
    /\ UNCHANGED <<limitFile, now, window>>

Tick ==
    /\ now < MaxTime
    /\ now' = now + 1
    /\ UNCHANGED <<limits, loaded, limitFile, rlStage, rlCopy, window, rlKept>>

RlServe(r) ==
    \/ \E a \in Addresses : Count(r, a)
    \/ CloneLimits(r) \/ OpenLimits(r) \/ WriteLimits(r) \/ NotSaved(r)

LimitNext == Load \/ RlRestart \/ Tick \/ \E r \in Attempts : RlServe(r)

LimitSpec == LimitInit /\ [][LimitNext]_rateLimit

-----------------------------------------------------------------------------
(* Properties. *)

(* At most MaxAttempts attempts of an address are let through in a window, *)
(* also when the server restarts, unless saves crossed or were cut short.  *)
AttemptsBounded == rlKept => \A a \in Addresses : window[a].attempts <= MaxAttempts
=============================================================================
