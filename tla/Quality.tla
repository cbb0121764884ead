------------------------------- MODULE Quality -------------------------------
(***************************************************************************)
(* The adaptive quality controller (quality.rs): the capture loops report  *)
(* how each frame was sent, and the tier follows; tier 0 is the best.      *)
(* Every operation is one critical section of a write lock.  The counts of *)
(* frames for the statistics are left out, and on_remb_received has no     *)
(* caller.                                                                 *)
(***************************************************************************)
EXTENDS Integers

CONSTANTS
    Lowest,       (* the last of QUALITY_TIERS                             *)
    DefaultTier,  (* DEFAULT_TIER                                          *)
    Increase,     (* INCREASE_THRESHOLD                                    *)
    Decrease,     (* DECREASE_THRESHOLD                                    *)
    MinChange,    (* MIN_CHANGE_INTERVAL                                   *)
    MaxCount      (* bound on the two counters, which saturate here        *)

ASSUME QualityAssumption ==
    /\ Lowest \in Nat /\ DefaultTier \in 0..Lowest
    /\ Increase \in Nat \ {0} /\ Decrease \in Nat \ {0} /\ MinChange \in Nat
    /\ MaxCount \in Nat /\ Increase <= MaxCount /\ Decrease <= MaxCount

VARIABLES
    auto,       (* auto_enabled                                            *)
    tier,       (* current_tier                                            *)
    successes,  (* consecutive_successes                                   *)
    failures,   (* consecutive_failures                                    *)
    age,        (* the time since last_change, as far as it matters        *)
    streak      (* history: how many of the last results since the tier    *)
                (* last changed or was reset were successes, or, negative, *)
                (* failures                                                *)

quality == <<auto, tier, successes, failures, age, streak>>

QualityTypeOK ==
    /\ auto \in BOOLEAN
    /\ tier \in 0..Lowest
    /\ successes \in 0..MaxCount /\ failures \in 0..MaxCount
    /\ age \in 0..MinChange
    /\ streak \in -MaxCount..MaxCount

QualityInit ==
    /\ auto = TRUE /\ tier = DefaultTier
    /\ successes = 0 /\ failures = 0 /\ age = 0 /\ streak = 0

OneMore(n) == IF n < MaxCount THEN n + 1 ELSE n

Longer(n, ok) ==
    IF ok THEN OneMore(IF n > 0 THEN n ELSE 0) ELSE -OneMore(IF n < 0 THEN -n ELSE 0)

-----------------------------------------------------------------------------
(* set_auto_enabled; last_change stays. *)
SetAuto(enabled) ==
    /\ auto' = enabled
    /\ IF enabled
       THEN tier' = DefaultTier /\ successes' = 0 /\ failures' = 0 /\ streak' = 0
       ELSE UNCHANGED <<tier, successes, failures, streak>>
    /\ UNCHANGED age

(* What the mutants of the runs change. *)
KeepFailures ==
    /\ successes' = OneMore(successes)
    /\ UNCHANGED failures

(* on_frame_result: how a result is counted, *)
CountSuccess ==
    /\ successes' = OneMore(successes)
    /\ failures' = 0

CountFailure ==
    /\ failures' = OneMore(failures)
    /\ successes' = 0

BetterThanBest == age = MinChange /\ OneMore(successes) >= Increase

(* and the tier that follows. *)
Better == age = MinChange /\ OneMore(successes) >= Increase /\ tier > 0
Worse == age = MinChange /\ OneMore(failures) >= Decrease /\ tier < Lowest

Change(by) ==
    /\ tier' = tier + by
    /\ successes' = 0 /\ failures' = 0
    /\ age' = 0 /\ streak' = 0

OnFrameResult(ok) ==
    IF ~auto THEN UNCHANGED quality
    ELSE /\ UNCHANGED auto
         /\ \/ ok /\ Better /\ Change(-1)
            \/ ~ok /\ Worse /\ Change(1)
            \/ /\ IF ok THEN ~Better /\ CountSuccess ELSE ~Worse /\ CountFailure
               /\ streak' = Longer(streak, ok)
               /\ UNCHANGED <<tier, age>>

(* Time passes; age is of use up to MinChange. *)
QualityTick ==
    /\ age < MinChange
    /\ age' = age + 1
    /\ UNCHANGED <<auto, tier, successes, failures, streak>>

-----------------------------------------------------------------------------
(* Properties. *)

(* The tier moves by one, no sooner than MinChange after the last move,    *)
(* and only for Increase successes or Decrease failures in a row that came *)
(* since then, however results, the operator's switch and time mix; or the *)
(* operator turns the automatic quality on, and it is the default one      *)
(* (quality.rs 50-59, 106-113, 161-201).                                   *)
TierEarned ==
    [][tier' # tier =>
          \/ auto' /\ tier' = DefaultTier /\ UNCHANGED age
          \/ /\ age = MinChange /\ auto
             /\ \/ tier' = tier - 1 /\ Longer(streak, TRUE) >= Increase
                \/ tier' = tier + 1 /\ -Longer(streak, FALSE) >= Decrease]_quality
=============================================================================
