---------------------------- MODULE RecoveryCodes ----------------------------
(***************************************************************************)
(* Recovery codes (passkey/recovery.rs): an enrolment replaces them all by *)
(* a new batch and shows the batch once to the administrator, a recovery   *)
(* takes one code and marks it used.  The codes are loaded and saved       *)
(* without a lock.  The rate limit a recovery passes first is RateLimit.   *)
(***************************************************************************)
EXTENDS Naturals, ConfFile

CONSTANTS
    Recoveries, (* recovery requests that may be under way together        *)
    Setups,     (* enrolments likewise                                     *)
    Slots,      (* the codes of a batch                                    *)
    MaxBatch    (* bound on the batches generated                          *)

RcRequests == Recoveries \cup Setups
Code == (1..MaxBatch) \X Slots
Storage == [batch : 1..MaxBatch, unused : SUBSET Slots]

ASSUME RecoveryAssumption ==
    /\ MaxBatch \in Nat
    /\ Recoveries \cap Setups = {}
    /\ Unreadable \cap Storage = {}
    /\ Absent \notin {Empty, Torn}

VARIABLES
    codesFile, (* RECOVERY_CODES_FILE                                      *)
    shown,     (* pending_recovery_codes: the batch, or 0                  *)
    setup,     (* an enrolment challenge is pending                        *)
    batch,     (* batches generated so far                                 *)
    rcStage,   (* where each request is                                    *)
    code,      (* the code of each recovery                                *)
    rcCopy,    (* the codes each request is about to save                  *)
    spent,     (* history: codes used, by a save that was completed        *)
    twice,     (* history: codes used again                                *)
    rcCrossed, (* history: a request began to change the codes before      *)
               (* another was done                                         *)
    rcLost     (* history: a save was cut short or failed                  *)

rcRequest == <<rcStage, code, rcCopy>>
rcHistory == <<spent, twice, rcCrossed, rcLost>>
recovery == <<codesFile, shown, setup, batch, rcRequest, rcHistory>>

NoCode == <<0, 0>>
NoCodes == [batch |-> 0, unused |-> {}]

RecoveryTypeOK ==
    /\ codesFile \in Storage \cup Unreadable
    /\ shown \in 0..MaxBatch /\ setup \in BOOLEAN /\ batch \in 0..MaxBatch
    /\ rcStage \in [RcRequests -> {"idle", "admitted", "enrolling", "ready", "opened", "saved"}]
    /\ code \in [RcRequests -> Code \cup {NoCode}]
    /\ rcCopy \in [RcRequests -> Storage \cup {NoCodes}]
    /\ spent \subseteq Code /\ twice \subseteq Code
    /\ rcCrossed \in BOOLEAN /\ rcLost \in BOOLEAN

RecoveryInit ==
    /\ codesFile = Absent /\ shown = 0 /\ setup = FALSE /\ batch = 0
    /\ rcStage = [r \in RcRequests |-> "idle"]
    /\ code = [r \in RcRequests |-> NoCode]
    /\ rcCopy = [r \in RcRequests |-> NoCodes]
    /\ spent = {} /\ twice = {} /\ rcCrossed = FALSE /\ rcLost = FALSE

RcGoto(r, s) == rcStage' = [rcStage EXCEPT ![r] = s] /\ UNCHANGED <<code, rcCopy>>

RcDone(r) ==
    /\ rcStage' = [rcStage EXCEPT ![r] = "idle"]
    /\ code' = [code EXCEPT ![r] = NoCode]
    /\ rcCopy' = [rcCopy EXCEPT ![r] = NoCodes]

RcChanging(r) == rcStage[r] \in {"ready", "opened", "saved"}

Prepare(r, codes) ==
    /\ rcStage' = [rcStage EXCEPT ![r] = "ready"]
    /\ rcCopy' = [rcCopy EXCEPT ![r] = codes]
    /\ rcCrossed' = (rcCrossed \/ \E q \in RcRequests : RcChanging(q))

-----------------------------------------------------------------------------
(* A client gives a code it was once shown, and the rate limit lets it. *)
Recover(r, c) ==
    /\ r \in Recoveries /\ rcStage[r] = "idle"
    /\ c[1] <= batch
    /\ rcStage' = [rcStage EXCEPT ![r] = "admitted"]
    /\ code' = [code EXCEPT ![r] = c]
    /\ UNCHANGED <<codesFile, shown, setup, batch, rcCopy, rcHistory>>

Usable(codes, c) == codes.batch = c[1] /\ c[2] \in codes.unused

(* What the mutants of the runs change. *)
MarkNothing(codes, c) == codes
MarkBatch(codes, c) == [codes EXCEPT !.unused = {}]

MarkUsed(codes, c) == [codes EXCEPT !.unused = @ \ {c[2]}]

(* validate_and_consume_code *)
LoadCodes(r) ==
    /\ rcStage[r] = "admitted"
    /\ IF codesFile \in Storage /\ Usable(codesFile, code[r])
       THEN Prepare(r, MarkUsed(codesFile, code[r])) /\ UNCHANGED code
       ELSE RcDone(r) /\ UNCHANGED rcCrossed
    /\ UNCHANGED <<codesFile, shown, setup, batch, spent, twice, rcLost>>

(* enroll_complete_handler: the challenge is looked at, and when the       *)
(* credential has been saved there is a new batch.                         *)
RcBeginEnrol(r) ==
    /\ r \in Setups /\ rcStage[r] = "idle"
    /\ setup
    /\ RcGoto(r, "enrolling")
    /\ rcCrossed' = (rcCrossed \/ \E q \in Setups : rcStage[q] # "idle")
    /\ UNCHANGED <<codesFile, shown, setup, batch, spent, twice, rcLost>>

Enrol(r) ==
    /\ rcStage[r] = "enrolling"
    /\ batch < MaxBatch
    /\ batch' = batch + 1
    /\ Prepare(r, [batch |-> batch', unused |-> Slots])
    /\ UNCHANGED <<codesFile, shown, setup, code, spent, twice, rcLost>>

(* save_recovery_codes *)
OpenCodes(r) ==
    /\ rcStage[r] = "ready"
    /\ codesFile' = Empty
    /\ RcGoto(r, "opened")
    /\ UNCHANGED <<shown, setup, batch, rcHistory>>

WriteCodes(r) ==
    /\ rcStage[r] = "opened"
    /\ codesFile' \in Overwritten(codesFile, rcCopy[r])
    /\ \/ r \in Recoveries /\ RcDone(r)
          /\ twice' = twice \cup (spent \cap {code[r]})
          /\ spent' = spent \cup {code[r]}
       \/ r \in Setups /\ (RcGoto(r, "saved") \/ RcDone(r))
          /\ UNCHANGED <<spent, twice>>
    /\ UNCHANGED <<shown, setup, batch, rcCrossed, rcLost>>

(* A recovery is refused; an enrolment goes on. *)
RcSaveFails(r) ==
    /\ rcStage[r] \in {"ready", "opened"}
    /\ rcLost' = TRUE
    /\ IF r \in Recoveries THEN RcDone(r) ELSE RcGoto(r, "saved")
    /\ UNCHANGED <<codesFile, shown, setup, batch, spent, twice, rcCrossed>>

(* The handler may be dropped before it clears the challenge. *)
Show(r) ==
    /\ rcStage[r] = "saved"
    /\ shown' = rcCopy[r].batch
    /\ \/ setup' = FALSE /\ UNCHANGED rcLost
       \/ UNCHANGED setup /\ rcLost' = TRUE
    /\ RcDone(r)
    /\ UNCHANGED <<codesFile, batch, spent, twice, rcCrossed>>

(* passkey_setup_handler; setup_recovery_codes_handler, or a setup that is *)
(* dropped half way; another challenge, or the end of this one's time.     *)
Setup ==
    /\ shown' = 0 /\ setup' = TRUE
    /\ UNCHANGED <<codesFile, batch, rcRequest, rcHistory>>

Forget ==
    /\ shown # 0
    /\ shown' = 0
    /\ UNCHANGED <<codesFile, setup, batch, rcRequest, rcHistory>>

OtherChallenge ==
    /\ setup
    /\ setup' = FALSE
    /\ UNCHANGED <<codesFile, shown, batch, rcRequest, rcHistory>>

(* The client goes away at an await and the handler is dropped. *)
RcHangUp(r) ==
    /\ rcStage[r] \in {"admitted", "enrolling", "ready", "saved"}
    /\ RcDone(r)
    /\ UNCHANGED <<codesFile, shown, setup, batch, rcHistory>>

RcRestart ==
    /\ shown' = 0 /\ setup' = FALSE
    /\ rcStage' = [r \in RcRequests |-> "idle"]
    /\ code' = [r \in RcRequests |-> NoCode]
    /\ rcCopy' = [r \in RcRequests |-> NoCodes]
    /\ rcLost' = (rcLost \/ \E r \in RcRequests : rcStage[r] = "opened")
    /\ UNCHANGED <<codesFile, batch, spent, twice, rcCrossed>>

RcServe(r) ==
    \/ \E c \in Code : Recover(r, c)
    \/ LoadCodes(r) \/ RcBeginEnrol(r) \/ Enrol(r) \/ OpenCodes(r) \/ WriteCodes(r) \/ RcSaveFails(r)
    \/ Show(r) \/ RcHangUp(r)

RecoveryNext ==
    \/ Setup \/ Forget \/ OtherChallenge \/ RcRestart
    \/ \E r \in RcRequests : RcServe(r)

RecoverySpec == RecoveryInit /\ [][RecoveryNext]_recovery

-----------------------------------------------------------------------------
(* Properties. *)

(* A code is used once, whatever fails and whenever the process restarts,  *)
(* unless a request loads the codes while another is changing them         *)
(* (recovery.rs 207-235).                                                  *)
UsedOnce == ~rcCrossed => twice = {}

(* The other codes stay: a recovery costs the code it used and no other,   *)
(* the codes shown are those in the file, and the file is unreadable only  *)
(* while it is written, unless changes crossed or a save failed.           *)
CodesKept ==
    ~rcCrossed /\ ~rcLost =>
        /\ codesFile \in Storage => codesFile.unused = {s \in Slots : <<codesFile.batch, s>> \notin spent}
        /\ shown # 0 /\ ~(\E r \in RcRequests : RcChanging(r)) =>
               codesFile \in Storage /\ codesFile.batch = shown
        /\ codesFile \in {Empty, Torn} => \E r \in RcRequests : rcStage[r] = "opened"
=============================================================================
