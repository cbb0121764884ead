------------------------------ MODULE Passkeys ------------------------------
(***************************************************************************)
(* Passkeys (passkey/handlers.rs, mod.rs): one pending challenge for       *)
(* everybody, which a setup or a login challenge overwrites; enrolments,   *)
(* which add a credential to the store; and logins, which compare the      *)
(* counter an authenticator signed with the one in the store and save it.  *)
(* The challenge is cloned under a lock, the store is loaded and saved     *)
(* without one.                                                            *)
(*                                                                         *)
(* A signature is correct; answers that are not (another challenge, a bad  *)
(* origin, missing data) change nothing here.  A client may submit an      *)
(* answer more than once.                                                  *)
(***************************************************************************)
EXTENDS Naturals, FiniteSets, ConfFile

CONSTANTS
    Enrolments,   (* enrolment requests that may be under way together     *)
    Logins,       (* login requests likewise                               *)
    Credentials,
    MaxChallenge, (* bound on the challenges issued                        *)
    MaxCounter,   (* bound on an authenticator's counter                   *)
    None

PkRequests == Enrolments \cup Logins
Challenges == 1..MaxChallenge
Pending == [id : Challenges, kind : {"enrol", "login"}]
Answer == [id : Challenges, credential : Credentials, counter : 0..MaxCounter]
PkStore == UNION {[known -> 0..MaxCounter] : known \in SUBSET Credentials}
NoStore == [c \in {} |-> 0]

ASSUME PasskeysAssumption ==
    /\ MaxChallenge \in Nat /\ MaxCounter \in Nat
    /\ IsFiniteSet(Logins)
    /\ Enrolments \cap Logins = {}
    /\ Unreadable \cap PkStore = {} /\ Absent \notin {Empty, Torn}
    /\ None \notin Pending \cup Answer

VARIABLES
    pending,  (* pending_challenge                                         *)
    store,    (* PASSKEYS_FILE: counters of the credentials                *)
    signed,   (* the last counter each authenticator has used              *)
    issued,   (* challenges issued so far                                  *)
    pkStage,  (* where each request is                                     *)
    answer,   (* what each request answers                                 *)
    pkCopy,   (* the store each request is about to save                   *)
    accepted, (* history: logins accepted for each challenge               *)
    counters, (* history: the credentials enrolled and the highest counter *)
              (* saved for each                                            *)
    pkKept    (* history: no request began to change the store before      *)
              (* another was done, and no save failed or was cut short     *)

pkRequest == <<pkStage, answer, pkCopy>>
pkHistory == <<accepted, counters, pkKept>>
passkeys == <<pending, store, signed, issued, pkRequest, pkHistory>>

Stages == {"idle", "answered", "checked", "ready", "opened", "saved"}

PasskeysTypeOK ==
    /\ pending \in Pending \cup {None}
    /\ store \in PkStore \cup Unreadable
    /\ signed \in [Credentials -> 0..MaxCounter]
    /\ issued \in 0..MaxChallenge
    /\ pkStage \in [PkRequests -> Stages]
    /\ answer \in [PkRequests -> Answer \cup {None}]
    /\ pkCopy \in [PkRequests -> PkStore]
    /\ accepted \in [Challenges -> Nat]
    /\ counters \in PkStore
    /\ pkKept \in BOOLEAN

PasskeysInit ==
    /\ pending = None /\ store = Absent
    /\ signed = [c \in Credentials |-> 0] /\ issued = 0
    /\ pkStage = [r \in PkRequests |-> "idle"]
    /\ answer = [r \in PkRequests |-> None]
    /\ pkCopy = [r \in PkRequests |-> NoStore]
    /\ accepted = [id \in Challenges |-> 0]
    /\ counters = NoStore /\ pkKept = TRUE

PkGoto(r, s) == pkStage' = [pkStage EXCEPT ![r] = s] /\ UNCHANGED <<answer, pkCopy>>

PkDone(r) ==
    /\ pkStage' = [pkStage EXCEPT ![r] = "idle"]
    /\ answer' = [answer EXCEPT ![r] = None]
    /\ pkCopy' = [pkCopy EXCEPT ![r] = NoStore]

PkChanging(r) == pkStage[r] \in {"checked", "ready", "opened"}

Begin(r, a) ==
    /\ pkStage[r] = "idle"
    /\ pkStage' = [pkStage EXCEPT ![r] = "answered"]
    /\ answer' = [answer EXCEPT ![r] = a]
    /\ UNCHANGED pkCopy

Enter(r) == pkKept' = (pkKept /\ ~\E q \in PkRequests \ {r} : PkChanging(q))

-----------------------------------------------------------------------------
(* The pending challenge *)

(* passkey_setup_handler and login_challenge_handler.  A login challenge   *)
(* may name the credential to use, which restricts who can answer.         *)
NewChallenge(kind) ==
    /\ issued < MaxChallenge
    /\ issued' = issued + 1
    /\ pending' = [id |-> issued', kind |-> kind]
    /\ UNCHANGED <<store, signed, pkRequest, pkHistory>>

(* is_expired *)
Expire ==
    /\ pending # None
    /\ pending' = None
    /\ UNCHANGED <<store, signed, issued, pkRequest, pkHistory>>

-----------------------------------------------------------------------------
(* Enrolment (enroll_complete_handler) *)

PkBeginEnrol(r, c) ==
    /\ r \in Enrolments
    /\ pending # None /\ pending.kind = "enrol"
    /\ Begin(r, [id |-> pending.id, credential |-> c, counter |-> 0])
    /\ UNCHANGED <<pending, store, signed, issued, pkHistory>>

(* What the mutants of the runs change. *)
Only(st, c) == [d \in {c} |-> 0]

(* The first of two entries with the same id is the one that is found. *)
With(st, c) == [d \in DOMAIN st \cup {c} |-> IF d \in DOMAIN st THEN st[d] ELSE 0]

(* A store that cannot be read counts as empty. *)
AddCredential(r) ==
    /\ r \in Enrolments /\ pkStage[r] = "answered"
    /\ pkCopy' = [pkCopy EXCEPT ![r] =
                  With(IF store \in PkStore THEN store ELSE NoStore, answer[r].credential)]
    /\ pkStage' = [pkStage EXCEPT ![r] = "ready"]
    /\ Enter(r)
    /\ UNCHANGED <<pending, store, signed, issued, answer, accepted, counters>>

-----------------------------------------------------------------------------
(* Login (login_verify_handler) *)

(* The client signs with the next counter ... *)
BeginLogin(r, c) ==
    /\ r \in Logins
    /\ pending # None /\ pending.kind = "login"
    /\ signed[c] < MaxCounter
    /\ signed' = [signed EXCEPT ![c] = @ + 1]
    /\ Begin(r, [id |-> pending.id, credential |-> c, counter |-> signed'[c]])
    /\ UNCHANGED <<pending, store, issued, pkHistory>>

(* ... or submits again what another request is answering. *)
Resubmit(r, q) ==
    /\ {r, q} \subseteq Logins
    /\ pending # None /\ pending.kind = "login"
    /\ answer[q] # None /\ answer[q].id = pending.id
    /\ Begin(r, answer[q])
    /\ UNCHANGED <<pending, store, signed, issued, pkHistory>>

Known(st, c) == st \in PkStore /\ c \in DOMAIN st

CheckCounter(r) ==
    /\ r \in Logins /\ pkStage[r] = "answered"
    /\ IF Known(store, answer[r].credential) /\ store[answer[r].credential] < answer[r].counter
       THEN PkGoto(r, "checked") /\ Enter(r)
       ELSE PkDone(r) /\ UNCHANGED pkKept
    /\ UNCHANGED <<pending, store, signed, issued, accepted, counters>>

(* The store is loaded again for the new counter. *)
SetCounter(r) ==
    /\ pkStage[r] = "checked"
    /\ IF store \in PkStore
       THEN /\ pkCopy' = [pkCopy EXCEPT ![r] =
                          [c \in DOMAIN store |-> IF c = answer[r].credential
                                                  THEN answer[r].counter ELSE store[c]]]
            /\ pkStage' = [pkStage EXCEPT ![r] = "ready"]
            /\ UNCHANGED answer
       ELSE PkDone(r)
    /\ UNCHANGED <<pending, store, signed, issued, pkHistory>>

-----------------------------------------------------------------------------
(* The end of both *)

(* The counters saved, when the change for answer a has been. *)
Raised(old, a) ==
    [c \in DOMAIN old \cup {a.credential} |->
        IF c # a.credential THEN old[c]
        ELSE IF c \in DOMAIN old /\ old[c] > a.counter THEN old[c] ELSE a.counter]

(* save_passkeys *)
OpenStore(r) ==
    /\ pkStage[r] = "ready"
    /\ store' = Empty
    /\ PkGoto(r, "opened")
    /\ UNCHANGED <<pending, signed, issued, pkHistory>>

(* The client may be gone by the time the blocking thread has written. *)
WriteStore(r) ==
    /\ pkStage[r] = "opened"
    /\ store' \in Overwritten(store, pkCopy[r])
    /\ PkGoto(r, "saved") \/ PkDone(r)
    /\ counters' = Raised(counters, answer[r])
    /\ UNCHANGED <<pending, signed, issued, accepted, pkKept>>

(* An enrolment is refused, a login goes on. *)
PkSaveFails(r) ==
    /\ pkStage[r] \in {"ready", "opened"}
    /\ pkKept' = FALSE
    /\ IF r \in Enrolments THEN PkDone(r) ELSE PkGoto(r, "saved")
    /\ UNCHANGED <<pending, store, signed, issued, accepted, counters>>

FinishKeepsChallenge(r) ==
    /\ pkStage[r] = "saved"
    /\ accepted' = IF r \in Logins THEN [accepted EXCEPT ![answer[r].id] = @ + 1] ELSE accepted
    /\ PkDone(r)
    /\ UNCHANGED <<pending, store, signed, issued, counters, pkKept>>

(* Whatever challenge is pending now is dropped. *)
Finish(r) ==
    /\ pkStage[r] = "saved"
    /\ pending' = None
    /\ accepted' = IF r \in Logins THEN [accepted EXCEPT ![answer[r].id] = @ + 1] ELSE accepted
    /\ PkDone(r)
    /\ UNCHANGED <<store, signed, issued, counters, pkKept>>

(* The client goes away at an await and the handler is dropped. *)
PkHangUp(r) ==
    /\ pkStage[r] \in {"answered", "checked", "ready", "saved"}
    /\ PkDone(r)
    /\ UNCHANGED <<pending, store, signed, issued, pkHistory>>

PkRestart ==
    /\ pending' = None
    /\ pkStage' = [r \in PkRequests |-> "idle"]
    /\ answer' = [r \in PkRequests |-> None]
    /\ pkCopy' = [r \in PkRequests |-> NoStore]
    /\ pkKept' = (pkKept /\ ~\E r \in PkRequests : pkStage[r] = "opened")
    /\ UNCHANGED <<store, signed, issued, accepted, counters>>

-----------------------------------------------------------------------------
PkServe(r) ==
    \/ \E c \in Credentials : PkBeginEnrol(r, c) \/ BeginLogin(r, c)
    \/ \E q \in PkRequests : Resubmit(r, q)
    \/ AddCredential(r) \/ CheckCounter(r) \/ SetCounter(r)
    \/ OpenStore(r) \/ WriteStore(r) \/ PkSaveFails(r) \/ Finish(r) \/ PkHangUp(r)

PasskeysNext ==
    \/ \E kind \in {"enrol", "login"} : NewChallenge(kind)
    \/ Expire \/ PkRestart
    \/ \E r \in PkRequests : PkServe(r)

PasskeysSpec == PasskeysInit /\ [][PasskeysNext]_passkeys

-----------------------------------------------------------------------------
(* Properties. *)

(* A challenge gives at most as many logins as there are requests at a     *)
(* time, whatever crosses or fails: the first to end clears it             *)
(* (handlers.rs 914-916).                                                  *)
ChallengeBounded == \A id \in Challenges : accepted[id] <= Cardinality(Logins)

(* The store has every credential that was enrolled, with a counter no     *)
(* lower than was saved before (handlers.rs 807-813: one that does not     *)
(* grow "may have been cloned"), and is unreadable only while it is        *)
(* written, unless changes crossed or a save failed or was cut short.      *)
StoreKept ==
    pkKept =>
        /\ store \in PkStore => \A c \in DOMAIN counters : Known(store, c) /\ store[c] >= counters[c]
        /\ store = Absent => counters = NoStore
        /\ store \in {Empty, Torn} => \E r \in PkRequests : pkStage[r] = "opened"
=============================================================================
