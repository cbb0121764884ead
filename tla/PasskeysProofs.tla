--------------------------- MODULE PasskeysProofs ---------------------------
(* Theorems about Passkeys, for any number of requests and credentials.    *)
EXTENDS Passkeys, FiniteSetTheorems, TLAPS

LEMMA StoreDef ==
    /\ \A known \in SUBSET Credentials : [known -> 0..MaxCounter] \subseteq PkStore
    /\ \A st \in PkStore : /\ DOMAIN st \subseteq Credentials
                           /\ st \in [DOMAIN st -> 0..MaxCounter]
BY DEF PkStore

(* What the model makes of a store is a store. *)
LEMMA StoreType ==
    /\ NoStore \in PkStore
    /\ \A st \in PkStore, c \in Credentials : With(st, c) \in PkStore
    /\ \A st \in PkStore, a \in Answer :
          [c \in DOMAIN st |-> IF c = a.credential THEN a.counter ELSE st[c]] \in PkStore
    /\ \A st \in PkStore, a \in Answer : Raised(st, a) \in PkStore
<1> USE PasskeysAssumption
<1>0. MaxCounter \in Nat
  BY DEF PasskeysAssumption
<1>1. NoStore \in [{} -> 0..MaxCounter]
  BY DEF NoStore
<1>2. NoStore \in PkStore
  BY <1>1, StoreDef
<1>3. ASSUME NEW st \in PkStore, NEW c \in Credentials PROVE With(st, c) \in PkStore
  <2>1. With(st, c) \in [DOMAIN st \cup {c} -> 0..MaxCounter]
    BY <1>0, StoreDef DEF With
  <2>2. DOMAIN st \cup {c} \in SUBSET Credentials
    BY StoreDef
  <2>3. QED
    BY <2>1, <2>2, StoreDef
<1>4. ASSUME NEW st \in PkStore, NEW a \in Answer
      PROVE  [c \in DOMAIN st |-> IF c = a.credential THEN a.counter ELSE st[c]] \in PkStore
  <2>1. [c \in DOMAIN st |-> IF c = a.credential THEN a.counter ELSE st[c]]
           \in [DOMAIN st -> 0..MaxCounter]
    BY StoreDef DEF Answer
  <2>2. QED
    BY <2>1, StoreDef
<1>5. ASSUME NEW st \in PkStore, NEW a \in Answer PROVE Raised(st, a) \in PkStore
  <2>1. a.credential \in Credentials /\ a.counter \in 0..MaxCounter
    BY DEF Answer
  <2>2. Raised(st, a) \in [DOMAIN st \cup {a.credential} -> 0..MaxCounter]
    BY <2>1, StoreDef DEF Raised
  <2>3. DOMAIN st \cup {a.credential} \in SUBSET Credentials
    BY <2>1, StoreDef
  <2>4. QED
    BY <2>2, <2>3, StoreDef
<1>6. QED
  BY <1>2, <1>3, <1>4, <1>5

(* A request under way answers a challenge. *)
AnswersTyped == PasskeysTypeOK /\ \A r \in PkRequests : pkStage[r] # "idle" => answer[r] \in Answer

Table == /\ pkStage \in [PkRequests -> Stages]
         /\ answer \in [PkRequests -> Answer \cup {None}]
         /\ pkCopy \in [PkRequests -> PkStore]
         /\ \A r \in PkRequests : pkStage[r] # "idle" => answer[r] \in Answer

LEMMA DoneType == ASSUME AnswersTyped, NEW r \in PkRequests, PkDone(r) PROVE Table'
<1> USE PasskeysAssumption
<1>1. NoStore \in PkStore
  BY StoreType
<1>2. \A q \in PkRequests : \/ pkStage'[q] = "idle"
                            \/ pkStage'[q] = pkStage[q] /\ answer'[q] = answer[q]
  BY DEF PkDone, AnswersTyped, PasskeysTypeOK
<1>3. QED
  BY <1>1, <1>2 DEF PkDone, AnswersTyped, PasskeysTypeOK, Table, Stages

LEMMA GotoType ==
    ASSUME AnswersTyped, NEW r \in PkRequests, NEW s \in Stages, PkGoto(r, s), pkStage[r] # "idle"
    PROVE  Table'
BY DEF PkGoto, AnswersTyped, PasskeysTypeOK, Table

LEMMA BeginType ==
    ASSUME AnswersTyped, NEW r \in PkRequests, NEW a \in Answer, Begin(r, a)
    PROVE  Table'
BY DEF Begin, AnswersTyped, PasskeysTypeOK, Table, Stages

LEMMA ReadyType ==
    ASSUME AnswersTyped, NEW r \in PkRequests, NEW st \in PkStore, pkStage[r] # "idle",
           pkCopy' = [pkCopy EXCEPT ![r] = st], pkStage' = [pkStage EXCEPT ![r] = "ready"],
           UNCHANGED answer
    PROVE  Table'
BY DEF AnswersTyped, PasskeysTypeOK, Table, Stages

LEMMA PasskeysTypeInvariant == PasskeysSpec => []AnswersTyped
<1> USE PasskeysAssumption
<1>0. MaxCounter \in Nat /\ MaxChallenge \in Nat
  BY DEF PasskeysAssumption
<1>1. PasskeysInit => AnswersTyped
  <2> SUFFICES ASSUME PasskeysInit PROVE AnswersTyped
    OBVIOUS
  <2>1. NoStore \in PkStore
    BY StoreType
  <2>2. Table
    BY <2>1 DEF PasskeysInit, Table, Stages
  <2>3. signed \in [Credentials -> 0..MaxCounter] /\ issued \in 0..MaxChallenge
    BY <1>0 DEF PasskeysInit
  <2>4. QED
    BY <2>1, <2>2, <2>3 DEF PasskeysInit, AnswersTyped, PasskeysTypeOK, Table, Unreadable
<1>2. AnswersTyped /\ [PasskeysNext]_passkeys => AnswersTyped'
  <2> SUFFICES ASSUME AnswersTyped, [PasskeysNext]_passkeys PROVE AnswersTyped'
    OBVIOUS
  <2>1. ASSUME NEW kind \in {"enrol", "login"}, NewChallenge(kind) PROVE AnswersTyped'
    <3>1. issued' \in 0..MaxChallenge /\ issued' \in Challenges
      BY <1>0, <2>1 DEF NewChallenge, AnswersTyped, PasskeysTypeOK, Challenges
    <3>2. pending' \in Pending
      BY <2>1, <3>1 DEF NewChallenge, Pending
    <3>3. QED
      BY <2>1, <3>1, <3>2 DEF NewChallenge, AnswersTyped, PasskeysTypeOK, pkRequest, pkHistory
  <2>2. CASE Expire
    BY <2>2 DEF Expire, AnswersTyped, PasskeysTypeOK, pkRequest, pkHistory
  <2>3. CASE PkRestart
    <3>1. Table'
      BY <2>3, StoreType DEF PkRestart, Table, Stages
    <3>2. QED
      BY <2>3, <3>1 DEF PkRestart, AnswersTyped, PasskeysTypeOK, Table
  <2>4. ASSUME NEW r \in PkRequests, NEW c \in Credentials, PkBeginEnrol(r, c) PROVE AnswersTyped'
    <3>1. [id |-> pending.id, credential |-> c, counter |-> 0] \in Answer
      BY <1>0, <2>4 DEF PkBeginEnrol, AnswersTyped, PasskeysTypeOK, Pending, Answer
    <3>2. Table'
      BY <2>4, <3>1, BeginType DEF PkBeginEnrol
    <3>3. QED
      BY <2>4, <3>2 DEF PkBeginEnrol, pkHistory, AnswersTyped, PasskeysTypeOK, Table
  <2>5. ASSUME NEW r \in PkRequests, NEW c \in Credentials, BeginLogin(r, c) PROVE AnswersTyped'
    <3>1. signed' \in [Credentials -> 0..MaxCounter] /\ signed'[c] \in 0..MaxCounter
      BY <1>0, <2>5 DEF BeginLogin, AnswersTyped, PasskeysTypeOK
    <3>2. [id |-> pending.id, credential |-> c, counter |-> signed'[c]] \in Answer
      BY <2>5, <3>1 DEF BeginLogin, AnswersTyped, PasskeysTypeOK, Pending, Answer
    <3>3. Table'
      BY <2>5, <3>2, BeginType DEF BeginLogin
    <3>4. QED
      BY <2>5, <3>1, <3>3 DEF BeginLogin, pkHistory, AnswersTyped, PasskeysTypeOK, Table
  <2>6. ASSUME NEW r \in PkRequests, NEW q \in PkRequests, Resubmit(r, q) PROVE AnswersTyped'
    <3>1. answer[q] \in Answer
      BY <2>6 DEF Resubmit, AnswersTyped, PasskeysTypeOK
    <3>2. Table'
      BY <2>6, <3>1, BeginType DEF Resubmit
    <3>3. QED
      BY <2>6, <3>2 DEF Resubmit, pkHistory, AnswersTyped, PasskeysTypeOK, Table
  <2>7. ASSUME NEW r \in PkRequests, AddCredential(r) PROVE AnswersTyped'
    <3>1. answer[r] \in Answer /\ answer[r].credential \in Credentials
      BY <2>7 DEF AddCredential, AnswersTyped, Answer
    <3>2. With(IF store \in PkStore THEN store ELSE NoStore, answer[r].credential) \in PkStore
      BY <3>1, StoreType
    <3>3. Table'
      BY <2>7, <3>2, ReadyType DEF AddCredential
    <3>4. pkKept' \in BOOLEAN
      BY <2>7 DEF AddCredential, Enter
    <3>5. QED
      BY <2>7, <3>3, <3>4 DEF AddCredential, AnswersTyped, PasskeysTypeOK, Table
  <2>8. ASSUME NEW r \in PkRequests, CheckCounter(r) PROVE AnswersTyped'
    <3>1. Table'
      BY <2>8, DoneType, GotoType DEF CheckCounter, Stages
    <3>2. pkKept' \in BOOLEAN
      BY <2>8 DEF CheckCounter, Enter, AnswersTyped, PasskeysTypeOK
    <3>3. QED
      BY <2>8, <3>1, <3>2 DEF CheckCounter, AnswersTyped, PasskeysTypeOK, Table
  <2>9. ASSUME NEW r \in PkRequests, SetCounter(r) PROVE AnswersTyped'
    <3>1. answer[r] \in Answer
      BY <2>9 DEF SetCounter, AnswersTyped
    <3>2. CASE store \in PkStore
      <4>1. [c \in DOMAIN store |-> IF c = answer[r].credential
                                    THEN answer[r].counter ELSE store[c]] \in PkStore
        BY <3>1, <3>2, StoreType
      <4>2. Table'
        BY <2>9, <3>2, <4>1, ReadyType DEF SetCounter
      <4>3. QED
        BY <2>9, <4>2 DEF SetCounter, pkHistory, AnswersTyped, PasskeysTypeOK, Table
    <3>3. CASE store \notin PkStore
      BY <2>9, <3>3, DoneType DEF SetCounter, pkHistory, AnswersTyped, PasskeysTypeOK, Table
    <3>4. QED
      BY <3>2, <3>3
  <2>10. ASSUME NEW r \in PkRequests, OpenStore(r) PROVE AnswersTyped'
    <3>1. Table'
      BY <2>10, GotoType DEF OpenStore, Stages
    <3>2. QED
      BY <2>10, <3>1 DEF OpenStore, Unreadable, pkHistory, AnswersTyped, PasskeysTypeOK, Table
  <2>11. ASSUME NEW r \in PkRequests, WriteStore(r) PROVE AnswersTyped'
    <3>1. Table'
      BY <2>11, DoneType, GotoType DEF WriteStore, Stages
    <3>2. counters' \in PkStore
      BY <2>11, StoreType DEF WriteStore, AnswersTyped, PasskeysTypeOK
    <3>3. store' \in PkStore \cup Unreadable
      BY <2>11 DEF WriteStore, Overwritten, Unreadable, AnswersTyped, PasskeysTypeOK
    <3>4. QED
      BY <2>11, <3>1, <3>2, <3>3 DEF WriteStore, AnswersTyped, PasskeysTypeOK, Table
  <2>12. ASSUME NEW r \in PkRequests, PkSaveFails(r) PROVE AnswersTyped'
    <3>1. Table'
      BY <2>12, DoneType, GotoType DEF PkSaveFails, Stages
    <3>2. QED
      BY <2>12, <3>1 DEF PkSaveFails, AnswersTyped, PasskeysTypeOK, Table
  <2>13. ASSUME NEW r \in PkRequests, Finish(r) PROVE AnswersTyped'
    <3>1. Table'
      BY <2>13, DoneType DEF Finish
    <3>2. accepted' \in [Challenges -> Nat]
      <4>1. answer[r].id \in Challenges
        BY <2>13 DEF Finish, AnswersTyped, Answer
      <4>2. QED
        BY <2>13, <4>1 DEF Finish, AnswersTyped, PasskeysTypeOK
    <3>3. QED
      BY <2>13, <3>1, <3>2 DEF Finish, AnswersTyped, PasskeysTypeOK, Table
  <2>14. ASSUME NEW r \in PkRequests, PkHangUp(r) PROVE AnswersTyped'
    <3>1. Table'
      BY <2>14, DoneType DEF PkHangUp
    <3>2. QED
      BY <2>14, <3>1 DEF PkHangUp, pkHistory, AnswersTyped, PasskeysTypeOK, Table
  <2>15. CASE UNCHANGED passkeys
    BY <2>15 DEF passkeys, pkRequest, pkHistory, AnswersTyped, PasskeysTypeOK
  <2>16. QED
    BY <2>1, <2>2, <2>3, <2>4, <2>5, <2>6, <2>7, <2>8, <2>9, <2>10, <2>11, <2>12, <2>13,
       <2>14, <2>15 DEF PasskeysNext, PkServe
<1>3. QED
  BY <1>1, <1>2, PTL DEF PasskeysSpec

(* Every reachable state has the right types. *)
THEOREM PasskeysTypeCorrect == PasskeysSpec => []PasskeysTypeOK
<1> USE PasskeysAssumption
<1>1. AnswersTyped => PasskeysTypeOK
  BY DEF AnswersTyped
<1>2. QED
  BY <1>1, PasskeysTypeInvariant, PTL

-----------------------------------------------------------------------------
(* The logins that answer a challenge. *)
Answering(id) == {r \in Logins : answer[r] # None /\ answer[r].id = id}

Open(id) == pending # None /\ pending.id = id

(* No challenge was accepted before it was closed; then the logins         *)
(* accepted, and those that still may be, are at most all there are.       *)
Bounded(id) ==
    /\ Open(id) \/ issued < id => accepted[id] = 0
    /\ ~Open(id) => accepted[id] + Cardinality(Answering(id)) <= Cardinality(Logins)

BoundInv ==
    /\ pending # None => pending.id <= issued
    /\ \A r \in PkRequests : answer[r] # None => answer[r].id <= issued
    /\ \A id \in Challenges : Bounded(id)

LEMMA AnsweringFinite ==
    ASSUME NEW id
    PROVE  /\ IsFiniteSet(Answering(id)) /\ Cardinality(Answering(id)) \in Nat
           /\ Cardinality(Answering(id)) <= Cardinality(Logins) /\ Cardinality(Logins) \in Nat
<1> USE PasskeysAssumption
<1>1. IsFiniteSet(Logins) /\ Answering(id) \subseteq Logins
  BY DEF PasskeysAssumption, Answering
<1>2. QED
  BY <1>1, FS_Subset, FS_CardinalityType

(* Requests that end or stay leave a challenge bounded. *)
LEMMA FewerBounded ==
    ASSUME AnswersTyped, NEW id \in Challenges, Bounded(id),
           accepted'[id] = accepted[id], issued <= issued', issued' \in Nat, 
           (Open(id))' => Open(id) \/ issued < id,
           ~(Open(id))' => Answering(id)' \subseteq Answering(id) \/ accepted[id] = 0
    PROVE  Bounded(id)'
<1> USE PasskeysAssumption
<1>1. accepted[id] \in Nat /\ id \in Nat /\ issued \in Nat
  BY DEF AnswersTyped, PasskeysTypeOK, Challenges, PasskeysAssumption
<1>2. (Open(id) \/ issued < id)' => accepted'[id] = 0
  BY <1>1 DEF Bounded
<1>3. ASSUME ~(Open(id))' PROVE (accepted[id] + Cardinality(Answering(id)) <= Cardinality(Logins))'
  <2>1. IsFiniteSet(Logins) /\ Answering(id)' \subseteq Logins
    BY DEF PasskeysAssumption, Answering
  <2>2. Cardinality(Answering(id)') <= Cardinality(Logins) /\ Cardinality(Answering(id)') \in Nat
        /\ Cardinality(Logins) \in Nat
    BY <2>1, FS_Subset, FS_CardinalityType
  <2>3. CASE accepted[id] = 0
    BY <2>2, <2>3
  <2>4. CASE accepted[id] # 0 
    <3>1. ~Open(id) /\ Answering(id)' \subseteq Answering(id)
      BY <1>3, <2>4 DEF Bounded
    <3>2. Cardinality(Answering(id)') <= Cardinality(Answering(id))
      BY <3>1, AnsweringFinite, FS_Subset
    <3>3. QED
      BY <1>1, <2>2, <3>1, <3>2, AnsweringFinite DEF Bounded
  <2>5. QED
    BY <2>3, <2>4
<1>4. QED
  BY <1>2, <1>3 DEF Bounded

(* A step that gives no login and no answer to a closed challenge.         *)
LEMMA QuietStep ==
    ASSUME AnswersTyped, AnswersTyped', BoundInv,
           UNCHANGED <<issued, accepted>>, pending' = pending \/ pending' = None,
           \A q \in PkRequests : \/ answer'[q] \in {answer[q], None}
                                 \/ answer'[q] # None /\ pending' # None /\ answer'[q].id = pending'.id
                                 \/ q \in Enrolments /\ answer'[q].id <= issued
    PROVE  BoundInv'
<1> USE PasskeysAssumption
<1>1. \A q \in PkRequests : answer'[q] # None => answer'[q].id <= issued'
  BY DEF BoundInv, Open
<1>2. ASSUME NEW id \in Challenges PROVE Bounded(id)'
  <2>1. Bounded(id) /\ issued' \in Nat /\ issued <= issued'
    BY DEF BoundInv, AnswersTyped, PasskeysTypeOK, PasskeysAssumption
  <2>2. (Open(id))' => Open(id)
    BY DEF Open
  <2>3. ASSUME ~(Open(id))' PROVE Answering(id)' \subseteq Answering(id)
    <3>1. ASSUME NEW q \in Logins, answer'[q] # None, answer'[q].id = id
          PROVE  answer'[q] = answer[q]
      BY <2>3, <3>1 DEF Open, PkRequests, PasskeysAssumption
    <3>2. QED
      BY <3>1 DEF Answering
  <2>4. QED
    BY <2>1, <2>2, <2>3, FewerBounded
<1>3. QED
  BY <1>1, <1>2 DEF BoundInv

LEMMA DoneAnswers ==
    ASSUME AnswersTyped, NEW r \in PkRequests, PkDone(r) \/ UNCHANGED answer
    PROVE  \A q \in PkRequests : answer'[q] \in {answer[q], None}
BY DEF PkDone, AnswersTyped, PasskeysTypeOK

(* The login that ends takes one answer away from its challenge. *)
LEMMA FinishBounded ==
    ASSUME AnswersTyped, AnswersTyped', BoundInv, NEW r \in Logins, Finish(r)
    PROVE  BoundInv'
<1> USE PasskeysAssumption
<1>1. r \in PkRequests /\ answer[r] \in Answer /\ answer[r] # None /\ answer[r].id \in Challenges
  BY DEF PkRequests, Finish, AnswersTyped, Answer, PasskeysAssumption
<1>2. \A q \in PkRequests : answer'[q] = IF q = r THEN None ELSE answer[q]
  BY <1>1 DEF Finish, PkDone, AnswersTyped, PasskeysTypeOK
<1>3. pending' = None /\ issued' = issued /\ issued \in Nat
  BY DEF Finish, AnswersTyped, PasskeysTypeOK, PasskeysAssumption
<1>4. \A q \in PkRequests : answer'[q] # None => answer'[q].id <= issued'
  BY <1>2, <1>3 DEF BoundInv
<1>5. \A id \in Challenges : Answering(id)' \subseteq Answering(id)
  BY <1>1, <1>2 DEF Answering, PkRequests
<1>6. ASSUME NEW id \in Challenges, id # answer[r].id PROVE Bounded(id)'
  <2>1. accepted'[id] = accepted[id]
    BY <1>1, <1>6 DEF Finish, AnswersTyped, PasskeysTypeOK
  <2>2. ~(Open(id))' /\ Bounded(id)
    BY <1>3 DEF Open, BoundInv
  <2>3. QED
    BY <1>3, <1>5, <2>1, <2>2, FewerBounded
<1>7. ASSUME NEW id \in Challenges, id = answer[r].id PROVE Bounded(id)'
  <2>1. accepted'[id] = accepted[id] + 1 /\ accepted[id] \in Nat
    BY <1>1, <1>7 DEF Finish, AnswersTyped, PasskeysTypeOK
  <2>2. id <= issued /\ id \in Nat
    BY <1>1, <1>7 DEF BoundInv, Challenges
  <2>3. ~(Open(id))' /\ ~(issued < id)'
    BY <1>3, <2>2 DEF Open
  <2>4. Answering(id)' = Answering(id) \ {r} /\ r \in Answering(id)
    BY <1>1, <1>2, <1>7 DEF Answering, PkRequests
  <2>5. /\ Cardinality(Answering(id)') = Cardinality(Answering(id)) - 1
        /\ Cardinality(Answering(id)) <= Cardinality(Logins)
        /\ Cardinality(Answering(id)) \in Nat /\ Cardinality(Logins) \in Nat
    BY <2>4, AnsweringFinite, FS_RemoveElement
  <2>6. accepted[id] + Cardinality(Answering(id)) <= Cardinality(Logins)
    <3>1. CASE Open(id)
      BY <3>1, <2>5 DEF BoundInv, Bounded
    <3>2. CASE ~Open(id)
      BY <3>2 DEF BoundInv, Bounded
    <3>3. QED
      BY <3>1, <3>2
  <2>7. accepted'[id] + Cardinality(Answering(id)') <= Cardinality(Logins)
    BY <2>1, <2>5, <2>6
  <2>8. QED
    BY <2>3, <2>7 DEF Bounded
<1>8. QED
  BY <1>3, <1>4, <1>6, <1>7 DEF BoundInv

(* A challenge gives at most as many logins as there are requests: those   *)
(* already given and those that may still come are counted together from   *)
(* the moment the challenge is closed.                                     *)
THEOREM ChallengeOnce == PasskeysSpec => []ChallengeBounded
<1> USE PasskeysAssumption
<1>1. PasskeysInit => BoundInv
  <2> SUFFICES ASSUME PasskeysInit PROVE BoundInv
    OBVIOUS
  <2>1. ASSUME NEW id \in Challenges PROVE Bounded(id)
    <3>1. accepted[id] = 0
      BY DEF PasskeysInit
    <3>2. QED
      BY <3>1, AnsweringFinite DEF Bounded
  <2>2. QED
    BY <2>1 DEF PasskeysInit, BoundInv
<1>2. AnswersTyped /\ AnswersTyped' /\ BoundInv /\ [PasskeysNext]_passkeys => BoundInv'
  <2> SUFFICES ASSUME AnswersTyped, AnswersTyped', BoundInv, [PasskeysNext]_passkeys PROVE BoundInv'
    OBVIOUS
  <2>1. ASSUME NEW kind \in {"enrol", "login"}, NewChallenge(kind) PROVE BoundInv'
    <3>1. issued \in Nat /\ issued' = issued + 1 /\ pending' # None /\ pending'.id = issued'
          /\ answer' = answer /\ accepted' = accepted
      <4>1. pending' \in Pending
        BY <2>1 DEF NewChallenge, AnswersTyped, PasskeysTypeOK, Challenges, Pending, PasskeysAssumption
      <4>2. QED
        BY <2>1, <4>1 DEF NewChallenge, pkRequest, pkHistory, AnswersTyped, PasskeysTypeOK, PasskeysAssumption
    <3>2. \A q \in PkRequests : answer'[q] # None => answer'[q].id <= issued'
      <4>1. \A q \in PkRequests : answer[q] # None => answer[q].id \in Nat
        BY DEF AnswersTyped, PasskeysTypeOK, Answer, Challenges
      <4>2. QED
        BY <3>1, <4>1 DEF BoundInv
    <3>3. ASSUME NEW id \in Challenges PROVE Bounded(id)'
      <4>1. Bounded(id) /\ (Open(id))' => issued < id
        BY <3>1 DEF BoundInv, Open
      <4>2. Bounded(id) /\ Answering(id)' = Answering(id)
        BY <3>1 DEF BoundInv, Answering
      <4>3. QED
        BY <3>1, <4>1, <4>2, FewerBounded
    <3>4. QED
      BY <3>1, <3>2, <3>3 DEF BoundInv
  <2>2. CASE Expire
    BY <2>2, QuietStep DEF Expire, pkRequest, pkHistory
  <2>3. CASE PkRestart
    BY <2>3, QuietStep DEF PkRestart
  <2>4. ASSUME NEW r \in PkRequests, NEW c \in Credentials, PkBeginEnrol(r, c) PROVE BoundInv'
    <3>1. answer'[r].id = pending.id /\ pending.id <= issued
      BY <2>4 DEF PkBeginEnrol, Begin, AnswersTyped, PasskeysTypeOK, BoundInv
    <3>2. \A q \in PkRequests \ {r} : answer'[q] = answer[q]
      BY <2>4 DEF PkBeginEnrol, Begin, AnswersTyped, PasskeysTypeOK
    <3>3. QED
      BY <2>4, <3>1, <3>2, QuietStep DEF PkBeginEnrol, pkHistory
  <2>5. ASSUME NEW r \in PkRequests, NEW c \in Credentials, BeginLogin(r, c) PROVE BoundInv'
    <3>1. answer'[r].id = pending.id /\ answer'[r] \in Answer
      BY <2>5 DEF BeginLogin, Begin, AnswersTyped, PasskeysTypeOK
    <3>2. answer'[r] # None /\ pending' # None /\ answer'[r].id = pending'.id
      BY <2>5, <3>1 DEF BeginLogin, PasskeysAssumption
    <3>3. \A q \in PkRequests \ {r} : answer'[q] = answer[q]
      BY <2>5 DEF BeginLogin, Begin, AnswersTyped, PasskeysTypeOK
    <3>4. QED
      BY <2>5, <3>2, <3>3, QuietStep DEF BeginLogin, pkHistory
  <2>6. ASSUME NEW r \in PkRequests, NEW q \in PkRequests, Resubmit(r, q) PROVE BoundInv'
    <3>1. answer'[r] = answer[q] /\ answer[q] # None /\ answer[q].id = pending.id
      BY <2>6 DEF Resubmit, Begin, AnswersTyped, PasskeysTypeOK
    <3>2. answer'[r] # None /\ pending' # None /\ answer'[r].id = pending'.id
      BY <2>6, <3>1 DEF Resubmit
    <3>3. \A p \in PkRequests \ {r} : answer'[p] = answer[p]
      BY <2>6 DEF Resubmit, Begin, AnswersTyped, PasskeysTypeOK
    <3>4. QED
      BY <2>6, <3>2, <3>3, QuietStep DEF Resubmit, pkHistory
  <2>7. ASSUME NEW r \in PkRequests,
               AddCredential(r) \/ CheckCounter(r) \/ SetCounter(r) \/ OpenStore(r)
               \/ WriteStore(r) \/ PkSaveFails(r) \/ PkHangUp(r)
        PROVE  BoundInv'
    <3>1. UNCHANGED <<issued, accepted, pending>> /\ (PkDone(r) \/ UNCHANGED answer)
      BY <2>7 DEF AddCredential, CheckCounter, SetCounter, OpenStore, WriteStore, PkSaveFails,
                  PkHangUp, PkGoto, pkHistory
    <3>2. QED
      BY <3>1, DoneAnswers, QuietStep
  <2>8. ASSUME NEW r \in PkRequests, Finish(r) PROVE BoundInv'
    <3>1. CASE r \in Logins
      BY <2>8, <3>1, FinishBounded
    <3>2. CASE r \notin Logins
      <4>1. UNCHANGED <<issued, accepted>> /\ pending' = None /\ PkDone(r)
        BY <2>8, <3>2 DEF Finish
      <4>2. QED
        BY <4>1, DoneAnswers, QuietStep
    <3>3. QED
      BY <3>1, <3>2
  <2>9. CASE UNCHANGED passkeys
    BY <2>9, QuietStep DEF passkeys, pkRequest, pkHistory
  <2>10. QED
    BY <2>1, <2>2, <2>3, <2>4, <2>5, <2>6, <2>7, <2>8, <2>9 DEF PasskeysNext, PkServe
<1>3. AnswersTyped /\ BoundInv => ChallengeBounded
  <2> SUFFICES ASSUME AnswersTyped, BoundInv, NEW id \in Challenges
               PROVE  accepted[id] <= Cardinality(Logins)
    BY DEF ChallengeBounded
  <2>1. accepted[id] \in Nat /\ Bounded(id)
    BY DEF AnswersTyped, PasskeysTypeOK, BoundInv
  <2>2. QED
    BY <2>1, AnsweringFinite DEF Bounded
<1>4. QED
  BY <1>1, <1>2, <1>3, PasskeysTypeInvariant, PTL DEF PasskeysSpec

-----------------------------------------------------------------------------
(* The store *)

(* An enrolment answers with a counter of zero. *)
FromZero == \A r \in Enrolments : answer[r] # None => answer[r].counter = 0

Covers(st) ==
    st \in PkStore /\ \A c \in DOMAIN counters : c \in DOMAIN st /\ st[c] >= counters[c]

(* What a request that is changing the store knows of it: the counter it   *)
(* compared is still there, and the copy it saves is no lower anywhere and *)
(* has what was answered.                                                  *)
StoreChange(r) ==
    /\ pkStage[r] = "checked" =>
          /\ Known(store, answer[r].credential)
          /\ store[answer[r].credential] < answer[r].counter
    /\ pkStage[r] \in {"ready", "opened"} =>
          /\ Covers(pkCopy[r]) /\ answer[r].credential \in DOMAIN pkCopy[r]
          /\ pkCopy[r][answer[r].credential] >= answer[r].counter
    /\ pkStage[r] = "opened" => store = Empty

NobodyWrites == \A r \in PkRequests : pkStage[r] # "opened"

StoreStays ==
    /\ \A q, r \in PkRequests : PkChanging(q) /\ PkChanging(r) => q = r
    /\ \A r \in PkRequests : StoreChange(r)
    /\ NobodyWrites => Covers(store) \/ (store = Absent /\ counters = NoStore)

KeptInv == pkKept => StoreStays

SameRequest(q) ==
    pkStage'[q] = pkStage[q] /\ answer'[q] = answer[q] /\ pkCopy'[q] = pkCopy[q]

(* A step that leaves the store alone, after which a request is either as  *)
(* it was or changes nothing, and did not have the file open.              *)
LEMMA QuietKept ==
    ASSUME KeptInv, UNCHANGED <<store, counters>>, pkKept' => pkKept,
           pkKept' => \A q \in PkRequests :
               SameRequest(q) \/ (pkStage[q] # "opened" /\ ~PkChanging(q)')
    PROVE  KeptInv'
<1> SUFFICES ASSUME pkKept' PROVE StoreStays'
  BY DEF KeptInv
<1>1. StoreStays /\ \A q \in PkRequests :
               SameRequest(q) \/ (pkStage[q] # "opened" /\ ~PkChanging(q)')
  BY DEF KeptInv
<1>2. \A q \in PkRequests : PkChanging(q)' => PkChanging(q)
  BY <1>1 DEF SameRequest, PkChanging
<1>3. \A q, r \in PkRequests : PkChanging(q)' /\ PkChanging(r)' => q = r
  BY <1>1, <1>2 DEF StoreStays
<1>4. ASSUME NEW r \in PkRequests PROVE StoreChange(r)'
  <2>1. CASE SameRequest(r)
    BY <1>1, <2>1 DEF StoreStays, StoreChange, SameRequest, Covers, Known
  <2>2. CASE ~PkChanging(r)'
    BY <2>2 DEF PkChanging, StoreChange
  <2>3. QED
    BY <1>1, <2>1, <2>2
<1>5. NobodyWrites' => NobodyWrites
  BY <1>1 DEF NobodyWrites, SameRequest
<1>6. QED
  BY <1>1, <1>3, <1>4, <1>5 DEF StoreStays, Covers

LEMMA DoneSame ==
    ASSUME AnswersTyped, NEW r \in PkRequests, PkDone(r)
    PROVE  ~PkChanging(r)' /\ \A q \in PkRequests \ {r} : SameRequest(q)
BY DEF PkDone, AnswersTyped, PasskeysTypeOK, SameRequest, PkChanging

LEMMA GotoSame ==
    ASSUME AnswersTyped, NEW r \in PkRequests, NEW s, PkGoto(r, s)
    PROVE  /\ pkStage'[r] = s /\ answer'[r] = answer[r] /\ pkCopy'[r] = pkCopy[r]
           /\ \A q \in PkRequests \ {r} : SameRequest(q)
BY DEF PkGoto, AnswersTyped, PasskeysTypeOK, SameRequest

LEMMA BeginSame ==
    ASSUME AnswersTyped, NEW r \in PkRequests, NEW a, Begin(r, a)
    PROVE  /\ ~PkChanging(r)' /\ pkStage[r] # "opened"
           /\ \A q \in PkRequests \ {r} : SameRequest(q)
BY DEF Begin, AnswersTyped, PasskeysTypeOK, SameRequest, PkChanging

(* A request that begins to change the store while nobody else does, or    *)
(* goes on.                                                                *)
LEMMA OnlyOne ==
    ASSUME StoreStays, NEW r \in PkRequests, UNCHANGED <<store, counters>>,
           PkChanging(r) \/ ~\E q \in PkRequests \ {r} : PkChanging(q),
           pkStage[r] # "opened", pkStage'[r] # "opened",
           \A q \in PkRequests \ {r} : SameRequest(q),
           StoreChange(r)'
    PROVE  StoreStays'
<1>1. \A q \in PkRequests \ {r} : ~PkChanging(q) /\ ~PkChanging(q)'
  BY DEF StoreStays, SameRequest, PkChanging
<1>2. \A q \in PkRequests : StoreChange(q)'
  BY <1>1 DEF StoreChange, PkChanging
<1>3. NobodyWrites
  BY <1>1 DEF NobodyWrites, PkChanging
<1>4. \A p, q \in PkRequests : PkChanging(p)' /\ PkChanging(q)' => p = q
  BY <1>1
<1>5. QED
  BY <1>2, <1>3, <1>4 DEF StoreStays, Covers

LEMMA AddKept ==
    ASSUME AnswersTyped, FromZero, KeptInv, NEW r \in PkRequests, AddCredential(r)
    PROVE  KeptInv'
<1> SUFFICES ASSUME pkKept' PROVE StoreStays'
  BY DEF KeptInv
<1>1. StoreStays /\ ~\E q \in PkRequests \ {r} : PkChanging(q)
  BY DEF AddCredential, Enter, KeptInv
<1> DEFINE c == answer[r].credential
           st == IF store \in PkStore THEN store ELSE NoStore
<1>2. /\ r \in Enrolments /\ pkStage[r] = "answered"
      /\ pkStage'[r] = "ready" /\ answer'[r] = answer[r] /\ pkCopy'[r] = With(st, c)
      /\ \A q \in PkRequests \ {r} : SameRequest(q)
      /\ UNCHANGED <<store, counters>>
  BY DEF AddCredential, AnswersTyped, PasskeysTypeOK, SameRequest
<1>3. answer[r] \in Answer /\ c \in Credentials
  BY <1>2 DEF AnswersTyped, Answer
<1>4. Covers(st)
  <2>1. NobodyWrites
    BY <1>1, <1>2 DEF NobodyWrites, PkChanging
  <2>2. CASE Covers(store)
    BY <2>2 DEF Covers
  <2>3. CASE store = Absent /\ counters = NoStore
    BY <2>3, StoreType, PasskeysAssumption DEF Covers, NoStore, Unreadable, PasskeysAssumption
  <2>4. QED
    BY <1>1, <2>1, <2>2, <2>3 DEF StoreStays
<1>5. /\ DOMAIN With(st, c) = DOMAIN st \cup {c}
      /\ \A d \in DOMAIN st : With(st, c)[d] = st[d]
      /\ With(st, c) \in PkStore
  BY <1>3, <1>4, StoreType DEF With, Covers
<1>6. Covers(With(st, c))
  BY <1>4, <1>5 DEF Covers
<1>7. answer[r].counter = 0 => With(st, c)[c] >= answer[r].counter
  <2>1. With(st, c)[c] \in 0..MaxCounter
    BY <1>5, StoreDef
  <2>2. QED
    BY <2>1, PasskeysAssumption DEF PasskeysAssumption
<1> HIDE DEF c, st
<1>8. answer[r].counter = 0
  BY <1>2, <1>3, PasskeysAssumption DEF FromZero, PasskeysAssumption
<1>9. StoreChange(r)'
  BY <1>2, <1>5, <1>6, <1>7, <1>8 DEF StoreChange, Covers, c
<1>10. QED
  BY <1>1, <1>2, <1>9, OnlyOne

LEMMA CheckKept ==
    ASSUME AnswersTyped, KeptInv, NEW r \in PkRequests, CheckCounter(r)
    PROVE  KeptInv'
<1>1. UNCHANGED <<store, counters>> /\ pkStage[r] = "answered"
  BY DEF CheckCounter
<1>2. CASE PkDone(r) /\ UNCHANGED pkKept
  BY <1>1, <1>2, DoneSame, QuietKept
<1>3. CASE PkGoto(r, "checked") /\ Enter(r) /\ Known(store, answer[r].credential)
           /\ store[answer[r].credential] < answer[r].counter
  <2> SUFFICES ASSUME pkKept' PROVE StoreStays'
    BY DEF KeptInv
  <2>1. StoreStays /\ ~\E q \in PkRequests \ {r} : PkChanging(q)
    BY <1>3 DEF Enter, KeptInv
  <2>2. StoreChange(r)'
    BY <1>1, <1>3, GotoSame DEF StoreChange, Known
  <2>3. QED
    BY <1>1, <1>3, <2>1, <2>2, GotoSame, OnlyOne
<1>4. QED
  BY <1>2, <1>3 DEF CheckCounter

LEMMA SetKept ==
    ASSUME AnswersTyped, KeptInv, NEW r \in PkRequests, SetCounter(r)
    PROVE  KeptInv'
<1>1. UNCHANGED <<store, counters, pkKept>> /\ pkStage[r] = "checked"
  BY DEF SetCounter, pkHistory
<1>2. CASE store \notin PkStore
  BY <1>1, <1>2, DoneSame, QuietKept DEF SetCounter
<1>3. CASE store \in PkStore
  <2> SUFFICES ASSUME pkKept' PROVE StoreStays'
    BY DEF KeptInv
  <2> DEFINE a == answer[r]
             st == [c \in DOMAIN store |-> IF c = a.credential THEN a.counter ELSE store[c]]
  <2>1. StoreStays
    BY <1>1 DEF KeptInv
  <2>2. /\ pkStage'[r] = "ready" /\ answer'[r] = a /\ pkCopy'[r] = st
        /\ \A q \in PkRequests \ {r} : SameRequest(q)
    BY <1>3 DEF SetCounter, AnswersTyped, PasskeysTypeOK, SameRequest
  <2>3. a \in Answer /\ a.counter \in 0..MaxCounter /\ MaxCounter \in Nat
    BY <1>1, PasskeysAssumption DEF AnswersTyped, Answer, PasskeysAssumption
  <2>4. st \in PkStore /\ DOMAIN st = DOMAIN store
    BY <1>3, <2>3, StoreType
  <2>5. a.credential \in DOMAIN store /\ store[a.credential] < a.counter
    BY <1>1, <2>1 DEF StoreStays, StoreChange, Known
  <2>6. PkChanging(r)
    BY <1>1 DEF PkChanging
  <2>7. NobodyWrites
    BY <1>1, <2>1, <2>6 DEF StoreStays, NobodyWrites, PkChanging
  <2>8. store # Absent
    BY <1>3, PasskeysAssumption DEF PasskeysAssumption, Unreadable
  <2>9. Covers(store)
    BY <2>1, <2>7, <2>8 DEF StoreStays
  <2>10. st[a.credential] = a.counter
         /\ \A c \in DOMAIN store : c # a.credential => st[c] = store[c]
    BY <2>5
  <2>11. \A c \in DOMAIN store : store[c] \in Nat
    BY <1>3, <2>3, StoreDef
  <2>12. \A c \in DOMAIN counters : counters[c] \in Nat
    BY <2>3, StoreDef DEF AnswersTyped, PasskeysTypeOK
  <2> HIDE DEF a, st
  <2>13. ASSUME NEW c \in DOMAIN counters PROVE c \in DOMAIN st /\ st[c] >= counters[c]
    <3>1. c \in DOMAIN st /\ store[c] >= counters[c]
      BY <2>4, <2>9 DEF Covers
    <3>2. CASE c = a.credential
      BY <3>1, <3>2, <2>3, <2>4, <2>5, <2>10, <2>11, <2>12
    <3>3. CASE c # a.credential
      BY <3>1, <3>3, <2>4, <2>10
    <3>4. QED
      BY <3>1, <3>2, <3>3
  <2>14. Covers(st)
    BY <2>4, <2>13 DEF Covers
  <2>15. StoreChange(r)'
    BY <1>1, <2>2, <2>3, <2>4, <2>5, <2>10, <2>14 DEF StoreChange, Covers
  <2>16. QED
    BY <1>1, <2>1, <2>2, <2>6, <2>15, OnlyOne
<1>4. QED
  BY <1>2, <1>3

LEMMA ZeroKept ==
    ASSUME AnswersTyped, FromZero, [PasskeysNext]_passkeys
    PROVE  FromZero'
<1> USE PasskeysAssumption DEF PasskeysAssumption
<1>1. ASSUME NEW r \in PkRequests, NEW a, Begin(r, a),
             r \in Enrolments => a.counter = 0
      PROVE  FromZero'
  <2>1. answer' = [answer EXCEPT ![r] = a]
    BY <1>1 DEF Begin
  <2>2. QED
    BY <1>1, <2>1 DEF FromZero, AnswersTyped, PasskeysTypeOK, PkRequests
<1>2. ASSUME \A q \in PkRequests : answer'[q] \in {answer[q], None} PROVE FromZero'
  BY <1>2 DEF FromZero, PkRequests
<1>3. ASSUME NEW r \in PkRequests, NEW c \in Credentials,
             PkBeginEnrol(r, c) \/ BeginLogin(r, c)
      PROVE  FromZero'
  <2>1. CASE PkBeginEnrol(r, c)
    BY <2>1, <1>1 DEF PkBeginEnrol
  <2>2. CASE BeginLogin(r, c)
    BY <2>2, <1>1 DEF BeginLogin
  <2>3. QED
    BY <1>3, <2>1, <2>2
<1>4. ASSUME NEW r \in PkRequests, NEW q \in PkRequests, Resubmit(r, q) PROVE FromZero'
  BY <1>4, <1>1 DEF Resubmit
<1>5. ASSUME NEW r \in PkRequests,
             AddCredential(r) \/ CheckCounter(r) \/ SetCounter(r) \/ OpenStore(r)
             \/ WriteStore(r) \/ PkSaveFails(r) \/ Finish(r) \/ PkHangUp(r)
      PROVE  FromZero'
  <2>1. PkDone(r) \/ UNCHANGED answer
    BY <1>5 DEF AddCredential, CheckCounter, SetCounter, OpenStore, WriteStore, PkSaveFails,
                Finish, PkHangUp, PkGoto
  <2>2. QED
    BY <2>1, DoneAnswers, <1>2
<1>6. CASE \E kind \in {"enrol", "login"} : NewChallenge(kind)
  BY <1>6, <1>2 DEF NewChallenge, pkRequest
<1>7. CASE Expire \/ PkRestart \/ UNCHANGED passkeys
  BY <1>7, <1>2 DEF Expire, PkRestart, passkeys, pkRequest
<1>8. QED
  BY <1>3, <1>4, <1>5, <1>6, <1>7 DEF PasskeysNext, PkServe

LEMMA OpenKept ==
    ASSUME AnswersTyped, KeptInv, NEW r \in PkRequests, OpenStore(r)
    PROVE  KeptInv'
<1> SUFFICES ASSUME pkKept' PROVE StoreStays'
  BY DEF KeptInv
<1>1. StoreStays /\ pkStage[r] = "ready" /\ store' = Empty /\ UNCHANGED counters /\ PkChanging(r)
  BY DEF OpenStore, pkHistory, KeptInv, PkChanging
<1>2. /\ pkStage'[r] = "opened" /\ answer'[r] = answer[r] /\ pkCopy'[r] = pkCopy[r]
      /\ \A q \in PkRequests \ {r} : SameRequest(q)
  BY GotoSame DEF OpenStore
<1>3. \A q \in PkRequests \ {r} : ~PkChanging(q) /\ ~PkChanging(q)'
  BY <1>1, <1>2 DEF StoreStays, SameRequest, PkChanging
<1>4. StoreChange(r)'
  BY <1>1, <1>2 DEF StoreStays, StoreChange, Covers
<1>5. \A q \in PkRequests : StoreChange(q)'
  BY <1>3, <1>4 DEF StoreChange, PkChanging
<1>6. ~NobodyWrites'
  BY <1>2 DEF NobodyWrites
<1>7. \A p, q \in PkRequests : PkChanging(p)' /\ PkChanging(q)' => p = q
  BY <1>3
<1>8. QED
  BY <1>5, <1>6, <1>7 DEF StoreStays

LEMMA WriteKept ==
    ASSUME AnswersTyped, KeptInv, NEW r \in PkRequests, WriteStore(r)
    PROVE  KeptInv'
<1> SUFFICES ASSUME pkKept' PROVE StoreStays'
  BY DEF KeptInv
<1> DEFINE a == answer[r]
           st == pkCopy[r]
           cs == Raised(counters, a)
<1>1. StoreStays /\ pkStage[r] = "opened" /\ PkChanging(r)
      /\ store' \in Overwritten(store, st) /\ counters' = cs
  BY DEF WriteStore, KeptInv, PkChanging
<1>2. Covers(st) /\ a.credential \in DOMAIN st /\ st[a.credential] >= a.counter /\ store = Empty
  BY <1>1 DEF StoreStays, StoreChange
<1>3. store' = st
  BY <1>1, <1>2 DEF Overwritten
<1>4. ~PkChanging(r)' /\ \A q \in PkRequests \ {r} : SameRequest(q)
  BY DoneSame, GotoSame DEF WriteStore, PkChanging
<1>5. \A q \in PkRequests : ~PkChanging(q)'
  BY <1>1, <1>4 DEF StoreStays, SameRequest, PkChanging
<1>6. ASSUME NEW c \in DOMAIN cs
      PROVE  \/ cs[c] = a.counter /\ c = a.credential
             \/ c \in DOMAIN counters /\ cs[c] = counters[c]
  <2>1. /\ c \in DOMAIN counters \cup {a.credential}
        /\ cs[c] = IF c # a.credential THEN counters[c]
                   ELSE IF c \in DOMAIN counters /\ counters[c] > a.counter
                        THEN counters[c] ELSE a.counter
    BY DEF Raised
  <2> HIDE DEF a, cs
  <2>2. QED
    BY <2>1
<1> HIDE DEF a, st, cs
<1>7. \A c \in DOMAIN cs : c \in DOMAIN st /\ st[c] >= cs[c]
  BY <1>2, <1>6 DEF Covers
<1>8. Covers(store)'
  BY <1>1, <1>2, <1>3, <1>7 DEF Covers
<1>9. QED
  BY <1>5, <1>8 DEF StoreStays, StoreChange, PkChanging

LEMMA KeptInductive ==
    ASSUME AnswersTyped, FromZero, KeptInv, [PasskeysNext]_passkeys
    PROVE  KeptInv'
<1>1. ASSUME NEW r \in PkRequests,
             \/ \E c \in Credentials : PkBeginEnrol(r, c) \/ BeginLogin(r, c)
             \/ \E q \in PkRequests : Resubmit(r, q)
      PROVE  KeptInv'
  <2>1. UNCHANGED <<store, counters, pkKept>> /\ \E a : Begin(r, a)
    BY <1>1 DEF PkBeginEnrol, BeginLogin, Resubmit, pkHistory
  <2>2. QED
    BY <2>1, BeginSame, QuietKept
<1>2. ASSUME NEW r \in PkRequests, Finish(r) \/ PkHangUp(r) PROVE KeptInv'
  <2>1. UNCHANGED <<store, counters, pkKept>> /\ PkDone(r) /\ pkStage[r] # "opened"
    BY <1>2 DEF Finish, PkHangUp, pkHistory
  <2>2. QED
    BY <2>1, DoneSame, QuietKept
<1>3. ASSUME NEW r \in PkRequests, PkSaveFails(r) PROVE KeptInv'
  BY <1>3 DEF PkSaveFails, KeptInv
<1>4. CASE PkRestart
  <2>1. UNCHANGED <<store, counters>> /\ (pkKept' => pkKept /\ NobodyWrites)
    BY <1>4 DEF PkRestart, NobodyWrites
  <2>2. \A q \in PkRequests : ~PkChanging(q)'
    BY <1>4 DEF PkRestart, PkChanging
  <2>3. QED
    BY <2>1, <2>2, QuietKept DEF NobodyWrites
<1>5. CASE Expire \/ UNCHANGED passkeys \/ \E kind \in {"enrol", "login"} : NewChallenge(kind)
  <2>1. UNCHANGED <<store, pkRequest, pkHistory>>
    BY <1>5 DEF Expire, NewChallenge, passkeys
  <2>2. \A q \in PkRequests : SameRequest(q)
    BY <2>1 DEF pkRequest, SameRequest
  <2>3. QED
    BY <2>1, <2>2, QuietKept DEF pkHistory
<1>6. QED
  BY <1>1, <1>2, <1>3, <1>4, <1>5, AddKept, CheckKept, SetKept, OpenKept, WriteKept
     DEF PasskeysNext, PkServe

(* The store keeps every credential, and counters that do not fall, as     *)
(* long as changes do not cross and saves succeed (handlers.rs 807-813).   *)
THEOREM StoreInvariant == PasskeysSpec => []StoreKept
<1>1. PasskeysInit => FromZero /\ KeptInv
  BY PasskeysAssumption DEF PasskeysInit, PkRequests, FromZero, KeptInv, StoreStays, StoreChange, PkChanging
<1>2. AnswersTyped /\ FromZero /\ KeptInv /\ [PasskeysNext]_passkeys => FromZero' /\ KeptInv'
  BY ZeroKept, KeptInductive
<1>3. KeptInv => StoreKept
  <2> SUFFICES ASSUME KeptInv, pkKept
               PROVE  /\ store \in PkStore => \A c \in DOMAIN counters :
                                                 Known(store, c) /\ store[c] >= counters[c]
                      /\ store = Absent => counters = NoStore
                      /\ store \in {Empty, Torn} => \E r \in PkRequests : pkStage[r] = "opened"
    BY DEF StoreKept
  <2> USE PasskeysAssumption DEF PasskeysAssumption, Unreadable
  <2>1. CASE NobodyWrites
    <3>1. Covers(store) \/ (store = Absent /\ counters = NoStore)
      BY <2>1 DEF KeptInv, StoreStays
    <3>2. CASE Covers(store)
      BY <3>2 DEF Covers, Known
    <3>3. CASE store = Absent /\ counters = NoStore
      BY <3>3
    <3>4. QED
      BY <3>1, <3>2, <3>3
  <2>2. CASE ~NobodyWrites
    <3>1. store = Empty
      BY <2>2 DEF KeptInv, StoreStays, StoreChange, NobodyWrites
    <3>2. QED
      BY <2>2, <3>1 DEF NobodyWrites
  <2>3. QED
    BY <2>1, <2>2
<1>4. QED
  BY <1>1, <1>2, <1>3, PasskeysTypeInvariant, PTL DEF PasskeysSpec
=============================================================================
