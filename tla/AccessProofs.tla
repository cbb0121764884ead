---------------------------- MODULE AccessProofs ----------------------------
(* Theorems about what lets somebody in besides the login: here            *)
(* RecoveryCodes, RateLimit and Accounts, for any number of requests,      *)
(* codes, addresses and passwords.                                         *)
EXTENDS MCAccess, PasskeysProofs, TLAPS

(* What a request holds at each stage. *)
Held(r) ==
    /\ rcStage[r] = "admitted" => r \in Recoveries
    /\ rcStage[r] = "enrolling" => r \notin Recoveries
    /\ RcChanging(r) => rcCopy[r] \in Storage
    /\ r \in Recoveries /\ rcStage[r] # "idle" => code[r] \in Code

TypeInv == RecoveryTypeOK /\ \A r \in RcRequests : Held(r)

LEMMA DoneHeld ==
    ASSUME TypeInv, NEW r \in RcRequests, RcDone(r)
    PROVE  /\ \A q \in RcRequests : Held(q)'
           /\ rcStage' \in [RcRequests -> {"idle", "admitted", "enrolling", "ready", "opened", "saved"}]
           /\ code' \in [RcRequests -> Code \cup {NoCode}]
           /\ rcCopy' \in [RcRequests -> Storage \cup {NoCodes}]
<1>1. \A q \in RcRequests : \/ rcStage'[q] = "idle"
                            \/ /\ rcStage'[q] = rcStage[q] /\ code'[q] = code[q]
                               /\ rcCopy'[q] = rcCopy[q]
  BY DEF RcDone, TypeInv, RecoveryTypeOK
<1>2. QED
  BY <1>1 DEF RcDone, TypeInv, RecoveryTypeOK, Held, RcChanging

LEMMA GotoHeld ==
    ASSUME TypeInv, NEW r \in RcRequests, NEW s, RcGoto(r, s),
           \/ s = "enrolling" /\ rcStage[r] = "idle" /\ r \notin Recoveries
           \/ s \in {"opened", "saved"} /\ RcChanging(r)
    PROVE  /\ \A q \in RcRequests : Held(q)'
           /\ rcStage' \in [RcRequests -> {"idle", "admitted", "enrolling", "ready", "opened", "saved"}]
<1>1. \A q \in RcRequests : q # r => rcStage'[q] = rcStage[q]
  BY DEF RcGoto, TypeInv, RecoveryTypeOK
<1>2. rcStage'[r] = s
  BY DEF RcGoto, TypeInv, RecoveryTypeOK
<1>3. QED
  BY <1>1, <1>2 DEF RcGoto, TypeInv, RecoveryTypeOK, Held, RcChanging

LEMMA PrepareHeld ==
    ASSUME TypeInv, NEW r \in RcRequests, NEW codes \in Storage, Prepare(r, codes),
           UNCHANGED code, rcStage[r] \in {"admitted", "enrolling"}
    PROVE  /\ \A q \in RcRequests : Held(q)'
           /\ rcStage' \in [RcRequests -> {"idle", "admitted", "enrolling", "ready", "opened", "saved"}]
           /\ rcCopy' \in [RcRequests -> Storage \cup {NoCodes}]
           /\ rcCrossed' \in BOOLEAN
<1>1. \A q \in RcRequests : q # r => rcStage'[q] = rcStage[q] /\ rcCopy'[q] = rcCopy[q]
  BY DEF Prepare, TypeInv, RecoveryTypeOK
<1>2. rcStage'[r] = "ready" /\ rcCopy'[r] = codes
  BY DEF Prepare, TypeInv, RecoveryTypeOK
<1>3. rcCrossed' \in BOOLEAN
  BY DEF Prepare, TypeInv, RecoveryTypeOK
<1>4. QED
  BY <1>1, <1>2, <1>3 DEF Prepare, TypeInv, RecoveryTypeOK, Held, RcChanging

LEMMA TypeInvariant == RecoverySpec => []TypeInv
<1> USE RecoveryAssumption
<1>1. RecoveryInit => TypeInv
  <2> SUFFICES ASSUME RecoveryInit PROVE TypeInv
    OBVIOUS
  <2>1. \A r \in RcRequests : rcStage[r] = "idle" /\ Held(r)
    BY DEF RecoveryInit, Held, RcChanging
  <2>2. MaxBatch \in Nat
    BY DEF RecoveryAssumption
  <2>3. shown \in 0..MaxBatch /\ batch \in 0..MaxBatch
    BY <2>2 DEF RecoveryInit
  <2>4. /\ rcStage \in [RcRequests -> {"idle", "admitted", "enrolling", "ready", "opened", "saved"}]
        /\ code \in [RcRequests -> Code \cup {NoCode}]
        /\ rcCopy \in [RcRequests -> Storage \cup {NoCodes}]
    BY DEF RecoveryInit
  <2>5. QED
    BY <2>1, <2>3, <2>4 DEF RecoveryInit, TypeInv, RecoveryTypeOK, Unreadable
<1>2. TypeInv /\ [RecoveryNext]_recovery => TypeInv'
  <2> SUFFICES ASSUME TypeInv, [RecoveryNext]_recovery PROVE TypeInv'
    OBVIOUS
  <2> USE DEF TypeInv
  <2>0. 0 \in 0..MaxBatch
    BY DEF RecoveryAssumption
  <2>1. CASE Setup \/ Forget \/ OtherChallenge
    <3>1. UNCHANGED <<codesFile, batch, rcRequest, rcHistory>> /\ setup' \in BOOLEAN /\ shown' \in 0..MaxBatch
      BY <2>0, <2>1 DEF Setup, Forget, OtherChallenge, RecoveryTypeOK
    <3>2. QED
      BY <3>1 DEF RecoveryTypeOK, Held, RcChanging, rcRequest, rcHistory
  <2>2. CASE RcRestart
    <3>1. \A r \in RcRequests : rcStage'[r] = "idle"
      BY <2>2 DEF RcRestart
    <3>2. /\ rcStage' \in [RcRequests -> {"idle", "admitted", "enrolling", "ready", "opened", "saved"}]
          /\ code' \in [RcRequests -> Code \cup {NoCode}]
          /\ rcCopy' \in [RcRequests -> Storage \cup {NoCodes}]
      BY <2>2 DEF RcRestart
    <3>3. QED
      BY <2>0, <2>2, <3>1, <3>2 DEF RcRestart, RecoveryTypeOK, Held, RcChanging
  <2>3. ASSUME NEW r \in RcRequests, NEW c \in Code, Recover(r, c) PROVE TypeInv'
    <3>1. \A q \in RcRequests : q # r => rcStage'[q] = rcStage[q] /\ code'[q] = code[q]
      BY <2>3 DEF Recover, RecoveryTypeOK
    <3>2. rcStage'[r] = "admitted" /\ code'[r] = c
      BY <2>3 DEF Recover, RecoveryTypeOK
    <3>3. QED
      BY <2>3, <3>1, <3>2 DEF Recover, RecoveryTypeOK, Held, RcChanging, rcHistory
  <2>4. ASSUME NEW r \in RcRequests, LoadCodes(r) PROVE TypeInv'
    <3>1. CASE codesFile \in Storage /\ Usable(codesFile, code[r])
      <4>1. MarkUsed(codesFile, code[r]) \in Storage
        BY <3>1 DEF MarkUsed, Storage
      <4>2. QED
        BY <2>4, <3>1, <4>1, PrepareHeld DEF LoadCodes, RecoveryTypeOK
    <3>2. CASE ~(codesFile \in Storage /\ Usable(codesFile, code[r]))
      BY <2>4, <3>2, DoneHeld DEF LoadCodes, RecoveryTypeOK
    <3>3. QED
      BY <3>1, <3>2
  <2>5. ASSUME NEW r \in RcRequests, RcBeginEnrol(r) PROVE TypeInv'
    BY <2>5, GotoHeld DEF RcBeginEnrol, RcGoto, RecoveryTypeOK, RecoveryAssumption
  <2>6. ASSUME NEW r \in RcRequests, Enrol(r) PROVE TypeInv'
    <3>1. batch' \in 1..MaxBatch /\ batch' \in 0..MaxBatch
      BY <2>6 DEF Enrol, RecoveryTypeOK, RecoveryAssumption
    <3>2. [batch |-> batch', unused |-> Slots] \in Storage
      BY <3>1 DEF Storage
    <3>3. QED
      BY <2>6, <3>1, <3>2, PrepareHeld DEF Enrol, RecoveryTypeOK
  <2>7. ASSUME NEW r \in RcRequests, OpenCodes(r) PROVE TypeInv'
    BY <2>7, GotoHeld DEF OpenCodes, RcGoto, RcChanging, RecoveryTypeOK, Unreadable, rcHistory
  <2>8. ASSUME NEW r \in RcRequests, WriteCodes(r) PROVE TypeInv'
    <3>1. codesFile' \in Storage \cup Unreadable
      BY <2>8 DEF WriteCodes, Overwritten, Unreadable, Held, RcChanging
    <3>2. CASE RcDone(r) /\ r \in Recoveries
      <4>1. spent' \subseteq Code /\ twice' \subseteq Code
        BY <2>8, <3>2 DEF WriteCodes, RecoveryTypeOK, Held
      <4>2. QED
        BY <2>8, <3>1, <3>2, <4>1, DoneHeld DEF WriteCodes, RecoveryTypeOK
    <3>3. CASE (RcGoto(r, "saved") \/ RcDone(r)) /\ UNCHANGED <<spent, twice>>
      <4>1. CASE RcGoto(r, "saved")
        BY <2>8, <3>1, <3>3, <4>1, GotoHeld DEF WriteCodes, RcGoto, RcChanging, RecoveryTypeOK
      <4>2. CASE RcDone(r)
        BY <2>8, <3>1, <3>3, <4>2, DoneHeld DEF WriteCodes, RecoveryTypeOK
      <4>3. QED
        BY <3>3, <4>1, <4>2
    <3>4. QED
      BY <2>8, <3>2, <3>3 DEF WriteCodes
  <2>9. ASSUME NEW r \in RcRequests, RcSaveFails(r) PROVE TypeInv'
    <3>1. CASE RcDone(r)
      BY <2>9, <3>1, DoneHeld DEF RcSaveFails, RecoveryTypeOK
    <3>2. CASE RcGoto(r, "saved")
      BY <2>9, <3>2, GotoHeld DEF RcSaveFails, RcGoto, RcChanging, RecoveryTypeOK
    <3>3. QED
      BY <2>9, <3>1, <3>2 DEF RcSaveFails
  <2>10. ASSUME NEW r \in RcRequests, Show(r) PROVE TypeInv'
    <3>1. rcCopy[r].batch \in 0..MaxBatch
      BY <2>10 DEF Show, RecoveryTypeOK, Held, RcChanging, Storage
    <3>2. setup' \in BOOLEAN /\ rcLost' \in BOOLEAN
      BY <2>10 DEF Show, RecoveryTypeOK
    <3>3. QED
      BY <2>10, <3>1, <3>2, DoneHeld DEF Show, RecoveryTypeOK
  <2>11. ASSUME NEW r \in RcRequests, RcHangUp(r) PROVE TypeInv'
    BY <2>11, DoneHeld DEF RcHangUp, RecoveryTypeOK, rcHistory
  <2>12. CASE UNCHANGED recovery
    BY <2>12 DEF recovery, rcRequest, rcHistory, RecoveryTypeOK, Held, RcChanging
  <2>13. QED
    BY <2>1, <2>2, <2>3, <2>4, <2>5, <2>6, <2>7, <2>8, <2>9, <2>10, <2>11, <2>12 DEF RecoveryNext, RcServe
<1>3. QED
  BY <1>1, <1>2, PTL DEF RecoverySpec

(* Every reachable state of the recovery codes has the right types. *)
THEOREM RecoveryTypeCorrect == RecoverySpec => []RecoveryTypeOK
<1> USE RecoveryAssumption
<1>1. TypeInv => RecoveryTypeOK
  BY DEF TypeInv
<1>2. QED
  BY <1>1, TypeInvariant, PTL

-----------------------------------------------------------------------------
(* Every code used belongs to a batch that has been generated, so a new    *)
(* batch has none.                                                         *)
Issued ==
    /\ \A c \in spent : c[1] <= batch
    /\ \A r \in RcRequests : code[r][1] <= batch

(* Codes of which none has been used. *)
Fresh(codes) == \A s \in codes.unused : <<codes.batch, s>> \notin spent

(* A request about to save will use a code that was not used, and save     *)
(* codes of which none was.                                                *)
Prepared(r) ==
    rcStage[r] \in {"ready", "opened"} =>
        /\ Fresh(rcCopy[r])
        /\ r \in Recoveries => code[r] \notin spent /\ ~Usable(rcCopy[r], code[r])

AtMostOne == \A r, q \in RcRequests : RcChanging(r) /\ RcChanging(q) => r = q

Kept ==
    /\ AtMostOne
    /\ codesFile \in Storage => Fresh(codesFile)
    /\ \A r \in RcRequests : Prepared(r)
    /\ twice = {}

UsedInv == Issued /\ (~rcCrossed => Kept)

(* A request that ends leaves the others as they were. *)
LEMMA DoneKept ==
    ASSUME TypeInv, Kept, NEW r \in RcRequests, RcDone(r), spent' = spent \/ RcChanging(r)
    PROVE  AtMostOne' /\ \A q \in RcRequests : Prepared(q)'
<1>1. rcStage'[r] = "idle"
  BY DEF RcDone, TypeInv, RecoveryTypeOK
<1>2. \A q \in RcRequests : q # r =>
         rcStage'[q] = rcStage[q] /\ code'[q] = code[q] /\ rcCopy'[q] = rcCopy[q]
  BY DEF RcDone, TypeInv, RecoveryTypeOK
<1>3. AtMostOne'
  BY <1>1, <1>2 DEF Kept, AtMostOne, RcChanging
<1>4. CASE RcChanging(r)
  <2>1. \A q \in RcRequests : ~RcChanging(q)'
    BY <1>1, <1>2, <1>4 DEF Kept, AtMostOne, RcChanging
  <2>2. QED
    BY <1>3, <2>1 DEF Prepared, RcChanging
<1>5. CASE spent' = spent
  BY <1>1, <1>2, <1>3, <1>5 DEF Kept, AtMostOne, Prepared, Fresh, Usable
<1>6. QED
  BY <1>4, <1>5

(* A request that goes on saving what it has. *)
LEMMA GotoKept ==
    ASSUME TypeInv, Kept, NEW r \in RcRequests, NEW s, RcGoto(r, s), UNCHANGED spent,
           \/ s = "opened" /\ rcStage[r] = "ready"
           \/ s = "saved" /\ RcChanging(r)
           \/ s = "enrolling"
    PROVE  AtMostOne' /\ \A q \in RcRequests : Prepared(q)'
<1>1. rcStage'[r] = s /\ \A q \in RcRequests : q # r => rcStage'[q] = rcStage[q]
  BY DEF RcGoto, TypeInv, RecoveryTypeOK
<1>2. AtMostOne'
  BY <1>1 DEF Kept, AtMostOne, RcChanging
<1>3. QED
  BY <1>1, <1>2 DEF RcGoto, Kept, AtMostOne, Prepared, Fresh, Usable

(* Only one request prepares a save while nobody else changes the codes. *)
LEMMA PrepareKept ==
    ASSUME TypeInv, Kept, NEW r \in RcRequests, NEW codes, Prepare(r, codes), ~rcCrossed',
           UNCHANGED <<code, spent>>, Fresh(codes),
           r \in Recoveries => code[r] \notin spent /\ ~Usable(codes, code[r])
    PROVE  AtMostOne' /\ \A q \in RcRequests : Prepared(q)'
<1>1. rcStage'[r] = "ready" /\ rcCopy'[r] = codes
  BY DEF Prepare, TypeInv, RecoveryTypeOK
<1>2. \A q \in RcRequests : q # r => rcStage'[q] = rcStage[q] /\ rcCopy'[q] = rcCopy[q]
  BY DEF Prepare, TypeInv, RecoveryTypeOK
<1>3. \A q \in RcRequests : ~RcChanging(q)
  BY DEF Prepare
<1>4. \A q \in RcRequests : q # r => ~RcChanging(q)'
  BY <1>2, <1>3 DEF RcChanging
<1>5. Prepared(r)'
  BY <1>1 DEF Prepared, Fresh, Usable
<1>6. QED
  BY <1>4, <1>5 DEF AtMostOne, Prepared, RcChanging

LEMMA UsedInvariant == RecoverySpec => []UsedInv
<1> USE RecoveryAssumption
<1>1. RecoveryInit => UsedInv
  BY DEF RecoveryInit, UsedInv, Issued, Kept, AtMostOne, Prepared, RcChanging, NoCode, RecoveryAssumption, Unreadable
<1>2. TypeInv /\ TypeInv' /\ UsedInv /\ [RecoveryNext]_recovery => UsedInv'
  <2> SUFFICES ASSUME TypeInv, TypeInv', UsedInv, [RecoveryNext]_recovery PROVE UsedInv'
    OBVIOUS
  <2>1. Issued'
    <3>1. batch' \in Nat /\ batch \in Nat /\ batch <= batch'
      BY DEF TypeInv, RecoveryTypeOK, RecoveryAssumption, RecoveryNext, RcServe, recovery, rcRequest, rcHistory,
             Setup, Forget, OtherChallenge, RcRestart, Recover, LoadCodes, RcBeginEnrol, Enrol,
             OpenCodes, WriteCodes, RcSaveFails, Show, RcHangUp
    <3>2. ASSUME NEW q \in RcRequests PROVE code'[q][1] <= batch'
      <4>1. \/ code'[q] = code[q] \/ code'[q] = NoCode
            \/ \E c \in Code : c[1] <= batch /\ code'[q] = c
        BY DEF TypeInv, RecoveryTypeOK, RecoveryNext, RcServe, recovery, rcRequest, rcHistory, RcDone, RcGoto,
             Setup, Forget, OtherChallenge, RcRestart, Recover, LoadCodes, RcBeginEnrol, Enrol,
             OpenCodes, WriteCodes, RcSaveFails, Show, RcHangUp
      <4>2. code[q][1] <= batch /\ code[q][1] \in Nat
        BY DEF UsedInv, Issued, TypeInv, RecoveryTypeOK, Code, NoCode
      <4>3. QED
        BY <3>1, <4>1, <4>2 DEF NoCode, Code
    <3>3. ASSUME NEW c \in spent' PROVE c[1] <= batch'
      <4>1. c \in spent \/ \E r \in RcRequests : c = code[r]
        BY DEF RecoveryNext, RcServe, recovery, rcRequest, rcHistory,
             Setup, Forget, OtherChallenge, RcRestart, Recover, LoadCodes, RcBeginEnrol, Enrol,
             OpenCodes, WriteCodes, RcSaveFails, Show, RcHangUp
      <4>2. c[1] <= batch /\ c[1] \in Nat
        BY <4>1 DEF UsedInv, Issued, TypeInv, RecoveryTypeOK, Code, NoCode
      <4>3. QED
        BY <3>1, <4>2
    <3>4. QED
      BY <3>2, <3>3 DEF Issued
  <2>2. ASSUME ~rcCrossed' PROVE Kept'
    <3>0. ~rcCrossed /\ Kept
      <4>1. \/ UNCHANGED rcCrossed
            \/ \E r \in RcRequests : LoadCodes(r) \/ RcBeginEnrol(r) \/ Enrol(r)
        BY DEF RecoveryNext, RcServe, recovery, rcRequest, rcHistory, Setup, Forget, OtherChallenge, RcRestart,
               Recover, OpenCodes, WriteCodes, RcSaveFails, Show, RcHangUp
      <4>2. ASSUME NEW r \in RcRequests, LoadCodes(r) PROVE ~rcCrossed
        BY <2>2, <4>2 DEF LoadCodes, Prepare
      <4>3. ASSUME NEW r \in RcRequests, RcBeginEnrol(r) \/ Enrol(r) PROVE ~rcCrossed
        BY <2>2, <4>3 DEF RcBeginEnrol, Enrol, Prepare
      <4>4. QED
        BY <2>2, <4>1, <4>2, <4>3 DEF UsedInv
    <3>1. CASE Setup \/ Forget \/ OtherChallenge
      BY <3>0, <3>1 DEF Setup, Forget, OtherChallenge, rcRequest, rcHistory, Kept, AtMostOne, Prepared, RcChanging,
                        Fresh, Usable
    <3>2. CASE RcRestart
      <4>1. \A r \in RcRequests : rcStage'[r] = "idle"
        BY <3>2 DEF RcRestart
      <4>2. QED
        BY <3>0, <3>2, <4>1 DEF RcRestart, Kept, AtMostOne, Prepared, RcChanging, Fresh
    <3>3. ASSUME NEW r \in RcRequests, NEW c \in Code, Recover(r, c) PROVE Kept'
      <4>1. rcStage'[r] = "admitted"
        BY <3>3 DEF Recover, TypeInv, RecoveryTypeOK
      <4>2. \A q \in RcRequests : q # r => rcStage'[q] = rcStage[q] /\ code'[q] = code[q]
        BY <3>3 DEF Recover, TypeInv, RecoveryTypeOK
      <4>3. QED
        BY <3>0, <3>3, <4>1, <4>2 DEF Recover, rcHistory, Kept, AtMostOne, Prepared, RcChanging, Fresh, Usable
    <3>4. ASSUME NEW r \in RcRequests, LoadCodes(r) PROVE Kept'
      <4>1. UNCHANGED <<codesFile, spent, twice>>
        BY <3>4 DEF LoadCodes
      <4>2. CASE codesFile \in Storage /\ Usable(codesFile, code[r])
        <5>1. Fresh(codesFile) /\ code[r] \in Code
          BY <3>0, <3>4, <4>2 DEF Kept, AtMostOne, LoadCodes, TypeInv, Held
        <5>2. Fresh(MarkUsed(codesFile, code[r])) /\ ~Usable(MarkUsed(codesFile, code[r]), code[r])
          BY <4>2, <5>1 DEF Fresh, MarkUsed, Usable, Storage
        <5>3. code[r] = <<codesFile.batch, code[r][2]>> /\ code[r][2] \in codesFile.unused
          BY <4>2, <5>1 DEF Usable, Code
        <5>4. code[r] \notin spent
          BY <5>1, <5>3 DEF Fresh
        <5>5. Prepare(r, MarkUsed(codesFile, code[r])) /\ UNCHANGED <<code, spent>>
          BY <3>4, <4>2 DEF LoadCodes
        <5>6. AtMostOne' /\ \A q \in RcRequests : Prepared(q)'
          BY <2>2, <3>0, <5>2, <5>4, <5>5, PrepareKept
        <5>7. QED
          BY <3>0, <4>1, <5>6 DEF Kept, AtMostOne, Fresh
      <4>3. CASE RcDone(r)
        BY <3>0, <4>1, <4>3, DoneKept DEF Kept, AtMostOne, Fresh
      <4>4. QED
        BY <3>4, <4>2, <4>3 DEF LoadCodes
    <3>5. ASSUME NEW r \in RcRequests, RcBeginEnrol(r) PROVE Kept'
      BY <3>0, <3>5, GotoKept DEF RcBeginEnrol, Kept, AtMostOne, Fresh
    <3>6. ASSUME NEW r \in RcRequests, Enrol(r) PROVE Kept'
      <4>1. batch' \notin 0..batch /\ batch \in Nat /\ batch' = batch + 1
        BY <3>6 DEF Enrol, TypeInv, RecoveryTypeOK
      <4>2. Fresh([batch |-> batch', unused |-> Slots])
        BY <4>1 DEF Fresh, UsedInv, Issued
      <4>3. r \notin Recoveries
        BY <3>6 DEF Enrol, TypeInv, Held
      <4>4. AtMostOne' /\ \A q \in RcRequests : Prepared(q)'
        BY <2>2, <3>0, <3>6, <4>2, <4>3, PrepareKept DEF Enrol
      <4>5. QED
        BY <3>0, <3>6, <4>4 DEF Enrol, Kept, AtMostOne, Fresh
    <3>7. ASSUME NEW r \in RcRequests, OpenCodes(r) PROVE Kept'
      <4>1. codesFile' \notin Storage
        BY <3>7 DEF OpenCodes, RecoveryAssumption, Unreadable
      <4>2. QED
        BY <3>0, <3>7, <4>1, GotoKept DEF OpenCodes, rcHistory, Kept, AtMostOne
    <3>8. ASSUME NEW r \in RcRequests, WriteCodes(r) PROVE Kept'
      <4>1. Fresh(rcCopy[r]) /\ RcChanging(r)
        BY <3>0, <3>8 DEF WriteCodes, Kept, AtMostOne, Prepared, RcChanging
      <4>2. codesFile' = rcCopy[r] \/ codesFile' \notin Storage
        BY <3>8 DEF WriteCodes, Overwritten, RecoveryAssumption, Unreadable
      <4>3. CASE UNCHANGED <<spent, twice>> /\ (RcGoto(r, "saved") \/ RcDone(r))
        <5>1. AtMostOne' /\ \A q \in RcRequests : Prepared(q)'
          BY <3>0, <4>1, <4>3, DoneKept, GotoKept
        <5>2. QED
          BY <3>0, <4>1, <4>2, <4>3, <5>1 DEF Kept, AtMostOne, Fresh
      <4>4. CASE /\ r \in Recoveries /\ RcDone(r)
                 /\ twice' = twice \cup (spent \cap {code[r]}) /\ spent' = spent \cup {code[r]}
        <5>1. code[r] \notin spent /\ ~Usable(rcCopy[r], code[r]) /\ code[r] \in Code
          BY <3>0, <3>8, <4>4 DEF WriteCodes, Kept, AtMostOne, Prepared, TypeInv, Held
        <5>2. \A s \in rcCopy[r].unused : <<rcCopy[r].batch, s>> # code[r]
          BY <5>1 DEF Usable, Code
        <5>3. (codesFile \in Storage => Fresh(codesFile))'
          BY <4>1, <4>2, <4>4, <5>2 DEF Fresh
        <5>4. AtMostOne' /\ \A q \in RcRequests : Prepared(q)'
          BY <3>0, <4>1, <4>4, DoneKept
        <5>5. twice' = {}
          BY <3>0, <4>4, <5>1 DEF Kept, AtMostOne
        <5>6. QED
          BY <5>3, <5>4, <5>5 DEF Kept, AtMostOne
      <4>5. QED
        BY <3>8, <4>3, <4>4 DEF WriteCodes
    <3>9. ASSUME NEW r \in RcRequests, RcSaveFails(r) PROVE Kept'
      <4>1. UNCHANGED <<codesFile, spent, twice>> /\ RcChanging(r)
        BY <3>9 DEF RcSaveFails, RcChanging
      <4>2. AtMostOne' /\ \A q \in RcRequests : Prepared(q)'
        BY <3>0, <3>9, <4>1, DoneKept, GotoKept DEF RcSaveFails
      <4>3. QED
        BY <3>0, <4>1, <4>2 DEF Kept, AtMostOne, Fresh
    <3>10. ASSUME NEW r \in RcRequests, Show(r) \/ RcHangUp(r) PROVE Kept'
      <4>1. UNCHANGED <<codesFile, spent, twice>> /\ RcDone(r)
        BY <3>10 DEF Show, RcHangUp, rcHistory
      <4>2. QED
        BY <3>0, <4>1, DoneKept DEF Kept, AtMostOne, Fresh
    <3>11. CASE UNCHANGED recovery
      BY <3>0, <3>11 DEF recovery, rcRequest, rcHistory, Kept, AtMostOne, Prepared, RcChanging, Fresh, Usable
    <3>12. QED
      BY <3>1, <3>2, <3>3, <3>4, <3>5, <3>6, <3>7, <3>8, <3>9, <3>10, <3>11 DEF RecoveryNext, RcServe
  <2>3. QED
    BY <2>1, <2>2 DEF UsedInv
<1>3. QED
  BY <1>1, <1>2, TypeInvariant, PTL DEF RecoverySpec

(* A code is used once as long as no two requests change the codes at the  *)
(* same time, whatever fails, hangs up or restarts (recovery.rs 182-240).  *)
THEOREM CodeUsedOnce == RecoverySpec => []UsedOnce
<1> USE RecoveryAssumption
<1>1. UsedInv => UsedOnce
  BY DEF UsedInv, Kept, UsedOnce
<1>2. QED
  BY <1>1, UsedInvariant, PTL

-----------------------------------------------------------------------------
(* While requests neither cross nor lose a save: the file has the codes    *)
(* that were not used, a request about to save has those that will be      *)
(* left, and the batch shown is the one in the file or about to be.        *)
LeftAfter(r) == spent \cup (IF r \in Recoveries THEN {code[r]} ELSE {})

Copied(r) ==
    /\ rcStage[r] \in {"ready", "opened"} =>
          rcCopy[r].unused = {s \in Slots : <<rcCopy[r].batch, s>> \notin LeftAfter(r)}
    /\ rcStage[r] = "opened" => codesFile = Empty
    /\ rcStage[r] = "ready" => codesFile \notin {Empty, Torn}
    /\ rcStage[r] = "saved" => codesFile = rcCopy[r] /\ r \notin Recoveries
    /\ r \notin Recoveries /\ rcStage[r] # "idle" => shown = 0
    /\ RcChanging(r) /\ shown # 0 => rcCopy[r].batch = shown

Exact ==
    /\ AtMostOne
    /\ \A q, r \in RcRequests \ Recoveries : rcStage[q] # "idle" /\ rcStage[r] # "idle" => q = r
    /\ \A r \in RcRequests : Copied(r)
    /\ setup => shown = 0
    /\ codesFile \in Storage =>
          codesFile.unused = {s \in Slots : <<codesFile.batch, s>> \notin spent}
    /\ codesFile \in {Empty, Torn} => \E r \in RcRequests : rcStage[r] = "opened"
    /\ shown # 0 /\ ~(\E r \in RcRequests : rcStage[r] = "opened") =>
          codesFile \in Storage /\ codesFile.batch = shown

ExactInv == ~rcCrossed /\ ~rcLost => Exact

(* A request that ends without opening the file leaves the rest as it is. *)
LEMMA DoneExact ==
    ASSUME TypeInv, Exact, NEW r \in RcRequests, RcDone(r), rcStage[r] # "opened",
           UNCHANGED <<codesFile, spent>>, (shown' = shown) \/ rcStage[r] = "saved",
           shown' # 0 => (codesFile \in Storage /\ codesFile.batch = shown') \/ shown' = shown,
           setup' => shown' = 0
    PROVE  Exact'
<1>1. /\ rcStage'[r] = "idle"
      /\ \A q \in RcRequests : q # r =>
            rcStage'[q] = rcStage[q] /\ code'[q] = code[q] /\ rcCopy'[q] = rcCopy[q]
  BY DEF RcDone, TypeInv, RecoveryTypeOK
<1>2. ASSUME NEW q \in RcRequests, q # r PROVE Copied(q)'
  <2>1. CASE shown' = shown
    BY <1>1, <1>2, <2>1 DEF Exact, Copied, LeftAfter, RcChanging
  <2>2. CASE rcStage[r] = "saved"
    <3>1. ~RcChanging(q) /\ (q \in Recoveries \/ rcStage[q] = "idle")
      BY <1>2, <2>2 DEF Exact, AtMostOne, Copied, RcChanging
    <3>2. QED
      BY <1>1, <1>2, <3>1 DEF Copied, RcChanging
  <2>3. QED
    BY <2>1, <2>2
<1>3. Copied(r)'
  BY <1>1 DEF Copied, RcChanging
<1>4. QED
  BY <1>1, <1>2, <1>3 DEF Exact, AtMostOne, RcChanging

(* Every code shown stays good until it is used (recovery.rs 115-240,      *)
(* handlers.rs 550-564).                                                   *)
THEOREM CodesInvariant == RecoverySpec => []CodesKept
<1> USE RecoveryAssumption
<1>1. RecoveryInit => ExactInv
  BY DEF RecoveryInit, ExactInv, Exact, AtMostOne, Copied, RcChanging, RecoveryAssumption, Unreadable
<1>2. TypeInv /\ TypeInv' /\ UsedInv /\ ExactInv /\ [RecoveryNext]_recovery => ExactInv'
  <2> SUFFICES ASSUME TypeInv, TypeInv', UsedInv, ExactInv, [RecoveryNext]_recovery,
                      ~rcCrossed', ~rcLost'
               PROVE  Exact'
    BY DEF ExactInv
  <2>0. ~rcCrossed /\ ~rcLost /\ Exact
    <3>1. ~rcLost
      BY DEF RecoveryNext, RcServe, recovery, rcRequest, rcHistory, Setup, Forget, OtherChallenge,
             RcRestart, Recover, LoadCodes, RcBeginEnrol, Enrol, OpenCodes, WriteCodes,
             RcSaveFails, Show, RcHangUp
    <3>2. ~rcCrossed
      <4>1. \/ UNCHANGED rcCrossed
            \/ \E r \in RcRequests : LoadCodes(r) \/ RcBeginEnrol(r) \/ Enrol(r)
        BY DEF RecoveryNext, RcServe, recovery, rcRequest, rcHistory, Setup, Forget, OtherChallenge,
               RcRestart, Recover, OpenCodes, WriteCodes, RcSaveFails, Show, RcHangUp
      <4>2. ASSUME NEW r \in RcRequests, LoadCodes(r) PROVE ~rcCrossed
        BY <4>2 DEF LoadCodes, Prepare
      <4>3. ASSUME NEW r \in RcRequests, RcBeginEnrol(r) \/ Enrol(r) PROVE ~rcCrossed
        BY <4>3 DEF RcBeginEnrol, Enrol, Prepare
      <4>4. QED
        BY <4>1, <4>2, <4>3
    <3>3. QED
      BY <3>1, <3>2 DEF ExactInv
  <2>1. CASE Setup \/ Forget \/ OtherChallenge
    <3>1. UNCHANGED <<codesFile, batch, rcRequest, rcHistory>> /\ shown' \in {0, shown} /\ (setup' => shown' = 0)
      BY <2>0, <2>1 DEF Setup, Forget, OtherChallenge, Exact
    <3>2. QED
      BY <2>0, <3>1 DEF rcRequest, rcHistory, Exact, AtMostOne, Copied, LeftAfter, RcChanging
  <2>2. CASE RcRestart
    <3>1. \A r \in RcRequests : rcStage'[r] = "idle" /\ rcStage[r] # "opened"
      BY <2>0, <2>2 DEF RcRestart
    <3>2. QED
      BY <2>0, <2>2, <3>1 DEF RcRestart, Exact, AtMostOne, Copied, RcChanging
  <2>3. ASSUME NEW r \in RcRequests, NEW c \in Code, Recover(r, c) PROVE Exact'
    <3>1. rcStage'[r] = "admitted" /\ r \in Recoveries
      BY <2>3 DEF Recover, TypeInv, RecoveryTypeOK
    <3>2. \A q \in RcRequests : q # r => rcStage'[q] = rcStage[q] /\ code'[q] = code[q]
      BY <2>3 DEF Recover, TypeInv, RecoveryTypeOK
    <3>3. UNCHANGED <<codesFile, shown, setup, batch, rcCopy, spent>> /\ rcStage[r] = "idle"
      BY <2>3 DEF Recover, rcHistory
    <3>4. \A q \in RcRequests : Copied(q)'
      BY <2>0, <3>1, <3>2, <3>3 DEF Exact, Copied, LeftAfter, RcChanging
    <3>5. AtMostOne'
      BY <2>0, <3>1, <3>2 DEF Exact, AtMostOne, RcChanging
    <3>6. QED
      BY <2>0, <3>1, <3>2, <3>3, <3>4, <3>5 DEF Exact
  <2>4. ASSUME NEW r \in RcRequests, NEW kept \in Storage, Prepare(r, kept),
               UNCHANGED <<codesFile, shown, setup, code, spent>>,
               rcStage[r] \in {"admitted", "enrolling"},
               kept.unused = {s \in Slots : <<kept.batch, s>> \notin LeftAfter(r)},
               r \in Recoveries /\ shown # 0 => kept.batch = shown
        PROVE  Exact'
    <3>1. rcStage'[r] = "ready" /\ rcCopy'[r] = kept
      BY <2>4 DEF Prepare, TypeInv, RecoveryTypeOK
    <3>2. \A q \in RcRequests : q # r => rcStage'[q] = rcStage[q] /\ rcCopy'[q] = rcCopy[q]
      BY <2>4 DEF Prepare, TypeInv, RecoveryTypeOK
    <3>3. \A q \in RcRequests : ~RcChanging(q)
      BY <2>4 DEF Prepare
    <3>4. codesFile \notin {Empty, Torn}
      BY <2>0, <3>3 DEF Exact, RcChanging
    <3>5. Copied(r)'
      BY <2>0, <2>4, <3>1, <3>4 DEF Exact, Copied, LeftAfter, RcChanging
    <3>6. ASSUME NEW q \in RcRequests, q # r PROVE Copied(q)'
      BY <2>0, <2>4, <3>2, <3>3, <3>6 DEF Exact, Copied, RcChanging
    <3>7. QED
      BY <2>0, <2>4, <3>1, <3>2, <3>3, <3>5, <3>6 DEF Exact, AtMostOne, RcChanging
  <2>5. ASSUME NEW r \in RcRequests, LoadCodes(r) PROVE Exact'
    <3>1. CASE codesFile \in Storage /\ Usable(codesFile, code[r])
      <4> DEFINE kept == MarkUsed(codesFile, code[r])
      <4>1. r \in Recoveries /\ code[r] \in Code
        BY <2>5 DEF LoadCodes, TypeInv, Held
      <4>2. code[r] = <<codesFile.batch, code[r][2]>>
        BY <3>1, <4>1 DEF Usable, Code
      <4>3. kept \in Storage /\ kept.batch = codesFile.batch
            /\ kept.unused = codesFile.unused \ {code[r][2]}
        BY <3>1 DEF MarkUsed, Storage
      <4>4. codesFile.unused = {s \in Slots : <<codesFile.batch, s>> \notin spent}
        BY <2>0, <3>1 DEF Exact
      <4>5. kept.unused = {s \in Slots : <<kept.batch, s>> \notin LeftAfter(r)}
        BY <4>1, <4>2, <4>3, <4>4 DEF LeftAfter
      <4>6. Prepare(r, kept) /\ UNCHANGED <<codesFile, shown, setup, code, spent>>
        BY <2>5, <3>1 DEF LoadCodes
      <4>7. shown # 0 => kept.batch = shown
        <5>1. ~\E q \in RcRequests : RcChanging(q)
          BY <4>6 DEF Prepare
        <5>2. QED
          BY <2>0, <4>3, <5>1 DEF Exact, RcChanging
      <4>8. rcStage[r] = "admitted"
        BY <2>5 DEF LoadCodes
      <4>9. QED
        BY <2>4, <4>3, <4>5, <4>6, <4>7, <4>8
    <3>2. CASE RcDone(r)
      BY <2>0, <2>5, <3>2, DoneExact DEF LoadCodes, Exact
    <3>3. QED
      BY <2>5, <3>1, <3>2 DEF LoadCodes
  <2>6. ASSUME NEW r \in RcRequests, RcBeginEnrol(r) PROVE Exact'
    <3>1. rcStage'[r] = "enrolling" /\ \A q \in RcRequests : q # r => rcStage'[q] = rcStage[q]
      BY <2>6 DEF RcBeginEnrol, RcGoto, TypeInv, RecoveryTypeOK
    <3>2. /\ UNCHANGED <<codesFile, shown, setup, spent, code, rcCopy>>
          /\ shown = 0 /\ rcStage[r] = "idle"
          /\ \A q \in Setups : rcStage[q] = "idle"
      BY <2>0, <2>6 DEF RcBeginEnrol, RcGoto, Exact
    <3>3. \A q \in RcRequests : Copied(q)'
      BY <2>0, <3>1, <3>2 DEF Exact, Copied, LeftAfter, RcChanging
    <3>4. QED
      BY <2>0, <3>1, <3>2, <3>3 DEF Exact, AtMostOne, RcChanging, RcRequests
  <2>7. ASSUME NEW r \in RcRequests, Enrol(r) PROVE Exact'
    <3> DEFINE kept == [batch |-> batch', unused |-> Slots]
    <3>1. batch' = batch + 1 /\ batch \in Nat /\ batch' \in 1..MaxBatch
      BY <2>7 DEF Enrol, TypeInv, RecoveryTypeOK, RecoveryAssumption
    <3>2. kept \in Storage /\ kept.batch = batch' /\ kept.unused = Slots
      BY <3>1 DEF Storage
    <3>3. r \notin Recoveries
      BY <2>7 DEF Enrol, TypeInv, Held
    <3>4. \A s \in Slots : <<batch', s>> \notin spent
      BY <3>1 DEF UsedInv, Issued
    <3>5. kept.unused = {s \in Slots : <<kept.batch, s>> \notin LeftAfter(r)}
      BY <3>2, <3>3, <3>4 DEF LeftAfter
    <3>6. Prepare(r, kept) /\ UNCHANGED <<codesFile, shown, setup, code, spent>> /\ rcStage[r] = "enrolling"
      BY <2>7 DEF Enrol
    <3>7. QED
      BY <2>4, <3>2, <3>3, <3>5, <3>6
  <2>8. ASSUME NEW r \in RcRequests, OpenCodes(r) PROVE Exact'
    <3>1. rcStage'[r] = "opened" /\ \A q \in RcRequests : q # r => rcStage'[q] = rcStage[q]
      BY <2>8 DEF OpenCodes, RcGoto, TypeInv, RecoveryTypeOK
    <3>2. /\ codesFile' = Empty /\ codesFile' \notin Storage
          /\ UNCHANGED <<shown, setup, spent, code, rcCopy>> /\ rcStage[r] = "ready"
      BY <2>8 DEF OpenCodes, RcGoto, rcHistory, RecoveryAssumption, Unreadable
    <3>3. \A q \in RcRequests : q # r => ~RcChanging(q)
      BY <2>0, <3>2 DEF Exact, AtMostOne, RcChanging
    <3>4. \A q \in RcRequests : Copied(q)'
      BY <2>0, <3>1, <3>2, <3>3 DEF Exact, Copied, LeftAfter, RcChanging
    <3>5. AtMostOne'
      BY <2>0, <3>1, <3>2 DEF Exact, AtMostOne, RcChanging
    <3>6. QED
      BY <2>0, <3>1, <3>2, <3>4, <3>5 DEF Exact
  <2>9. ASSUME NEW r \in RcRequests, WriteCodes(r) PROVE Exact'
    <3>1. /\ codesFile' = rcCopy[r] /\ rcCopy[r] \in Storage /\ rcStage[r] = "opened"
          /\ UNCHANGED <<shown, setup>>
      BY <2>0, <2>9 DEF WriteCodes, Overwritten, Exact, Copied, TypeInv, Held, RcChanging
    <3>2. \A q \in RcRequests : q # r => ~RcChanging(q)
      BY <2>0, <3>1 DEF Exact, AtMostOne, RcChanging
    <3>3. spent' = LeftAfter(r) /\ (RcDone(r) \/ (RcGoto(r, "saved") /\ r \notin Recoveries))
      BY <2>9 DEF WriteCodes, LeftAfter, RecoveryAssumption
    <3>4. \A q \in RcRequests : q # r => rcStage'[q] = rcStage[q] /\ rcCopy'[q] = rcCopy[q]
      BY <3>3 DEF RcDone, RcGoto, TypeInv, RecoveryTypeOK
    <3>5. rcStage'[r] = "idle" \/ (rcStage'[r] = "saved" /\ rcCopy'[r] = rcCopy[r] /\ r \notin Recoveries)
      BY <3>3 DEF RcDone, RcGoto, TypeInv, RecoveryTypeOK
    <3>6. codesFile'.unused = {s \in Slots : <<codesFile'.batch, s>> \notin spent'}
      BY <2>0, <3>1, <3>3 DEF Exact, Copied
    <3>7. codesFile' \notin {Empty, Torn} /\ codesFile' \in Storage
      BY <3>1 DEF RecoveryAssumption, Unreadable
    <3>8. shown # 0 => codesFile'.batch = shown
      BY <2>0, <3>1 DEF Exact, Copied, RcChanging
    <3>9. \A q \in RcRequests : Copied(q)'
      BY <2>0, <3>1, <3>2, <3>4, <3>5, <3>8 DEF Exact, Copied, RcChanging
    <3>10. QED
      BY <2>0, <3>1, <3>2, <3>4, <3>5, <3>6, <3>7, <3>8, <3>9 DEF Exact, AtMostOne, RcChanging
  <2>10. ASSUME NEW r \in RcRequests, RcSaveFails(r) PROVE Exact'
    BY <2>10 DEF RcSaveFails
  <2>11. ASSUME NEW r \in RcRequests, Show(r) PROVE Exact'
    <3>1. /\ RcDone(r) /\ rcStage[r] = "saved" /\ UNCHANGED <<codesFile, spent>>
          /\ shown' = rcCopy[r].batch /\ ~setup'
      BY <2>11 DEF Show
    <3>2. codesFile = rcCopy[r] /\ codesFile \in Storage
      BY <2>0, <3>1 DEF Exact, Copied, TypeInv, Held, RcChanging
    <3>3. QED
      BY <2>0, <3>1, <3>2, DoneExact
  <2>12. ASSUME NEW r \in RcRequests, RcHangUp(r) PROVE Exact'
    BY <2>0, <2>12, DoneExact DEF RcHangUp, rcHistory, Exact
  <2>13. CASE UNCHANGED recovery
    BY <2>0, <2>13 DEF recovery, rcRequest, rcHistory, Exact, AtMostOne, Copied, LeftAfter, RcChanging
  <2>14. QED
    BY <2>1, <2>2, <2>3, <2>5, <2>6, <2>7, <2>8, <2>9, <2>10, <2>11, <2>12, <2>13 DEF RecoveryNext, RcServe
<1>3. ExactInv => CodesKept
  BY DEF ExactInv, Exact, CodesKept, RcChanging
<1>4. QED
  BY <1>1, <1>2, <1>3, TypeInvariant, UsedInvariant, PTL DEF RecoverySpec
-----------------------------------------------------------------------------
(* The rate limit of recoveries *)

LEMMA CountedType ==
    ASSUME now \in Time, NEW limit \in Limit,
           Over(limit) \/ Room(limit, MaxAttempts)
    PROVE  Counted(limit) \in Limit
<1> USE LimitAssumption
<1>1. CASE Over(limit)
  BY <1>1 DEF LimitAssumption, Counted, Limit
<1>2. CASE ~Over(limit)
  <2>1. limit.attempts + 1 \in 0..MaxAttempts
    BY <1>2 DEF Room, Limit, LimitAssumption
  <2>2. QED
    BY <1>2, <2>1 DEF Counted, Limit
<1>3. QED
  BY <1>1, <1>2

LEMMA WindowType ==
    ASSUME now \in Time,
           NEW limit \in [last : Time, attempts : 0..(MaxAttempts + 1)],
           Over(limit) \/ Room(limit, MaxAttempts + 1)
    PROVE  Counted(limit) \in [last : Time, attempts : 0..(MaxAttempts + 1)]
<1> USE LimitAssumption
<1>1. CASE Over(limit)
  BY <1>1 DEF LimitAssumption, Counted
<1>2. CASE ~Over(limit)
  <2>1. limit.attempts + 1 \in 0..(MaxAttempts + 1)
    BY <1>2 DEF Room, LimitAssumption
  <2>2. QED
    BY <1>2, <2>1 DEF Counted
<1>3. QED
  BY <1>1, <1>2

LEMMA UntriedType == Untried \in Limits
  BY LimitAssumption DEF LimitAssumption, Untried, Limits, Limit, Time

(* Every reachable state of the rate limit has the right types. *)
THEOREM LimitTypeCorrect == LimitSpec => []LimitTypeOK
<1> USE LimitAssumption
<1>1. LimitInit => LimitTypeOK
  <2> SUFFICES ASSUME LimitInit PROVE LimitTypeOK
    OBVIOUS
  <2>1. now \in Time
    BY DEF LimitInit, LimitAssumption, Time
  <2>2. window \in [Addresses -> [last : Time, attempts : 0..(MaxAttempts + 1)]]
    BY DEF LimitInit, LimitAssumption, Untried, Time
  <2>3. QED
    BY <2>1, <2>2, UntriedType DEF LimitInit, LimitTypeOK, Unreadable
<1>2. LimitTypeOK /\ [LimitNext]_rateLimit => LimitTypeOK'
  <2> SUFFICES ASSUME LimitTypeOK, [LimitNext]_rateLimit PROVE LimitTypeOK'
    OBVIOUS
  <2>1. CASE Load
    BY <2>1 DEF Load, LimitTypeOK
  <2>2. CASE RlRestart
    BY <2>2, UntriedType DEF RlRestart, LimitTypeOK
  <2>3. CASE Tick
    BY <2>3 DEF Tick, LimitTypeOK, Time, LimitAssumption
  <2>4. ASSUME NEW r \in Attempts, NEW a \in Addresses, Count(r, a) PROVE LimitTypeOK'
    <3>1. limits' \in Limits
      <4>1. Counted(limits[a]) \in Limit
        BY <2>4, CountedType DEF Count, LimitTypeOK, Limits
      <4>2. QED
        BY <2>4, <4>1 DEF Count, LimitTypeOK, Limits
    <3>2. window' \in [Addresses -> [last : Time, attempts : 0..(MaxAttempts + 1)]]
      <4>1. Over(window[a]) \/ Room(window[a], MaxAttempts + 1) =>
               Counted(window[a]) \in [last : Time, attempts : 0..(MaxAttempts + 1)]
        BY WindowType DEF LimitTypeOK
      <4>2. QED
        BY <2>4, <4>1 DEF Count, LimitTypeOK
    <3>3. QED
      BY <2>4, <3>1, <3>2 DEF Count, RlGoto, LimitTypeOK
  <2>5. ASSUME NEW r \in Attempts, CloneLimits(r) PROVE LimitTypeOK'
    BY <2>5 DEF CloneLimits, RlGoto, LimitTypeOK
  <2>6. ASSUME NEW r \in Attempts, OpenLimits(r) PROVE LimitTypeOK'
    BY <2>6 DEF OpenLimits, RlGoto, LimitTypeOK, Unreadable
  <2>7. ASSUME NEW r \in Attempts, WriteLimits(r) PROVE LimitTypeOK'
    BY <2>7, UntriedType DEF WriteLimits, Overwritten, RlGoto, LimitTypeOK, Unreadable
  <2>8. ASSUME NEW r \in Attempts, NotSaved(r) PROVE LimitTypeOK'
    BY <2>8, UntriedType DEF NotSaved, RlGoto, LimitTypeOK
  <2>9. CASE UNCHANGED rateLimit
    BY <2>9 DEF rateLimit, LimitTypeOK
  <2>10. QED
    BY <2>1, <2>2, <2>3, <2>4, <2>5, <2>6, <2>7, <2>8, <2>9 DEF LimitNext, RlServe
<1>3. QED
  BY <1>1, <1>2, PTL DEF LimitSpec

(* As long as every save was alone and complete, at most one request is    *)
(* under way, what is counted in memory is what was let through, and so is *)
(* the file between requests, and before the first.                        *)
SavedAll == limitFile = window \/ (limitFile = Absent /\ window = Untried)

Saving(r) ==
    /\ rlStage[r] \in {"cloned", "opened"} => rlCopy[r] = window
    /\ rlStage[r] = "opened" => limitFile = Empty

CountsKept ==
    /\ window \in Limits
    /\ \A q, r \in Attempts : rlStage[q] # "idle" /\ rlStage[r] # "idle" => q = r
    /\ \A r \in Attempts : Saving(r)
    /\ loaded => limits = window
    /\ ~loaded => limits = Untried /\ \A r \in Attempts : rlStage[r] = "idle"
    /\ (\A r \in Attempts : rlStage[r] = "idle") => SavedAll

LimitInv == rlKept => CountsKept

(* An address is never let through more often than the limit allows,       *)
(* restarts included (recovery.rs 62-95).                                  *)
THEOREM AttemptsInvariant == LimitSpec => []AttemptsBounded
<1> USE LimitAssumption
<1>1. LimitInit => LimitInv
  BY UntriedType DEF LimitInit, LimitInv, CountsKept, SavedAll, Saving
<1>2. LimitTypeOK /\ LimitTypeOK' /\ LimitInv /\ [LimitNext]_rateLimit => LimitInv'
  <2> SUFFICES ASSUME LimitTypeOK, LimitTypeOK', LimitInv, [LimitNext]_rateLimit, rlKept' PROVE CountsKept'
    BY DEF LimitInv
  <2>0. rlKept /\ CountsKept
    BY DEF LimitInv, LimitNext, RlServe, rateLimit, Load, RlRestart, Tick, Count, CloneLimits,
           OpenLimits, WriteLimits, NotSaved
  <2>1. CASE Load
    <3>1. \A r \in Attempts : rlStage[r] = "idle"
      BY <2>0, <2>1 DEF Load, CountsKept
    <3>2. limits' = window
      BY <2>0, <2>1, <3>1 DEF Load, CountsKept, SavedAll, LimitTypeOK, LimitAssumption, Unreadable
    <3>3. QED
      BY <2>0, <2>1, <3>1, <3>2 DEF Load, CountsKept, SavedAll, Saving
  <2>2. CASE RlRestart
    <3>1. \A r \in Attempts : rlStage[r] = "idle" /\ rlStage'[r] = "idle"
      BY <2>2 DEF RlRestart
    <3>2. QED
      BY <2>0, <2>2, <3>1 DEF RlRestart, CountsKept, SavedAll, Saving
  <2>3. CASE Tick
    BY <2>0, <2>3 DEF Tick, CountsKept, SavedAll, Saving
  <2>4. ASSUME NEW r \in Attempts, NEW a \in Addresses, Count(r, a) PROVE CountsKept'
    <3>1. \A q \in Attempts : rlStage[q] = "idle"
      BY <2>4 DEF Count
    <3>2. limits' = window'
      <4>1. Over(limits[a]) \/ Room(limits[a], MaxAttempts + 1)
        BY <2>4 DEF Count, Room, LimitTypeOK, Limits, Limit, LimitAssumption
      <4>2. QED
        BY <2>0, <2>4, <4>1 DEF Count, CountsKept
    <3>3. /\ rlStage'[r] = "counted"
          /\ \A q \in Attempts : q # r => rlStage'[q] = "idle"
      BY <2>4, <3>1 DEF Count, RlGoto, LimitTypeOK
    <3>4. loaded' /\ window' \in Limits
      BY <2>4, <3>2 DEF Count, LimitTypeOK
    <3>5. QED
      BY <3>2, <3>3, <3>4 DEF CountsKept, Saving
  <2>5. ASSUME NEW r \in Attempts, CloneLimits(r) PROVE CountsKept'
    <3>1. /\ rlStage'[r] = "cloned" /\ rlCopy'[r] = limits
          /\ \A q \in Attempts : q # r => rlStage'[q] = rlStage[q] /\ rlCopy'[q] = rlCopy[q]
      BY <2>5 DEF CloneLimits, RlGoto, LimitTypeOK
    <3>2. QED
      BY <2>0, <2>5, <3>1 DEF CloneLimits, CountsKept, Saving
  <2>6. ASSUME NEW r \in Attempts, OpenLimits(r) PROVE CountsKept'
    <3>1. /\ rlStage'[r] = "opened"
          /\ \A q \in Attempts : q # r => rlStage'[q] = rlStage[q]
      BY <2>6 DEF OpenLimits, RlGoto, LimitTypeOK
    <3>2. QED
      BY <2>0, <2>6, <3>1 DEF OpenLimits, CountsKept, Saving
  <2>7. ASSUME NEW r \in Attempts, WriteLimits(r) PROVE CountsKept'
    <3>1. limitFile' = window /\ UNCHANGED <<window, limits, loaded>>
      BY <2>0, <2>7 DEF WriteLimits, Overwritten, CountsKept, Saving
    <3>2. \A q \in Attempts : rlStage'[q] = "idle"
      BY <2>0, <2>7 DEF WriteLimits, RlGoto, CountsKept, LimitTypeOK
    <3>3. loaded
      BY <2>0, <2>7 DEF WriteLimits, CountsKept
    <3>4. QED
      BY <2>0, <3>1, <3>2, <3>3 DEF CountsKept, Saving, SavedAll
  <2>8. ASSUME NEW r \in Attempts, NotSaved(r) PROVE CountsKept'
    BY <2>8 DEF NotSaved
  <2>9. CASE UNCHANGED rateLimit
    BY <2>0, <2>9 DEF rateLimit, CountsKept, SavedAll, Saving
  <2>10. QED
    BY <2>1, <2>2, <2>3, <2>4, <2>5, <2>6, <2>7, <2>8, <2>9 DEF LimitNext, RlServe
<1>3. LimitTypeOK /\ LimitInv => AttemptsBounded
  <2> SUFFICES ASSUME LimitTypeOK, CountsKept, NEW a \in Addresses
               PROVE  window[a].attempts <= MaxAttempts
    BY DEF LimitInv, AttemptsBounded
  <2>1. window \in Limits
    BY DEF CountsKept
  <2>2. QED
    BY <2>1 DEF Limits, Limit, LimitAssumption
<1>4. QED
  BY <1>1, <1>2, <1>3, LimitTypeCorrect, PTL DEF LimitSpec

-----------------------------------------------------------------------------
(* The account *)

(* Every reachable state of the account has the right types. *)
THEOREM AccountsTypeCorrect == AccountsSpec => []AccountsTypeOK
<1> USE AccountsAssumption
<1>1. AccountsInit => AccountsTypeOK
  BY DEF AccountsInit, AccountsTypeOK, Unreadable
<1>2. AccountsTypeOK /\ (\A r \in Changes : acStage[r] # "idle" => new[r] \in Passwords)
         /\ [AccountsNext]_accounts
      => AccountsTypeOK' /\ (\A r \in Changes : acStage[r] # "idle" => new[r] \in Passwords)'
  <2> SUFFICES ASSUME AccountsTypeOK, \A r \in Changes : acStage[r] # "idle" => new[r] \in Passwords,
                      [AccountsNext]_accounts
               PROVE  AccountsTypeOK' /\ (\A r \in Changes : acStage[r] # "idle" => new[r] \in Passwords)'
    OBVIOUS
  <2> USE DEF AccountsTypeOK, AcGoto, AcDone, Spoil, Unreadable
  <2>1. CASE AcRestart
    BY <2>1 DEF AcRestart
  <2>2. ASSUME NEW r \in Changes, NEW p \in Passwords, Change(r, p)
        PROVE  AccountsTypeOK' /\ (\A q \in Changes : acStage[q] # "idle" => new[q] \in Passwords)'
    BY <2>2 DEF Change
  <2>3. ASSUME NEW r \in Changes, OpenAccount(r)
        PROVE  AccountsTypeOK' /\ (\A q \in Changes : acStage[q] # "idle" => new[q] \in Passwords)'
    BY <2>3 DEF OpenAccount
  <2>4. ASSUME NEW r \in Changes, WriteAccount(r)
        PROVE  AccountsTypeOK' /\ (\A q \in Changes : acStage[q] # "idle" => new[q] \in Passwords)'
    <3>1. account' \in Passwords \cup Unreadable
      BY <2>4 DEF WriteAccount, Overwritten
    <3>2. QED
      BY <2>4, <3>1 DEF WriteAccount
  <2>5. ASSUME NEW r \in Changes, AcSaveFails(r)
        PROVE  AccountsTypeOK' /\ (\A q \in Changes : acStage[q] # "idle" => new[q] \in Passwords)'
    BY <2>5 DEF AcSaveFails
  <2>6. ASSUME NEW r \in Changes, SetRoot(r)
        PROVE  AccountsTypeOK' /\ (\A q \in Changes : acStage[q] # "idle" => new[q] \in Passwords)'
    BY <2>6 DEF SetRoot
  <2>7. ASSUME NEW r \in Changes, PasswdFails(r) \/ RemoveAccount(r)
        PROVE  AccountsTypeOK' /\ (\A q \in Changes : acStage[q] # "idle" => new[q] \in Passwords)'
    BY <2>7 DEF PasswdFails, RemoveAccount
  <2>8. ASSUME NEW r \in Changes, AcHangUp(r)
        PROVE  AccountsTypeOK' /\ (\A q \in Changes : acStage[q] # "idle" => new[q] \in Passwords)'
    BY <2>8 DEF AcHangUp
  <2>9. CASE UNCHANGED accounts
    BY <2>9 DEF accounts
  <2>10. QED
    BY <2>1, <2>2, <2>3, <2>4, <2>5, <2>6, <2>7, <2>8, <2>9 DEF AccountsNext, AcServe
<1>3. AccountsInit => \A r \in Changes : acStage[r] # "idle" => new[r] \in Passwords
  BY DEF AccountsInit
<1>4. QED
  BY <1>1, <1>2, <1>3, PTL DEF AccountsSpec

(* While changes come one at a time and none fails: what the one under way *)
(* has done, and between two of them that the last one's password is in    *)
(* both places.                                                            *)
ChangeKept(r) ==
    /\ acStage[r] = "opened" => account = Empty
    /\ acStage[r] = "saved" => account = new[r]
    /\ acStage[r] # "undo"

AccountKept ==
    /\ \A q, r \in Changes : acStage[q] # "idle" /\ acStage[r] # "idle" => q = r
    /\ \A r \in Changes : ChangeKept(r)
    /\ set # NoPassword /\ (\A r \in Changes : acStage[r] \in {"idle", "ready"})
          => account = set /\ root = set

AccountsInv == fate = "kept" => AccountKept

(* After a change that succeeded its password is in effect for the pages   *)
(* and for root until the next change (auth.rs 404-480).                   *)
THEOREM LastChangeInvariant == AccountsSpec => []LastChangeStands
<1> USE AccountsAssumption
<1>1. AccountsInit => AccountsInv
  BY DEF AccountsInit, AccountsInv, AccountKept, ChangeKept
<1>2. AccountsTypeOK /\ AccountsInv /\ [AccountsNext]_accounts => AccountsInv'
  <2> SUFFICES ASSUME AccountsTypeOK, AccountsInv, [AccountsNext]_accounts, fate' = "kept"
               PROVE  AccountKept'
    BY DEF AccountsInv
  <2>0. fate = "kept" /\ AccountKept
    BY DEF AccountsInv, AccountsNext, AcServe, accounts, Spoil, AcRestart, Change, OpenAccount,
           WriteAccount, AcSaveFails, SetRoot, PasswdFails, RemoveAccount, AcHangUp
  <2>1. CASE AcRestart
    <3>1. \A r \in Changes : acStage[r] \in {"idle", "ready"} /\ acStage'[r] = "idle"
      BY <2>0, <2>1 DEF AcRestart, Spoil, AccountsTypeOK
    <3>2. QED
      BY <2>0, <2>1, <3>1 DEF AcRestart, AccountKept, ChangeKept
  <2>2. ASSUME NEW r \in Changes, NEW p \in Passwords, Change(r, p) PROVE AccountKept'
    <3>1. \A q \in Changes : acStage[q] = "idle"
      BY <2>0, <2>2 DEF Change, Spoil
    <3>2. acStage'[r] = "ready" /\ \A q \in Changes : q # r => acStage'[q] = "idle"
      BY <2>2, <3>1 DEF Change, AccountsTypeOK
    <3>3. QED
      BY <2>0, <2>2, <3>1, <3>2 DEF Change, AccountKept, ChangeKept
  <2>3. ASSUME NEW r \in Changes, acStage[r] # "idle", AcDone(r), UNCHANGED account,
               set' = NoPassword \/ (account = set' /\ root' = set')
        PROVE AccountKept'
    <3>1. \A q \in Changes : acStage'[q] = "idle"
      BY <2>0, <2>3 DEF AcDone, AccountKept, AccountsTypeOK
    <3>2. QED
      BY <2>3, <3>1 DEF AccountKept, ChangeKept
  <2>4. ASSUME NEW r \in Changes, OpenAccount(r) PROVE AccountKept'
    <3>1. acStage'[r] = "opened" /\ \A q \in Changes : q # r => acStage'[q] = acStage[q]
      BY <2>4 DEF OpenAccount, AcGoto, AccountsTypeOK
    <3>2. QED
      BY <2>0, <2>4, <3>1 DEF OpenAccount, AccountKept, ChangeKept
  <2>5. ASSUME NEW r \in Changes, WriteAccount(r) PROVE AccountKept'
    <3>1. account' = new[r]
      BY <2>0, <2>5 DEF WriteAccount, Overwritten, AccountKept, ChangeKept
    <3>2. AcGoto(r, "saved")
      BY <2>0, <2>5 DEF WriteAccount, Spoil
    <3>3. /\ acStage'[r] = "saved" /\ new'[r] = new[r]
          /\ \A q \in Changes : q # r => acStage'[q] = "idle"
      BY <2>0, <2>5, <3>2 DEF WriteAccount, AcGoto, AccountKept, AccountsTypeOK
    <3>4. QED
      BY <3>1, <3>3 DEF AccountKept, ChangeKept
  <2>6. ASSUME NEW r \in Changes, AcSaveFails(r) PROVE AccountKept'
    <3>1. acStage[r] = "ready"
      BY <2>0, <2>6 DEF AcSaveFails, Spoil
    <3>2. \A q \in Changes : acStage[q] \in {"idle", "ready"}
      BY <2>0, <3>1 DEF AccountKept
    <3>3. QED
      BY <2>0, <2>3, <2>6, <3>1, <3>2 DEF AcSaveFails, AccountKept
  <2>7. ASSUME NEW r \in Changes, SetRoot(r) PROVE AccountKept'
    BY <2>0, <2>3, <2>7 DEF SetRoot, AccountKept, ChangeKept
  <2>8. ASSUME NEW r \in Changes, PasswdFails(r) \/ RemoveAccount(r) PROVE AccountKept'
    BY <2>0, <2>8 DEF PasswdFails, RemoveAccount, Spoil, AccountKept, ChangeKept
  <2>9. ASSUME NEW r \in Changes, AcHangUp(r) PROVE AccountKept'
    <3>1. acStage[r] = "ready"
      BY <2>0, <2>9 DEF AcHangUp, Spoil, AccountKept, ChangeKept
    <3>2. \A q \in Changes : acStage[q] \in {"idle", "ready"}
      BY <2>0, <3>1 DEF AccountKept
    <3>3. QED
      BY <2>0, <2>3, <2>9, <3>1, <3>2 DEF AcHangUp, AccountKept
  <2>10. CASE UNCHANGED accounts
    BY <2>0, <2>10 DEF accounts, AccountKept, ChangeKept
  <2>11. QED
    BY <2>1, <2>2, <2>4, <2>5, <2>6, <2>7, <2>8, <2>9, <2>10 DEF AccountsNext, AcServe
<1>3. AccountsTypeOK /\ AccountsInv => LastChangeStands
  <2> SUFFICES ASSUME AccountsTypeOK, AccountKept, set # NoPassword,
                      ~\E r \in Changes : acStage[r] \in {"opened", "saved"}
               PROVE  InEffect = set /\ root = set
    BY DEF AccountsInv, LastChangeStands
  <2>1. \A r \in Changes : acStage[r] \in {"idle", "ready"}
    BY DEF AccountKept, ChangeKept, AccountsTypeOK
  <2>2. account = set /\ root = set /\ set \in Passwords
    BY <2>1 DEF AccountKept, AccountsTypeOK
  <2>3. QED
    BY <2>2 DEF InEffect
<1>4. QED
  BY <1>1, <1>2, <1>3, AccountsTypeCorrect, PTL DEF AccountsSpec

-----------------------------------------------------------------------------
(* Together *)

(* The run's behaviours are behaviours of each of the four.                *)
THEOREM AccessTogether ==
    Spec => PasskeysSpec /\ RecoverySpec /\ LimitSpec /\ AccountsSpec
<1>1. Init => PasskeysInit /\ RecoveryInit /\ LimitInit /\ AccountsInit
  BY DEF Init
<1>2. [Next]_<<part, passkeys, recovery, rateLimit, accounts>> =>
          /\ [PasskeysNext]_passkeys /\ [RecoveryNext]_recovery
          /\ [LimitNext]_rateLimit /\ [AccountsNext]_accounts
  BY DEF Next
<1>3. QED
  BY <1>1, <1>2, PTL DEF Spec, PasskeysSpec, RecoverySpec, LimitSpec, AccountsSpec

(* Each of the four keeps its promise in the run of them all.              *)
COROLLARY AccessRun ==
    Spec => []( /\ ChallengeBounded /\ StoreKept /\ UsedOnce /\ CodesKept
                /\ AttemptsBounded /\ LastChangeStands )
BY AccessTogether, ChallengeOnce, StoreInvariant, CodeUsedOnce, CodesInvariant,
   AttemptsInvariant, LastChangeInvariant, PTL
=============================================================================
