-------------------------- MODULE BruteForceProofs --------------------------
(***************************************************************************)
(* Proofs about BruteForce: types, that lockouts are earned, that failures *)
(* are remembered, the bound on guesses during a lockout, and that saves   *)
(* that do not cross keep the file in step with the map.                   *)
(***************************************************************************)
EXTENDS BruteForce, FiniteSetTheorems, TLAPS

LoginOK ==
    /\ login \in [Logins -> [stage : Stages, ip : Ips \cup {Absent},
                              clone : {login[r].clone : r \in Logins}]]
    /\ \A r \in Logins : /\ IsMap(login[r].clone)
                         /\ login[r].stage = "checked" => login[r].ip \in Ips

Requests == \A r \in Logins : /\ IsMap(login[r].clone)
                              /\ login[r].stage = "checked" => login[r].ip \in Ips

LEMMA RequestsOK == LoginOK => Requests
  BY DEF LoginOK, Requests

(* Giving a request a new stage, address and clone keeps the type. *)
LEMMA LoginType ==
    ASSUME LoginOK, NEW r \in Logins, NEW stage \in Stages, NEW i \in Ips \cup {Absent},
           NEW m, IsMap(m), stage = "checked" => i \in Ips,
           login' = [login EXCEPT ![r] = [stage |-> stage, ip |-> i, clone |-> m]]
    PROVE  LoginOK'
<1>1. /\ DOMAIN login' = Logins /\ login' = [q \in Logins |-> login'[q]]
      /\ login'[r] = [stage |-> stage, ip |-> i, clone |-> m]
      /\ \A q \in Logins \ {r} : login'[q] = login[q]
  BY DEF LoginOK
<1>2. \A q \in Logins : login'[q] \in [stage : Stages, ip : Ips \cup {Absent},
                                          clone : {login'[p].clone : p \in Logins}]
  <2> SUFFICES ASSUME NEW q \in Logins
               PROVE  login'[q] \in [stage : Stages, ip : Ips \cup {Absent},
                                      clone : {login'[p].clone : p \in Logins}]
    OBVIOUS
  <2>1. CASE q = r
    BY <2>1, <1>1
  <2>2. CASE q # r
    <3>1. login[q] = [stage |-> login[q].stage, ip |-> login[q].ip, clone |-> login[q].clone]
          /\ login[q].stage \in Stages /\ login[q].ip \in Ips \cup {Absent}
      BY DEF LoginOK
    <3>2. login'[q] = login[q]
      BY <2>2, <1>1
    <3>3. QED
      BY <3>1, <3>2
  <2>3. QED
    BY <2>1, <2>2
<1>3. login' \in [Logins -> [stage : Stages, ip : Ips \cup {Absent},
                               clone : {login'[p].clone : p \in Logins}]]
  BY <1>1, <1>2
<1>4. \A q \in Logins : IsMap(login'[q].clone)
                         /\ (login'[q].stage = "checked" => login'[q].ip \in Ips)
  <2> SUFFICES ASSUME NEW q \in Logins
               PROVE  IsMap(login'[q].clone)
                        /\ (login'[q].stage = "checked" => login'[q].ip \in Ips)
    OBVIOUS
  <2>1. CASE q = r
    <3>1. login'[q].clone = m /\ login'[q].stage = stage /\ login'[q].ip = i
      BY <2>1, <1>1
    <3>2. QED
      BY <3>1
  <2>2. CASE q # r
    <3>1. login'[q] = login[q]
      BY <2>2, <1>1
    <3>2. QED
      BY <3>1, RequestsOK DEF Requests
  <2>3. QED
    BY <2>1, <2>2
<1>5. QED
  BY <1>3, <1>4 DEF LoginOK

LEMMA NoRecordsIsMap == IsMap(NoRecords)
<1>1. NoRecords \in [{} -> Attempt]
  BY DEF NoRecords
<1>2. QED
  BY <1>1 DEF IsMap

(* Keeping some of the entries of a map leaves a map. *)
LEMMA RestrictionIsMap ==
    ASSUME NEW m, IsMap(m), NEW S \in SUBSET DOMAIN m
    PROVE  /\ IsMap([ip \in S |-> m[ip]])
           /\ DOMAIN [ip \in S |-> m[ip]] = S
<1>1. PICK known \in SUBSET Ips : m \in [known -> Attempt]
  BY DEF IsMap
<1>2. [ip \in S |-> m[ip]] \in [S -> Attempt] /\ S \in SUBSET Ips
  BY <1>1
<1>3. QED
  BY <1>2 DEF IsMap

(* So does recording a failure. *)
LEMMA RecordedIsMap ==
    ASSUME NEW m, IsMap(m), NEW ip \in Ips, now \in Nat
    PROVE  /\ IsMap(Recorded(m, ip))
           /\ Entry(m, ip) \in Attempt
           /\ DOMAIN Recorded(m, ip) = DOMAIN m \cup {ip}
<1>1. PICK known \in SUBSET Ips : m \in [known -> Attempt]
  BY DEF IsMap
<1>2. DOMAIN m = known
  BY <1>1
<1>3. Entry(m, ip) \in Attempt
  BY <1>1, <1>2 DEF Entry, Attempt
<1>4. [failures |-> Count(Entry(m, ip)), lastFailed |-> now,
       lockoutEnd |-> LockoutEnd(Entry(m, ip))] \in Attempt
  <2>1. Count(Entry(m, ip)) \in Nat
    BY <1>3 DEF Count, Attempt
  <2>2. LockoutEnd(Entry(m, ip)) \in Nat
    BY <1>3, ThrottleAssumption DEF LockoutEnd, Attempt
  <2>3. QED
    BY <2>1, <2>2 DEF Attempt
<1>5. Recorded(m, ip) \in [known \cup {ip} -> Attempt]
  BY <1>1, <1>2, <1>4 DEF Recorded
<1>6. QED
  BY <1>2, <1>3, <1>5 DEF IsMap, Recorded

LEMMA GotoType ==
    ASSUME LoginOK, NEW r \in Logins, NEW stage \in Stages \ {"checked"}, Goto(r, stage)
    PROVE  LoginOK'
  BY LoginType, NoRecordsIsMap DEF Goto, At

LEMMA WatchType == ASSUME guesses \in [Ips -> Nat], NEW failed, Watch(failed)
                   PROVE  guesses' \in [Ips -> Nat]
  BY DEF Watch

LEMMA LoadedIsMap == TypeOK => IsMap(Loaded)
  BY NoRecordsIsMap DEF TypeOK, Loaded

(* The variables of the specification keep their types. *)
THEOREM TypeCorrect == Spec => []TypeOK
<1>1. Init => TypeOK
  <2> SUFFICES ASSUME Init PROVE TypeOK
    OBVIOUS
  <2>1. /\ DOMAIN login = Logins
        /\ \A r \in Logins : login[r] = At("idle")
    BY DEF Init
  <2>2. LoginOK
    BY <2>1, NoRecordsIsMap DEF Init, LoginOK, At, Stages
  <2>3. QED
    BY <2>2, NoRecordsIsMap DEF Init, TypeOK, LoginOK, Unreadable
<1>2. TypeOK /\ [Next]_vars => TypeOK'
  <2> SUFFICES ASSUME TypeOK, [Next]_vars PROVE TypeOK'
    OBVIOUS
  <2>0. LoginOK
    BY DEF TypeOK, LoginOK
  <2> SUFFICES /\ LoginOK'
               /\ IsMap(attempts)' /\ now' \in Nat
               /\ fd' \in [Logins -> {"none", "tmp", "file", "unlinked"}]
               /\ tmp' \in Unreadable \/ IsMap(tmp)'
               /\ file' \in Unreadable \/ IsMap(file)'
               /\ saved' \in {"well", "crossed", "lost"}
               /\ guesses' \in [Ips -> Nat]
    BY DEF TypeOK, LoginOK
  <2> USE DEF disk
  <2>1. ASSUME NEW r \in Logins, NEW ip \in Ips, Check(r, ip) PROVE TypeOK'
    <3>1. [At("checked") EXCEPT !.ip = ip]
             = [stage |-> "checked", ip |-> ip, clone |-> NoRecords]
      BY DEF At
    <3>2. LoginOK'
      BY <2>0, <2>1, <3>1, LoginType, NoRecordsIsMap DEF Check, Stages
    <3>3. QED
      BY <2>1, <3>2 DEF Check, TypeOK, LoginOK
  <2>2. ASSUME NEW r \in Logins, RecordFailure(r) PROVE TypeOK'
    <3>1. LoginOK'
      BY <2>0, <2>2, GotoType DEF RecordFailure, Stages
    <3>2. IsMap(IF Full(attempts) THEN NoRecords ELSE attempts)
      BY NoRecordsIsMap DEF TypeOK
    <3> DEFINE m == IF Full(attempts) THEN NoRecords ELSE attempts
    <3>3. IsMap(attempts')
      <4>1. login[r].ip \in Ips /\ now \in Nat
        BY <2>0, <2>2, RequestsOK DEF RecordFailure, Requests, TypeOK
      <4>2. attempts' = Recorded(m, login[r].ip)
        BY <2>2 DEF RecordFailure
      <4> HIDE DEF m
      <4>3. IsMap(m)
        BY <3>2 DEF m
      <4>4. IsMap(Recorded(m, login[r].ip))
        BY <4>1, <4>3, RecordedIsMap
      <4>5. QED
        BY <4>2, <4>4
    <3>4. guesses' \in [Ips -> Nat]
      BY <2>2, WatchType DEF RecordFailure, TypeOK
    <3>5. QED
      BY <2>2, <3>1, <3>3, <3>4 DEF RecordFailure, TypeOK, LoginOK
  <2>3. ASSUME NEW r \in Logins, Clear(r) PROVE TypeOK'
    <3>1. LoginOK'
      BY <2>0, <2>3, GotoType DEF Clear, Stages
    <3>2. IsMap(attempts')
      BY <2>3, RestrictionIsMap DEF Clear, TypeOK
    <3>3. guesses' \in [Ips -> Nat]
      BY <2>3, WatchType DEF Clear, TypeOK
    <3>4. QED
      BY <2>3, <3>1, <3>2, <3>3 DEF Clear, TypeOK, LoginOK
  <2>4. ASSUME NEW r \in Logins, HangUp(r) PROVE TypeOK'
    <3>1. LoginOK'
      BY <2>0, <2>4, GotoType DEF HangUp, Stages
    <3>2. QED
      BY <2>4, <3>1 DEF HangUp, TypeOK, LoginOK
  <2>5. ASSUME NEW r \in Logins, CloneMap(r) PROVE TypeOK'
    <3>1. [At("cloned") EXCEPT !.clone = attempts]
             = [stage |-> "cloned", ip |-> Absent, clone |-> attempts]
      BY DEF At
    <3>2. LoginOK'
      <4>1. login' = [login EXCEPT ![r] = [stage |-> "cloned", ip |-> Absent, clone |-> attempts]]
        BY <2>5, <3>1 DEF CloneMap
      <4>2. IsMap(attempts) /\ "cloned" \in Stages
        BY DEF TypeOK, Stages
      <4>3. QED
        BY <2>0, <4>1, <4>2, LoginType
    <3>3. QED
      BY <2>5, <3>2 DEF CloneMap, TypeOK, LoginOK
  <2>6. ASSUME NEW r \in Logins, OpenTmp(r) PROVE TypeOK'
    <3>1. [login[r] EXCEPT !.stage = "opened"]
             = [stage |-> "opened", ip |-> login[r].ip, clone |-> login[r].clone]
      BY DEF TypeOK
    <3>2. LoginOK'
      <4>1. login' = [login EXCEPT ![r] = [stage |-> "opened", ip |-> login[r].ip,
                                            clone |-> login[r].clone]]
        BY <2>6, <3>1 DEF OpenTmp
      <4>2. IsMap(login[r].clone)
        BY <2>0, RequestsOK DEF Requests
      <4>3. login[r].ip \in Ips \cup {Absent} /\ "opened" \in Stages
        BY DEF TypeOK, Stages
      <4>4. QED
        BY <2>0, <4>1, <4>2, <4>3, LoginType
    <3>3. QED
      BY <2>6, <3>2 DEF OpenTmp, TypeOK, LoginOK, Unreadable
  <2>7. ASSUME NEW r \in Logins, WriteTmp(r) PROVE TypeOK'
    <3>1. LoginOK'
      BY <2>0, <2>7, GotoType DEF WriteTmp, Stages
    <3>2. \A old : Overwritten(old, login[r].clone) \subseteq {login[r].clone, Torn}
      BY DEF Overwritten
    <3>3. IsMap(login[r].clone)
      BY <2>0, RequestsOK DEF Requests
    <3>4. tmp' = tmp \/ tmp' = Torn \/ tmp' = login[r].clone
      BY <2>7, <3>2 DEF WriteTmp
    <3>5. file' = file \/ file' = Torn \/ file' = login[r].clone
      BY <2>7, <3>2 DEF WriteTmp
    <3>6. tmp' \in Unreadable \/ IsMap(tmp')
      BY <3>3, <3>4 DEF TypeOK, Unreadable
    <3>7. file' \in Unreadable \/ IsMap(file')
      BY <3>3, <3>5 DEF TypeOK, Unreadable
    <3>8. QED
      BY <2>7, <3>1, <3>6, <3>7 DEF WriteTmp, TypeOK, LoginOK
  <2>8. ASSUME NEW r \in Logins, WriteFails(r) PROVE TypeOK'
    <3>1. LoginOK'
      BY <2>0, <2>8, GotoType DEF WriteFails, Stages
    <3>2. QED
      BY <2>8, <3>1 DEF WriteFails, TypeOK, LoginOK
  <2>9. ASSUME NEW r \in Logins, Rename(r) PROVE TypeOK'
    <3>1. LoginOK'
      BY <2>0, <2>9, GotoType DEF Rename, Stages
    <3>2. QED
      BY <2>9, <3>1 DEF Rename, TypeOK, LoginOK, Unreadable
  <2>10. CASE Tick
    BY <2>0, <2>10, WatchType DEF Tick, TypeOK, LoginOK
  <2>11. CASE Cleanup
    <3>1. IsMap(attempts')
      BY <2>11, RestrictionIsMap DEF Cleanup, TypeOK
    <3>2. QED
      BY <2>0, <2>11, <3>1, WatchType DEF Cleanup, TypeOK, LoginOK
  <2>12. CASE Restart
    <3>1. /\ DOMAIN login' = Logins
          /\ \A r \in Logins : login'[r] = At("idle")
      BY <2>12 DEF Restart
    <3>2. LoginOK'
      BY <3>1, <2>12, NoRecordsIsMap DEF Restart, LoginOK, At, Stages
    <3>3. QED
      BY <2>12, <3>2, LoadedIsMap, WatchType DEF Restart, TypeOK, LoginOK
  <2>13. CASE UNCHANGED vars
    BY <2>0, <2>13 DEF vars, TypeOK, LoginOK, IsMap
  <2>14. QED
    BY <2>1, <2>2, <2>3, <2>4, <2>5, <2>6, <2>7, <2>8, <2>9, <2>10, <2>11, <2>12, <2>13
    DEF Next, Attend, Save, TypeOK, LoginOK
<1>3. QED
  BY <1>1, <1>2, PTL DEF Spec

-----------------------------------------------------------------------------
(* Lockouts are earned *)

(* A failure keeps a map earned: an entry that is locked is either past its *)
(* window, and starts again, or has MaxFailures failures already and is     *)
(* locked afresh.                                                           *)
LEMMA RecordedEarned ==
    ASSUME NEW m, IsMap(m), Earned(m), NEW ip \in Ips, now \in Nat
    PROVE  Earned(Recorded(m, ip))
<1>1. DOMAIN Recorded(m, ip) = DOMAIN m \cup {ip} /\ Entry(m, ip) \in Attempt
  BY RecordedIsMap
<1>2. \A i \in DOMAIN m \ {ip} : Recorded(m, ip)[i] = m[i]
  BY DEF Recorded
<1>3. Recorded(m, ip)[ip] = [failures |-> Count(Entry(m, ip)), lastFailed |-> now,
                             lockoutEnd |-> LockoutEnd(Entry(m, ip))]
  BY DEF Recorded
<1> DEFINE old == Entry(m, ip)
<1>4. old.lockoutEnd > 0 => old.failures >= MaxFailures
  BY ThrottleAssumption DEF Earned, Entry
<1>5. LockoutEnd(old) > 0 => Count(old) >= MaxFailures /\ LockoutEnd(old) = now + Window
  BY <1>1, <1>4, ThrottleAssumption DEF LockoutEnd, Count, Attempt
<1>6. QED
  BY <1>1, <1>2, <1>3, <1>5 DEF Earned

LEMMA NoRecordsEarned == Earned(NoRecords)
  BY DEF Earned, NoRecords

LEMMA RestrictionEarned ==
    ASSUME NEW m, Earned(m), NEW S \in SUBSET DOMAIN m
    PROVE  Earned([ip \in S |-> m[ip]])
  BY DEF Earned

(* Every lockout in force or on disk was earned by MaxFailures failures and *)
(* ends Window after the last (record_failure, save, load).                 *)
THEOREM LocksEarned == Spec => []LocksAreEarned
<1>1. Init => LocksAreEarned
  <2> SUFFICES ASSUME Init PROVE LocksAreEarned
    OBVIOUS
  <2>1. \A r \in Logins : login[r].clone = NoRecords
    BY DEF Init, At
  <2>2. QED
    BY <2>1, NoRecordsEarned DEF Init, LocksAreEarned, Unreadable
<1>2. TypeOK /\ LocksAreEarned /\ [Next]_vars => LocksAreEarned'
  <2> SUFFICES ASSUME TypeOK, LocksAreEarned, [Next]_vars PROVE LocksAreEarned'
    OBVIOUS
  <2>0. LoginOK
    BY DEF TypeOK, LoginOK
  <2> USE DEF disk
  <2>1. ASSUME NEW r \in Logins, NEW stage, Goto(r, stage)
        PROVE  \A q \in Logins : Earned(login'[q].clone)
    <3>1. \A q \in Logins : login'[q].clone = IF q = r THEN NoRecords ELSE login[q].clone
      BY <2>0, <2>1 DEF Goto, At, LoginOK
    <3>2. \A q \in Logins : Earned(login[q].clone)
      BY DEF LocksAreEarned
    <3>3. QED
      BY <3>1, <3>2, NoRecordsEarned
  <2>2. ASSUME NEW r \in Logins, NEW ip \in Ips, Check(r, ip) PROVE LocksAreEarned'
    <3>1. \A q \in Logins : login'[q].clone = IF q = r THEN NoRecords ELSE login[q].clone
      BY <2>0, <2>2 DEF Check, At, LoginOK
    <3>2. \A q \in Logins : Earned(login'[q].clone)
      BY <3>1, NoRecordsEarned DEF LocksAreEarned
    <3>3. QED
      BY <2>2, <3>2 DEF Check, LocksAreEarned
  <2>3. ASSUME NEW r \in Logins, RecordFailure(r) PROVE LocksAreEarned'
    <3> DEFINE m == IF Full(attempts) THEN NoRecords ELSE attempts
    <3>1. login[r].ip \in Ips /\ now \in Nat
      BY <2>0, <2>3, RequestsOK DEF RecordFailure, Requests, TypeOK
    <3>2. attempts' = Recorded(m, login[r].ip)
      BY <2>3 DEF RecordFailure
    <3>3. IsMap(m) /\ Earned(m)
      BY NoRecordsIsMap, NoRecordsEarned DEF TypeOK, LocksAreEarned
    <3> HIDE DEF m
    <3>4. Earned(attempts')
      BY <3>1, <3>2, <3>3, RecordedEarned
    <3>5. QED
      BY <2>1, <2>3, <3>4 DEF RecordFailure, LocksAreEarned
  <2>4. ASSUME NEW r \in Logins, Clear(r) PROVE LocksAreEarned'
    <3>1. Earned(attempts')
      BY <2>4, RestrictionEarned DEF Clear, LocksAreEarned
    <3>2. QED
      BY <2>1, <2>4, <3>1 DEF Clear, LocksAreEarned
  <2>5. ASSUME NEW r \in Logins, HangUp(r) PROVE LocksAreEarned'
    BY <2>1, <2>5 DEF HangUp, LocksAreEarned
  <2>6. ASSUME NEW r \in Logins, CloneMap(r) PROVE LocksAreEarned'
    <3>1. \A q \in Logins : login'[q].clone = IF q = r THEN attempts ELSE login[q].clone
      BY <2>0, <2>6 DEF CloneMap, At, LoginOK
    <3>2. \A q \in Logins : Earned(login'[q].clone)
      BY <3>1 DEF LocksAreEarned
    <3>3. QED
      BY <2>6, <3>2 DEF CloneMap, LocksAreEarned
  <2>7. ASSUME NEW r \in Logins, OpenTmp(r) PROVE LocksAreEarned'
    <3>1. \A q \in Logins : login'[q].clone = login[q].clone
      BY <2>0, <2>7 DEF OpenTmp, LoginOK
    <3>2. QED
      BY <2>7, <3>1 DEF OpenTmp, LocksAreEarned, Unreadable
  <2>8. ASSUME NEW r \in Logins, WriteTmp(r) PROVE LocksAreEarned'
    <3>1. \A old : Overwritten(old, login[r].clone) \subseteq {login[r].clone, Torn}
      BY DEF Overwritten
    <3>2. Earned(login[r].clone)
      BY DEF LocksAreEarned
    <3>3. tmp' = tmp \/ tmp' = Torn \/ tmp' = login[r].clone
      BY <2>8, <3>1 DEF WriteTmp
    <3>4. file' = file \/ file' = Torn \/ file' = login[r].clone
      BY <2>8, <3>1 DEF WriteTmp
    <3>5. tmp' \notin Unreadable => Earned(tmp')
      BY <3>2, <3>3 DEF LocksAreEarned, Unreadable
    <3>6. file' \notin Unreadable => Earned(file')
      BY <3>2, <3>4 DEF LocksAreEarned, Unreadable
    <3>7. QED
      BY <2>1, <2>8, <3>5, <3>6 DEF WriteTmp, LocksAreEarned
  <2>9. ASSUME NEW r \in Logins, WriteFails(r) PROVE LocksAreEarned'
    BY <2>1, <2>9 DEF WriteFails, LocksAreEarned
  <2>10. ASSUME NEW r \in Logins, Rename(r) PROVE LocksAreEarned'
    BY <2>1, <2>10 DEF Rename, LocksAreEarned, Unreadable
  <2>11. CASE Tick
    BY <2>11 DEF Tick, LocksAreEarned
  <2>12. CASE Cleanup
    <3>1. Earned(attempts')
      BY <2>12, RestrictionEarned DEF Cleanup, LocksAreEarned
    <3>2. QED
      BY <2>12, <3>1 DEF Cleanup, LocksAreEarned
  <2>13. CASE Restart
    <3>1. \A q \in Logins : Earned(login'[q].clone)
      BY <2>13, NoRecordsEarned DEF Restart, At
    <3>2. Earned(attempts')
      BY <2>13, NoRecordsEarned DEF Restart, Loaded, LocksAreEarned
    <3>3. QED
      BY <2>13, <3>1, <3>2 DEF Restart, LocksAreEarned
  <2>14. CASE UNCHANGED vars
    BY <2>14 DEF vars, LocksAreEarned, Earned
  <2>15. QED
    BY <2>2, <2>3, <2>4, <2>5, <2>6, <2>7, <2>8, <2>9, <2>10, <2>11, <2>12, <2>13, <2>14
    DEF Next, Attend, Save
<1>3. QED
  BY <1>1, <1>2, TypeCorrect, PTL DEF Spec

-----------------------------------------------------------------------------
(* Failures are remembered *)

(* The window of an entry that still matters is not past, and cleanup keeps *)
(* it.                                                                      *)
LEMMA RecentNotStale ==
    ASSUME TypeOK, LocksAreEarned, NEW ip \in Ips, Recent(ip)
    PROVE  /\ ip \in DOMAIN attempts /\ attempts[ip] \in Attempt
           /\ ~Stale(attempts[ip]) /\ Kept(ip)
<1>1. ip \in DOMAIN attempts /\ attempts[ip] \in Attempt /\ now \in Nat
  BY DEF Recent, TypeOK, IsMap
<1>2. attempts[ip].lockoutEnd > 0 => attempts[ip].lockoutEnd = attempts[ip].lastFailed + Window
  BY <1>1 DEF LocksAreEarned, Earned
<1>3. QED
  BY <1>1, <1>2, ThrottleAssumption DEF Recent, Locked, InForce, Attempt, Stale, Kept

(* Only a success from the address, a full map or a restart lowers a count  *)
(* of failures that still matters (record_failure, clear, cleanup).         *)
THEOREM Remembered == Spec => FailuresRemembered
<1> DEFINE Step(ip) ==
       \/ ip \in DOMAIN attempts' /\ attempts'[ip].failures >= attempts[ip].failures
       \/ \E r \in Logins : Clear(r) /\ login[r].ip = ip
       \/ Full(attempts) /\ \E r \in Logins : RecordFailure(r)
       \/ Restart
<1>1. TypeOK /\ LocksAreEarned /\ [Next]_vars
        => [\A ip \in Ips : Recent(ip) => Step(ip)]_vars
  <2> SUFFICES ASSUME TypeOK, LocksAreEarned, Next, NEW ip \in Ips, Recent(ip)
               PROVE  Step(ip)
    OBVIOUS
  <2>0. /\ ip \in DOMAIN attempts /\ attempts[ip] \in Attempt
        /\ ~Stale(attempts[ip]) /\ Kept(ip)
    BY RecentNotStale
  <2>1. CASE UNCHANGED attempts
    BY <2>0, <2>1 DEF Attempt
  <2>2. ASSUME NEW r \in Logins, RecordFailure(r) PROVE Step(ip)
    <3>1. CASE Full(attempts)
      BY <2>2, <3>1
    <3>2. CASE ~Full(attempts)
      <4>1. attempts' = Recorded(attempts, login[r].ip)
        BY <2>2, <3>2 DEF RecordFailure
      <4>2. ip \in DOMAIN attempts'
        BY <2>0, <4>1 DEF Recorded
      <4>3. ip # login[r].ip => attempts'[ip] = attempts[ip]
        BY <2>0, <4>1 DEF Recorded
      <4>4. ip = login[r].ip => attempts'[ip].failures = Count(attempts[ip])
        BY <2>0, <4>1 DEF Recorded, Entry
      <4>5. Count(attempts[ip]) >= attempts[ip].failures
        BY <2>0 DEF Count, Attempt
      <4>6. QED
        BY <2>0, <4>2, <4>3, <4>4, <4>5 DEF Attempt
    <3>3. QED
      BY <3>1, <3>2
  <2>3. ASSUME NEW r \in Logins, Clear(r) PROVE Step(ip)
    BY <2>0, <2>3 DEF Clear, Attempt
  <2>4. CASE Cleanup
    BY <2>0, <2>4 DEF Cleanup, Attempt
  <2>5. QED
    BY <2>1, <2>2, <2>3, <2>4
    DEF Next, Attend, Save, Check, HangUp, CloneMap, OpenTmp, WriteTmp, WriteFails, Rename, Tick
<1>2. QED
  BY <1>1, TypeCorrect, LocksEarned, PTL DEF Spec, FailuresRemembered

-----------------------------------------------------------------------------
(* Guesses during a lockout *)

(* A set of requests that misses one of them is smaller than Logins.        *)
LEMMA MissingOne ==
    ASSUME NEW S \in SUBSET Logins, NEW r \in Logins, r \notin S
    PROVE  Cardinality(S) \in Nat /\ Cardinality(S) < Cardinality(Logins)
<1>1. S \subseteq Logins \ {r} /\ IsFiniteSet(Logins)
  BY ThrottleAssumption
<1>2. IsFiniteSet(Logins \ {r}) /\ Cardinality(Logins \ {r}) = Cardinality(Logins) - 1
  BY <1>1, FS_RemoveElement
<1>3. Cardinality(S) \in Nat /\ Cardinality(S) <= Cardinality(Logins \ {r})
  BY <1>1, <1>2, FS_Subset, FS_CardinalityType
<1>4. Cardinality(Logins) \in Nat
  BY <1>1, FS_CardinalityType
<1>5. QED
  BY <1>2, <1>3, <1>4

(* A step of a lockout that lasts: no more guesses, no more requests let    *)
(* through.                                                                 *)
LEMMA Shrinks ==
    ASSUME TypeOK, GuessesBounded, NEW ip \in Ips, Locked(ip),
           guesses'[ip] = guesses[ip], Through(ip)' \subseteq Through(ip)
    PROVE  guesses'[ip] + Cardinality(Through(ip)') < Cardinality(Logins)
<1>1. IsFiniteSet(Logins) /\ Through(ip) \subseteq Logins
  BY ThrottleAssumption DEF Through
<1>2. IsFiniteSet(Through(ip))
  BY <1>1, FS_Subset
<1>3. /\ Cardinality(Through(ip)) \in Nat /\ Cardinality(Through(ip)') \in Nat
      /\ Cardinality(Through(ip)') <= Cardinality(Through(ip))
      /\ Cardinality(Logins) \in Nat
  BY <1>1, <1>2, FS_Subset, FS_CardinalityType
<1>4. guesses[ip] \in Nat
  BY DEF TypeOK
<1>5. guesses[ip] + Cardinality(Through(ip)) < Cardinality(Logins)
  BY DEF GuessesBounded
<1>6. QED
  BY <1>3, <1>4, <1>5

(* The first step of a lockout: nothing counted yet, and the request that   *)
(* locked the address is through no more.                                   *)
LEMMA Begins ==
    ASSUME NEW ip \in Ips, NEW r \in Logins, guesses'[ip] = 0, r \notin Through(ip)'
    PROVE  guesses'[ip] + Cardinality(Through(ip)') < Cardinality(Logins)
<1>1. Through(ip)' \in SUBSET Logins
  BY DEF Through
<1>2. /\ Cardinality(Through(ip)') \in Nat
      /\ Cardinality(Through(ip)') < Cardinality(Logins)
  BY <1>1, MissingOne
<1>3. QED
  BY <1>2

LEMMA WatchedGuesses ==
    ASSUME TypeOK, NEW failed, Watch(failed), NEW ip \in Ips
    PROVE  /\ Locked(ip) /\ Locked(ip)' /\ ip \notin failed => guesses'[ip] = guesses[ip]
           /\ Locked(ip) /\ Locked(ip)' /\ ip \in failed => guesses'[ip] = guesses[ip] + 1
           /\ ~Locked(ip) => guesses'[ip] = 0
  BY DEF Watch, Locked, TypeOK

(* Leaving the stage "checked" takes one request out of one Through.        *)
LEMMA GotoThrough ==
    ASSUME TypeOK, NEW r \in Logins, NEW stage, stage # "checked", Goto(r, stage), NEW ip \in Ips
    PROVE  Through(ip)' = Through(ip) \ {r}
<1>1. \A q \in Logins : login'[q] = IF q = r THEN At(stage) ELSE login[q]
  BY DEF Goto, TypeOK
<1>2. At(stage).stage # "checked"
  BY DEF At
<1>3. QED
  BY <1>1, <1>2 DEF Through

(* Once an address is locked fewer guesses follow than there are requests   *)
(* (check, record_failure in auth.rs around the account's await).           *)
THEOREM GuessesInvariant == Spec => []GuessesBounded
<1>1. Init => GuessesBounded
  BY DEF Init, GuessesBounded, Locked, InForce, NoRecords
<1>2. TypeOK /\ GuessesBounded /\ [Next]_vars => GuessesBounded'
  <2> SUFFICES ASSUME TypeOK, GuessesBounded, [Next]_vars, NEW ip \in Ips, Locked(ip)'
               PROVE  guesses'[ip] + Cardinality(Through(ip)') < Cardinality(Logins)
    BY DEF GuessesBounded
  <2> DEFINE Bound == guesses'[ip] + Cardinality(Through(ip)') < Cardinality(Logins)
  <2> USE DEF disk
  <2>1. ASSUME UNCHANGED <<attempts, now, guesses>>, Through(ip)' \subseteq Through(ip)
        PROVE  Bound
    <3>1. Locked(ip) /\ guesses'[ip] = guesses[ip]
      BY <2>1 DEF Locked, InForce
    <3>2. QED
      BY <2>1, <3>1, Shrinks
  <2>2. ASSUME NEW r \in Logins, NEW i \in Ips, Check(r, i) PROVE Bound
    <3>1. i # ip
      BY <2>2 DEF Check, Locked, InForce
    <3>2. \A q \in Logins : login'[q] = IF q = r THEN [At("checked") EXCEPT !.ip = i]
                                         ELSE login[q]
      BY <2>2 DEF Check, TypeOK
    <3>3. [At("checked") EXCEPT !.ip = i].ip = i
      BY DEF At
    <3>4. Through(ip)' \subseteq Through(ip)
      BY <3>1, <3>2, <3>3 DEF Through
    <3>5. QED
      BY <2>1, <2>2, <3>4 DEF Check
  <2>3. ASSUME NEW r \in Logins, RecordFailure(r) PROVE Bound
    <3>1. Through(ip)' = Through(ip) \ {r}
      BY <2>3, GotoThrough DEF RecordFailure
    <3>2. Watch({login[r].ip})
      BY <2>3 DEF RecordFailure
    <3>3. CASE ~Locked(ip)
      <4>1. guesses'[ip] = 0
        BY <3>2, <3>3, WatchedGuesses
      <4>2. QED
        BY <3>1, <4>1, Begins
    <3>4. CASE Locked(ip) /\ login[r].ip # ip
      <4>1. guesses'[ip] = guesses[ip]
        BY <3>2, <3>4, WatchedGuesses
      <4>2. QED
        BY <3>1, <3>4, <4>1, Shrinks
    <3>5. CASE Locked(ip) /\ login[r].ip = ip
      <4>1. guesses'[ip] = guesses[ip] + 1
        BY <3>2, <3>5, WatchedGuesses
      <4>2. r \in Through(ip)
        BY <2>3, <3>5 DEF Through, RecordFailure
      <4>3. IsFiniteSet(Through(ip))
        BY ThrottleAssumption, FS_Subset DEF Through
      <4>4. Cardinality(Through(ip)') = Cardinality(Through(ip)) - 1
        BY <3>1, <4>2, <4>3, FS_RemoveElement
      <4>5. guesses[ip] \in Nat /\ Cardinality(Through(ip)) \in Nat
        BY <4>3, FS_CardinalityType DEF TypeOK
      <4>6. Cardinality(Logins) \in Nat
        BY ThrottleAssumption, FS_CardinalityType
      <4>7. guesses[ip] + Cardinality(Through(ip)) < Cardinality(Logins)
        BY <3>5 DEF GuessesBounded
      <4>8. QED
        BY <4>1, <4>4, <4>5, <4>6, <4>7
    <3>6. QED
      BY <3>3, <3>4, <3>5
  <2>4. ASSUME NEW r \in Logins, Clear(r) PROVE Bound
    <3>1. Through(ip)' = Through(ip) \ {r}
      BY <2>4, GotoThrough DEF Clear
    <3>2. Locked(ip)
      BY <2>4 DEF Clear, Locked, InForce
    <3>3. guesses'[ip] = guesses[ip]
      BY <2>4, <3>2, WatchedGuesses DEF Clear
    <3>4. QED
      BY <3>1, <3>2, <3>3, Shrinks
  <2>5. ASSUME NEW r \in Logins, HangUp(r) PROVE Bound
    <3>1. Through(ip)' = Through(ip) \ {r}
      BY <2>5, GotoThrough DEF HangUp
    <3>2. QED
      BY <2>1, <2>5, <3>1 DEF HangUp
  <2>6. ASSUME NEW r \in Logins, Save(r) PROVE Through(ip)' \subseteq Through(ip)
    <3>1. CASE CloneMap(r)
      <4>1. \A q \in Logins : q # r => login'[q] = login[q]
        BY <3>1 DEF CloneMap, TypeOK
      <4>2. login'[r].stage = "cloned"
        BY <3>1 DEF CloneMap, At, TypeOK
      <4>3. QED
        BY <4>1, <4>2 DEF Through
    <3>2. CASE OpenTmp(r)
      <4>1. \A q \in Logins : q # r => login'[q] = login[q]
        BY <3>2 DEF OpenTmp, TypeOK
      <4>2. login'[r].stage = "opened"
        BY <3>2 DEF OpenTmp, TypeOK
      <4>3. QED
        BY <4>1, <4>2 DEF Through
    <3>3. CASE WriteTmp(r)
      BY <3>3, GotoThrough DEF WriteTmp
    <3>4. CASE WriteFails(r)
      BY <3>4, GotoThrough DEF WriteFails
    <3>5. CASE Rename(r)
      BY <3>5, GotoThrough DEF Rename
    <3>6. QED
      BY <2>6, <3>1, <3>2, <3>3, <3>4, <3>5 DEF Save
  <2>7. ASSUME Tick \/ Cleanup PROVE Bound
    <3>1. Locked(ip)
      <4>1. CASE Tick
        BY <4>1 DEF Tick, Locked, InForce, TypeOK, IsMap, Attempt
      <4>2. CASE Cleanup
        BY <4>2 DEF Cleanup, Locked, InForce
      <4>3. QED
        BY <2>7, <4>1, <4>2
    <3>2. guesses'[ip] = guesses[ip]
      BY <2>7, <3>1, WatchedGuesses DEF Tick, Cleanup
    <3>3. Through(ip)' = Through(ip)
      BY <2>7 DEF Tick, Cleanup, Through
    <3>4. QED
      BY <3>1, <3>2, <3>3, Shrinks
  <2>8. CASE Restart
    <3>1. Through(ip)' = {}
      BY <2>8 DEF Restart, Through, At
    <3>2. PICK r \in Logins : TRUE
      BY ThrottleAssumption
    <3>3. CASE Locked(ip)
      <4>1. guesses'[ip] = guesses[ip]
        BY <2>8, <3>3, WatchedGuesses DEF Restart
      <4>2. QED
        BY <3>1, <3>3, <4>1, Shrinks
    <3>4. CASE ~Locked(ip)
      <4>1. guesses'[ip] = 0
        BY <2>8, <3>4, WatchedGuesses DEF Restart
      <4>2. QED
        BY <3>1, <3>2, <4>1, Begins
    <3>5. QED
      BY <3>3, <3>4
  <2>9. CASE UNCHANGED vars
    BY <2>1, <2>9 DEF vars, Through
  <2>10. QED
    <3>1. ASSUME NEW r \in Logins, Save(r) PROVE Bound
      BY <2>1, <2>6, <3>1 DEF Save, CloneMap, OpenTmp, WriteTmp, WriteFails, Rename
    <3>2. QED
      BY <2>2, <2>3, <2>4, <2>5, <2>7, <2>8, <2>9, <3>1 DEF Next, Attend
<1>3. QED
  BY <1>1, <1>2, TypeCorrect, PTL DEF Spec

-----------------------------------------------------------------------------
(* The lockouts on disk *)

(* Map m locks the same addresses as the one in memory, now and later.      *)
Agrees(m) ==
    \A ip \in Ips, t \in Nat : t >= now => (InForce(attempts, t, ip) <=> InForce(m, t, ip))

(* While saves come one at a time the temporary file belongs to the one     *)
(* that is under way ...                                                    *)
OneSave ==
    /\ \A q, r \in Logins : Saving(q) /\ Saving(r) => q = r
    /\ \A r \in Logins : /\ login[r].stage = "opened" => fd[r] = "tmp" /\ tmp = Empty
                         /\ login[r].stage = "written" => tmp \notin Unreadable

(* ... and unless a change waits to be saved, what is on its way, or else   *)
(* the file, agrees with the map.                                           *)
NoneWaits == \A r \in Logins : login[r].stage # "changed"

OnItsWay ==
    /\ \A r \in Logins : /\ login[r].stage \in {"cloned", "opened"} => Agrees(login[r].clone)
                         /\ login[r].stage = "written" => Agrees(tmp)
    /\ (\A r \in Logins : ~Saving(r)) => Agrees(Loaded)

SaveInv == saved = "well" => OneSave /\ (NoneWaits => OnItsWay)

LEMMA GotoStage ==
    ASSUME LoginOK, NEW r \in Logins, NEW stage, Goto(r, stage)
    PROVE  /\ login'[r].stage = stage
           /\ \A q \in Logins \ {r} : login'[q] = login[q]
  BY DEF Goto, At, LoginOK

(* A step that moves requests only outside of save, and changes nothing     *)
(* that a save touches.                                                     *)
LEMMA QuietSave ==
    ASSUME SaveInv, UNCHANGED <<attempts, now, fd, tmp, file>>, saved' = "well" => saved = "well",
           \A q \in Logins : \/ login'[q] = login[q]
                             \/ /\ login[q].stage \in {"idle", "checked"}
                                /\ login'[q].stage \in {"idle", "checked"}
    PROVE  SaveInv'
<1>1. OneSave => OneSave'
  BY DEF OneSave, Saving
<1>2. NoneWaits' => NoneWaits
  BY DEF NoneWaits
<1>3. OnItsWay => OnItsWay'
  BY DEF OnItsWay, Saving, Agrees, Loaded
<1>4. QED
  BY <1>1, <1>2, <1>3 DEF SaveInv

(* A change waits: nothing is said of what is on its way.                   *)
LEMMA ChangeWaits ==
    ASSUME SaveInv, UNCHANGED <<fd, tmp, saved>>, NEW r \in Logins,
           login[r].stage = "checked", login'[r].stage = "changed",
           \A q \in Logins \ {r} : login'[q] = login[q]
    PROVE  SaveInv'
BY DEF SaveInv, OneSave, Saving, NoneWaits

(* Time passes, and lockouts that are over are forgotten.                   *)
LEMMA LaterAgrees ==
    ASSUME SaveInv, UNCHANGED <<login, fd, tmp, file, saved>>, now \in Nat, now' \in Nat, now' >= now,
           \A ip \in Ips, t \in Nat :
               t >= now' => (InForce(attempts', t, ip) <=> InForce(attempts, t, ip))
    PROVE  SaveInv'
<1>1. \A m : Agrees(m) => Agrees(m)'
  BY DEF Agrees, InForce
<1>2. OneSave => OneSave'
  BY DEF OneSave, Saving
<1>3. OnItsWay => OnItsWay'
  <2>1. Loaded' = Loaded /\ \A r \in Logins : Saving(r)' <=> Saving(r)
    BY DEF Loaded, Saving
  <2>2. \A r \in Logins : Agrees(login[r].clone) => Agrees(login[r].clone)'
    BY <1>1
  <2>3. (Agrees(tmp) => Agrees(tmp)') /\ (Agrees(Loaded) => Agrees(Loaded)')
    BY <1>1, <2>1 DEF Agrees
  <2>4. QED
    BY <2>1, <2>2, <2>3 DEF OnItsWay
<1>4. QED
  BY <1>2, <1>3 DEF SaveInv, NoneWaits

(* As long as saves do not cross or fail, the file locks out the addresses  *)
(* that the map does whenever no save is under way (save, load, cleanup).   *)
THEOREM OnDiskInvariant == Spec => []OnDiskUnlessCrossed
<1>1. Init => SaveInv
  BY DEF Init, SaveInv, OneSave, OnItsWay, Saving, At, Agrees, Loaded, Unreadable
<1>2. TypeOK /\ SaveInv /\ [Next]_vars => SaveInv'
  <2> SUFFICES ASSUME TypeOK, SaveInv, [Next]_vars PROVE SaveInv'
    OBVIOUS
  <2>0. LoginOK /\ now \in Nat /\ IsMap(attempts)
    BY DEF TypeOK, LoginOK
  <2>m. \A m : IsMap(m) => m \notin Unreadable
    BY ThrottleAssumption DEF IsMap
  <2> USE DEF disk
  <2>1. ASSUME NEW r \in Logins, NEW ip \in Ips, Check(r, ip) PROVE SaveInv'
    <3>1. \A q \in Logins : \/ login'[q] = login[q]
                            \/ login[q].stage = "idle" /\ login'[q].stage = "checked"
      BY <2>0, <2>1 DEF Check, At, LoginOK
    <3>2. QED
      BY <2>1, <3>1, QuietSave DEF Check
  <2>2. ASSUME NEW r \in Logins, RecordFailure(r) \/ Clear(r) PROVE SaveInv'
    <3>1. login[r].stage = "checked" /\ Goto(r, "changed") /\ UNCHANGED <<fd, tmp, saved>>
      BY <2>2 DEF RecordFailure, Clear
    <3>2. QED
      BY <2>0, <3>1, GotoStage, ChangeWaits
  <2>3. ASSUME NEW r \in Logins, HangUp(r) PROVE SaveInv'
    <3>1. CASE login[r].stage = "written"
      BY <2>3, <3>1 DEF HangUp, SaveInv
    <3>2. CASE login[r].stage = "checked"
      BY <2>0, <2>3, <3>2, GotoStage, QuietSave DEF HangUp
    <3>3. QED
      BY <2>3, <3>1, <3>2 DEF HangUp
  <2>4. ASSUME NEW r \in Logins, CloneMap(r) PROVE SaveInv'
    <3> SUFFICES ASSUME saved' = "well" PROVE OneSave' /\ (NoneWaits' => OnItsWay')
      BY DEF SaveInv
    <3>1. \A q \in Logins \ {r} : ~Saving(q) /\ login'[q] = login[q]
      BY <2>0, <2>4 DEF CloneMap, LoginOK
    <3>2. login'[r].stage = "cloned" /\ login'[r].clone = attempts
      BY <2>0, <2>4 DEF CloneMap, At, LoginOK
    <3>3. OneSave'
      BY <3>1, <3>2 DEF OneSave, Saving
    <3>4. Agrees(attempts)'
      BY <2>4 DEF CloneMap, Agrees
    <3>5. attempts' = attempts
      BY <2>4 DEF CloneMap
    <3>6. OnItsWay'
      BY <3>1, <3>2, <3>4, <3>5 DEF OnItsWay, Saving, Agrees
    <3>7. QED
      BY <3>3, <3>6
  <2>5. ASSUME NEW r \in Logins, OpenTmp(r) PROVE SaveInv'
    <3> SUFFICES ASSUME saved' = "well" PROVE OneSave' /\ (NoneWaits' => OnItsWay')
      BY DEF SaveInv
    <3>1. OneSave /\ (NoneWaits => OnItsWay)
      BY <2>5 DEF OpenTmp, SaveInv
    <3>2. \A q \in Logins \ {r} : ~Saving(q) /\ login'[q] = login[q]
      BY <2>0, <2>5, <3>1 DEF OpenTmp, LoginOK, OneSave, Saving
    <3>3. /\ login[r].stage = "cloned" /\ login'[r].stage = "opened"
          /\ login'[r].clone = login[r].clone
      BY <2>0, <2>5 DEF OpenTmp, LoginOK
    <3>4. fd'[r] = "tmp" /\ tmp' = Empty /\ UNCHANGED <<attempts, now>>
      BY <2>5 DEF OpenTmp, TypeOK
    <3>5. OneSave'
      BY <3>2, <3>3, <3>4 DEF OneSave, Saving
    <3>6. NoneWaits' => Agrees(login[r].clone)
      BY <3>1, <3>2, <3>3 DEF NoneWaits, OnItsWay
    <3>7. QED
      BY <3>2, <3>3, <3>4, <3>5, <3>6 DEF OnItsWay, Saving, Agrees
  <2>6. ASSUME NEW r \in Logins, WriteTmp(r) PROVE SaveInv'
    <3> SUFFICES ASSUME saved' = "well" PROVE OneSave' /\ (NoneWaits' => OnItsWay')
      BY DEF SaveInv
    <3>1. OneSave /\ (NoneWaits => OnItsWay) /\ login[r].stage = "opened" /\ Goto(r, "written")
      BY <2>6 DEF WriteTmp, SaveInv
    <3>2. \A q \in Logins \ {r} : ~Saving(q) /\ login'[q] = login[q]
      BY <2>0, <3>1, GotoStage DEF OneSave, Saving
    <3>3. login'[r].stage = "written"
      BY <2>0, <3>1, GotoStage
    <3>4. tmp' = login[r].clone /\ UNCHANGED <<attempts, now>>
      BY <2>6, <3>1 DEF WriteTmp, OneSave, Overwritten
    <3>5. tmp' \notin Unreadable
      BY <2>0, <2>m, <3>4, RequestsOK DEF Requests
    <3>6. OneSave'
      BY <3>2, <3>3, <3>5 DEF OneSave, Saving
    <3>7. NoneWaits' => Agrees(login[r].clone)
      BY <3>1, <3>2 DEF NoneWaits, OnItsWay
    <3>8. QED
      BY <3>2, <3>3, <3>4, <3>6, <3>7 DEF OnItsWay, Saving, Agrees
  <2>7. ASSUME NEW r \in Logins, WriteFails(r) PROVE SaveInv'
    BY <2>7 DEF WriteFails, SaveInv
  <2>8. ASSUME NEW r \in Logins, Rename(r) PROVE SaveInv'
    <3> SUFFICES ASSUME saved' = "well" PROVE OneSave' /\ (NoneWaits' => OnItsWay')
      BY DEF SaveInv
    <3>1. tmp # Absent /\ saved = "well" /\ file' = tmp
      BY <2>8 DEF Rename
    <3>2. OneSave /\ (NoneWaits => OnItsWay) /\ login[r].stage = "written" /\ Goto(r, "idle")
      BY <2>8, <3>1 DEF Rename, SaveInv
    <3>3. \A q \in Logins \ {r} : ~Saving(q) /\ login'[q] = login[q]
      BY <2>0, <3>2, GotoStage DEF OneSave, Saving
    <3>4. login'[r].stage = "idle"
      BY <2>0, <3>2, GotoStage
    <3>5. \A q \in Logins : ~Saving(q)' /\ login'[q].stage \notin {"cloned", "opened", "written"}
      BY <3>3, <3>4 DEF Saving
    <3>6. OneSave'
      BY <3>5 DEF OneSave
    <3>7. Loaded' = tmp
      BY <3>1, <3>2 DEF OneSave, Loaded
    <3>8. NoneWaits' => Agrees(tmp)
      BY <3>2, <3>3 DEF NoneWaits, OnItsWay
    <3>9. UNCHANGED <<attempts, now>>
      BY <2>8 DEF Rename
    <3>10. QED
      BY <3>5, <3>6, <3>7, <3>8, <3>9 DEF OnItsWay, Agrees
  <2>9. CASE Tick
    BY <2>0, <2>9, LaterAgrees DEF Tick, InForce
  <2>10. CASE Cleanup
    <3>1. /\ DOMAIN attempts' \subseteq DOMAIN attempts
          /\ \A ip \in DOMAIN attempts' : attempts'[ip] = attempts[ip]
          /\ \A ip \in DOMAIN attempts \ DOMAIN attempts' : ~Kept(ip)
      BY <2>10 DEF Cleanup
    <3>2. \A ip \in DOMAIN attempts : attempts[ip] \in Attempt
      BY <2>0 DEF IsMap
    <3>3. \A ip \in Ips, t \in Nat :
             t >= now => (InForce(attempts', t, ip) <=> InForce(attempts, t, ip))
      <4> SUFFICES ASSUME NEW ip \in Ips, NEW t \in Nat, t >= now
                   PROVE  InForce(attempts', t, ip) <=> InForce(attempts, t, ip)
        OBVIOUS
      <4>1. CASE ip \in DOMAIN attempts'
        BY <3>1, <4>1 DEF InForce
      <4>2. CASE ip \notin DOMAIN attempts
        BY <3>1, <4>2 DEF InForce
      <4>3. CASE ip \in DOMAIN attempts \ DOMAIN attempts'
        <5>1. attempts[ip].lockoutEnd \in Nat
          BY <3>2, <4>3 DEF Attempt
        <5>2. ~(t < attempts[ip].lockoutEnd)
          BY <2>0, <3>1, <4>3, <5>1 DEF Kept
        <5>3. QED
          BY <3>1, <4>3, <5>2 DEF InForce
      <4>4. QED
        BY <4>1, <4>2, <4>3
    <3>4. QED
      BY <2>0, <2>10, <3>3, LaterAgrees DEF Cleanup
  <2>11. CASE Restart
    <3>1. \A q \in Logins : login'[q].stage = "idle"
      BY <2>11 DEF Restart, At
    <3>2. attempts' = Loaded /\ Loaded' = Loaded
      BY <2>11 DEF Restart, Loaded
    <3>3. Agrees(Loaded)'
      BY <3>2 DEF Agrees
    <3>4. QED
      BY <3>1, <3>3 DEF SaveInv, OneSave, OnItsWay, Saving
  <2>12. CASE UNCHANGED vars
    BY <2>12, QuietSave DEF vars
  <2>13. QED
    BY <2>1, <2>2, <2>3, <2>4, <2>5, <2>6, <2>7, <2>8, <2>9, <2>10, <2>11, <2>12
    DEF Next, Attend, Save
<1>3. TypeOK /\ SaveInv => OnDiskUnlessCrossed
  <2> SUFFICES ASSUME TypeOK, SaveInv, saved = "well", Quiet, NEW ip \in Ips
               PROVE  Locked(ip) <=> InForce(Loaded, now, ip)
    BY DEF OnDiskUnlessCrossed, LockoutIsOnDisk, TypeOK
  <2>1. Agrees(Loaded)
    BY DEF SaveInv, NoneWaits, Quiet, OnItsWay, Saving
  <2>2. QED
    BY <2>1 DEF Agrees, Locked, TypeOK
<1>4. QED
  BY <1>1, <1>2, <1>3, TypeCorrect, PTL DEF Spec
=============================================================================
