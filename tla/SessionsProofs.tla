--------------------------- MODULE SessionsProofs ---------------------------
(***************************************************************************)
(* Proofs about Sessions: types, and that a key replaced by an answered    *)
(* logout does not come back unless requests cross, a save is cut short or *)
(* a TLS request saves the configuration of the start over a newer key;    *)
(* and that the other settings survive even then.                          *)
(***************************************************************************)
EXTENDS Sessions, TLAPS

LEMMA DefaultType == \A k \in Keys : Default(k) \in Configuration
  BY DEF Default, Configuration

LEMMA DoneType == ASSUME TypeOK, NEW r \in Requests, Done(r)
                  PROVE  /\ stage' \in [Requests -> Stages] /\ copy' \in [Requests -> Configuration]
                         /\ newKey' \in [Requests -> Keys] /\ oldKey' \in [Requests -> Keys]
  BY SessionsAssumption, DefaultType DEF TypeOK, Done, Stages, Keys

(* The variables of the specification keep their types. *)
THEOREM TypeCorrect == Spec => []TypeOK
<1>1. Init => TypeOK
  <2>1. 0 \in Keys /\ Default(0) \in Configuration
    BY SessionsAssumption, DefaultType DEF Keys
  <2>2. QED
    BY <2>1 DEF Init, TypeOK, Stages, Unreadable
<1>2. TypeOK /\ [Next]_vars => TypeOK'
  <2> SUFFICES ASSUME TypeOK, [Next]_vars PROVE TypeOK'
    OBVIOUS
  <2> USE SessionsAssumption DEF memory, request, history, Stages, Spoil
  <2>1. CASE Start
    <3>1. CASE config \in Configuration /\ boot' = config /\ secret' = config.key
      BY <2>1, <3>1 DEF Start, TypeOK, Configuration, Unreadable
    <3>2. CASE issued < MaxKeys /\ issued' = issued + 1 /\ secret' = issued'
               /\ boot' = Default(issued')
      <4>1. issued' \in Keys
        BY <3>2 DEF TypeOK, Keys
      <4>2. QED
        BY <2>1, <3>2, <4>1, DefaultType DEF Start, TypeOK, Unreadable
    <3>3. QED
      BY <2>1, <3>1, <3>2 DEF Start
  <2>2. CASE FinishStart
    BY <2>2 DEF FinishStart, TypeOK
  <2>3. CASE Stop
    BY <2>3, DefaultType DEF Stop, TypeOK, Keys
  <2>4. ASSUME NEW r \in Requests, Rotate(r) PROVE TypeOK'
    <3>1. issued' \in Keys
      BY <2>4 DEF Rotate, TypeOK, Keys
    <3>2. QED
      BY <2>4, <3>1 DEF Rotate, TypeOK
  <2>5. ASSUME NEW r \in Requests, LoadConfig(r) PROVE TypeOK'
    <3>1. \A c \in Configuration : [c EXCEPT !.key = newKey[r]] \in Configuration
      BY DEF TypeOK, Configuration
    <3>2. Default(newKey[r]) \in Configuration
      BY DefaultType DEF TypeOK
    <3>3. copy' \in [Requests -> Configuration]
      BY <2>5, <3>1, <3>2 DEF LoadConfig, TypeOK
    <3>4. stage' \in [Requests -> Stages]
      BY <2>5 DEF LoadConfig, TypeOK
    <3>5. QED
      BY <2>5, <3>3, <3>4 DEF LoadConfig, TypeOK
  <2>6. ASSUME NEW r \in Requests, OpenMigrated(r) PROVE TypeOK'
    BY <2>6 DEF OpenMigrated, Goto, TypeOK, Unreadable
  <2>7. ASSUME NEW r \in Requests, [copy EXCEPT ![r].key = newKey[r]] = copy'
        PROVE  copy' \in [Requests -> Configuration]
    BY <2>7 DEF TypeOK, Configuration
  <2>8. ASSUME NEW r \in Requests, WriteMigrated(r) PROVE TypeOK'
    <3>1. config' \in Configuration \cup Unreadable
      BY <2>8 DEF WriteMigrated, TypeOK, Overwritten, Unreadable
    <3>2. CASE Done(r)
      BY <2>8, <3>1, <3>2, DoneType DEF WriteMigrated, TypeOK
    <3>3. CASE ~Done(r)
      BY <2>7, <2>8, <3>1, <3>3 DEF WriteMigrated, TypeOK
    <3>4. QED
      BY <3>2, <3>3
  <2>9. ASSUME NEW r \in Requests, MigrationFails(r) PROVE TypeOK'
    BY <2>7, <2>9 DEF MigrationFails, TypeOK
  <2>10. ASSUME NEW r \in Requests, NEW on \in BOOLEAN, SetTls(r, on) PROVE TypeOK'
    <3>1. [boot EXCEPT !.tls = on] \in Configuration
      BY DEF TypeOK, Configuration
    <3>2. QED
      BY <2>10, <3>1 DEF SetTls, TypeOK
  <2>11. ASSUME NEW r \in Requests, OpenConfig(r) PROVE TypeOK'
    BY <2>11 DEF OpenConfig, Goto, TypeOK, Unreadable
  <2>12. ASSUME NEW r \in Requests, WriteConfig(r) PROVE TypeOK'
    <3>1. config' \in Configuration \cup Unreadable
      BY <2>12 DEF WriteConfig, TypeOK, Overwritten, Unreadable
    <3>2. wanted' \in BOOLEAN /\ retired' \subseteq Keys
      BY <2>12 DEF WriteConfig, TypeOK, Configuration
    <3>3. QED
      BY <2>12, <3>1, <3>2, DoneType DEF WriteConfig, TypeOK
  <2>13. ASSUME NEW r \in Requests, SaveFails(r) PROVE TypeOK'
    BY <2>13, DoneType DEF SaveFails, TypeOK
  <2>14. ASSUME NEW r \in Requests, HangUp(r) PROVE TypeOK'
    BY <2>14, DoneType DEF HangUp, TypeOK
  <2>15. CASE UNCHANGED vars
    BY <2>15 DEF vars, TypeOK
  <2>16. QED
    BY <2>1, <2>2, <2>3, <2>4, <2>5, <2>6, <2>8, <2>9, <2>10, <2>11, <2>12, <2>13, <2>14, <2>15
    DEF Next, Serve
<1>3. QED
  BY <1>1, <1>2, PTL DEF Spec

-----------------------------------------------------------------------------
(* Revoked keys *)

(* Every key anywhere has been issued, so the next one is new; a server     *)
(* that is not up serves nobody.                                            *)
Issued ==
    /\ secret <= issued /\ boot.key <= issued
    /\ config \in Configuration => config.key <= issued
    /\ \A r \in Requests : copy[r].key <= issued /\ newKey[r] <= issued /\ oldKey[r] <= issued
    /\ \A k \in retired : k <= issued
    /\ server # "up" => \A r \in Requests : stage[r] = "idle"

LEMMA DoneIssued ==
    ASSUME TypeOK, Issued, NEW r \in Requests, Done(r), issued' = issued
    PROVE  \A q \in Requests : /\ copy'[q].key <= issued /\ newKey'[q] <= issued
                               /\ oldKey'[q] <= issued
                               /\ stage'[q] = IF q = r THEN "idle" ELSE stage[q]
<1>1. 0 <= issued
  BY SessionsAssumption DEF TypeOK, Keys
<1>2. \A q \in Requests : /\ copy'[q] = IF q = r THEN Default(0) ELSE copy[q]
                          /\ newKey'[q] = IF q = r THEN 0 ELSE newKey[q]
                          /\ oldKey'[q] = IF q = r THEN 0 ELSE oldKey[q]
                          /\ stage'[q] = IF q = r THEN "idle" ELSE stage[q]
  BY DEF Done, TypeOK
<1>3. QED
  BY <1>1, <1>2 DEF Issued, Default

LEMMA NotConfiguration == \A u \in Unreadable : u \notin Configuration
  BY SessionsAssumption

THEOREM IssuedInvariant == Spec => []Issued
<1>1. Init => Issued
  BY NotConfiguration DEF Init, Issued, Default, Unreadable
<1>2. TypeOK /\ TypeOK' /\ Issued /\ [Next]_vars => Issued'
  <2> SUFFICES ASSUME TypeOK, TypeOK', Issued, [Next]_vars PROVE Issued'
    OBVIOUS
  <2> USE SessionsAssumption DEF memory, request, history, Default, Configuration
  <2>0. /\ MaxKeys \in Nat /\ issued \in Nat /\ issued' \in Nat
        /\ \A k \in retired : k \in Nat
    BY DEF TypeOK, Keys
  <2>1. CASE Start
    <3>1. issued' = issued \/ issued' = issued + 1
      BY <2>1 DEF Start
    <3>2. secret' <= issued' /\ boot'.key <= issued'
      BY <2>0, <2>1 DEF Start, Issued
    <3>3. config' = config \/ config' = Empty
      BY <2>1 DEF Start
    <3>4. \A k \in Nat : k <= issued => k <= issued'
      BY <2>0, <3>1
    <3>5. config' \in Configuration => config'.key <= issued'
      <4>1. Empty \notin Configuration
        BY NotConfiguration DEF Unreadable
      <4>2. config \in Configuration => config.key \in Nat /\ config.key <= issued
        BY DEF Issued, Keys
      <4>3. QED
        BY <3>3, <3>4, <4>1, <4>2
    <3>6. \A r \in Requests : copy[r].key \in Nat /\ newKey[r] \in Nat /\ oldKey[r] \in Nat
      BY DEF TypeOK, Keys
    <3>7. UNCHANGED <<request, retired>> /\ server = "down"
      BY <2>1 DEF Start
    <3>8. QED
      BY <2>0, <3>2, <3>4, <3>5, <3>6, <3>7 DEF Issued
  <2>2. CASE FinishStart
    BY <2>2 DEF FinishStart, Issued
  <2>3. CASE Stop
    BY <2>0, <2>3 DEF Stop, Issued
  <2>4. ASSUME NEW r \in Requests, Rotate(r) PROVE Issued'
    <3>1. /\ issued' = issued + 1 /\ secret' = issued'
          /\ UNCHANGED <<boot, config, copy, retired, server>> /\ server = "up"
      BY <2>4 DEF Rotate
    <3>2. \A q \in Requests : /\ newKey'[q] = IF q = r THEN issued' ELSE newKey[q]
                              /\ oldKey'[q] = IF q = r THEN secret ELSE oldKey[q]
      BY <2>4 DEF Rotate, TypeOK
    <3>3. \A k \in Nat : k <= issued => k <= issued'
      BY <2>0, <3>1
    <3>4. /\ secret \in Nat /\ boot.key \in Nat /\ (config \in Configuration => config.key \in Nat)
          /\ \A q \in Requests : copy[q].key \in Nat /\ newKey[q] \in Nat /\ oldKey[q] \in Nat
      BY DEF TypeOK, Keys
    <3>5. QED
      BY <2>0, <3>1, <3>2, <3>3, <3>4 DEF Issued
  <2>5. ASSUME NEW r \in Requests,
               \/ LoadConfig(r) \/ MigrationFails(r)
               \/ \E on \in BOOLEAN : SetTls(r, on)
        PROVE  Issued'
    <3>1. /\ UNCHANGED <<server, secret, boot, config, newKey, oldKey, issued, retired>>
          /\ server = "up"
      BY <2>5 DEF LoadConfig, MigrationFails, SetTls, Issued
    <3>2. \A q \in Requests : q # r => copy'[q] = copy[q]
      BY <2>5 DEF LoadConfig, MigrationFails, SetTls, TypeOK
    <3>3. copy'[r].key <= issued
      BY <2>5 DEF LoadConfig, MigrationFails, SetTls, TypeOK, Issued
    <3>4. QED
      BY <3>1, <3>2, <3>3 DEF Issued
  <2>6. ASSUME NEW r \in Requests, OpenMigrated(r) \/ OpenConfig(r) PROVE Issued'
    <3>1. server = "up" /\ server' = "up"
      BY <2>6 DEF OpenMigrated, OpenConfig, Issued
    <3>2. config' \notin Configuration
      BY <2>6 DEF OpenMigrated, OpenConfig, Unreadable
    <3>3. UNCHANGED <<secret, boot, copy, newKey, oldKey, issued, retired>>
      BY <2>6 DEF OpenMigrated, OpenConfig, Goto
    <3>4. QED
      BY <3>1, <3>2, <3>3 DEF Issued
  <2>7. ASSUME NEW r \in Requests, WriteMigrated(r) PROVE Issued'
    <3>1. config' \in Configuration => config'.key <= issued
      BY <2>7 DEF WriteMigrated, Overwritten, Issued, Unreadable
    <3>2. server = "up" /\ UNCHANGED <<server, secret, boot, issued, retired>>
      BY <2>7 DEF WriteMigrated, Issued
    <3>3. CASE Done(r)
      BY <3>1, <3>2, <3>3, DoneIssued DEF Issued
    <3>4. CASE UNCHANGED <<newKey, oldKey>> /\ copy' = [copy EXCEPT ![r].key = newKey[r]]
      <4>1. \A q \in Requests : copy'[q].key <= issued
        BY <3>4 DEF TypeOK, Issued
      <4>2. QED
        BY <3>1, <3>2, <3>4, <4>1 DEF Issued
    <3>5. QED
      BY <2>7, <3>3, <3>4 DEF WriteMigrated
  <2>8. ASSUME NEW r \in Requests, WriteConfig(r) PROVE Issued'
    <3>1. config' \in Configuration => config'.key <= issued
      BY <2>8 DEF WriteConfig, Overwritten, Issued, Unreadable
    <3>2. server = "up" /\ UNCHANGED <<server, secret, boot, issued>> /\ Done(r)
      BY <2>8 DEF WriteConfig, Issued
    <3>3. \A k \in retired' : k <= issued
      BY <2>8 DEF WriteConfig, Issued
    <3>4. QED
      BY <3>1, <3>2, <3>3, DoneIssued DEF Issued
  <2>9. ASSUME NEW r \in Requests, SaveFails(r) \/ HangUp(r) PROVE Issued'
    <3>1. server = "up" /\ UNCHANGED <<server, secret, boot, config, issued>> /\ Done(r)
      BY <2>9 DEF SaveFails, HangUp, Issued
    <3>2. \A k \in retired' : k <= issued
      BY <2>9 DEF SaveFails, HangUp, Issued
    <3>3. QED
      BY <3>1, <3>2, DoneIssued DEF Issued
  <2>10. CASE UNCHANGED vars
    BY <2>10 DEF vars, Issued
  <2>11. QED
    BY <2>1, <2>2, <2>3, <2>4, <2>5, <2>6, <2>7, <2>8, <2>9, <2>10 DEF Next, Serve
<1>3. QED
  BY <1>1, <1>2, TypeCorrect, PTL DEF Spec

(* While fate is "kept" there is at most one request; neither the key in    *)
(* memory nor any copy of the configuration that may still reach the file   *)
(* has been retired; a logout's new key is the one in memory, its old key   *)
(* another.                                                                 *)
AtMostOne == \A q, r \in Requests : stage[q] # "idle" /\ stage[r] # "idle" => q = r

CopyIsGood(r) ==
    /\ stage[r] # "idle" /\ r \in Logouts => newKey[r] = secret /\ oldKey[r] # secret
    /\ stage[r] \in {"loaded", "opened"} => copy[r].key = secret
    /\ stage[r] \in {"migrating", "rewriting"} => copy[r].key \notin retired
    /\ stage[r] \in {"rotated", "migrating", "rewriting"} => r \in Logouts

Kept ==
    /\ RevokedForGood
    /\ config \in Configuration => config.key \notin retired
    /\ AtMostOne
    /\ server = "saving" => boot.key = secret
    /\ \A r \in Requests : CopyIsGood(r)

KeptInv == fate = "kept" => Kept

(* A request that ends, and one that is idle, is good.                      *)
LEMMA DoneIsGood ==
    ASSUME TypeOK, NEW r \in Requests, Done(r), secret' = secret,
           \A q \in Requests : CopyIsGood(q), AtMostOne, stage[r] # "idle"
    PROVE  (\A q \in Requests : CopyIsGood(q))' /\ AtMostOne'
<1>1. stage'[r] = "idle" /\ \A q \in Requests \ {r} : stage'[q] = stage[q] /\ stage[q] = "idle"
  BY DEF Done, TypeOK, AtMostOne
<1>2. \A q \in Requests : stage'[q] = "idle"
  BY <1>1
<1>3. QED
  BY <1>2 DEF CopyIsGood, AtMostOne

(* A key replaced by an answered logout is never in force again, in memory  *)
(* or from the file, as long as requests do not cross, saves succeed and no *)
(* TLS request saves an older key (logout_handler, set_tls_handler,         *)
(* Config::load and save).                                                  *)
THEOREM RevokedInvariant == Spec => []RevokedUnlessOverwritten
<1>1. Init => KeptInv
  BY NotConfiguration DEF Init, KeptInv, Kept, RevokedForGood, AtMostOne, CopyIsGood, Unreadable
<1>2. TypeOK /\ Issued /\ KeptInv /\ [Next]_vars => KeptInv'
  <2> SUFFICES ASSUME TypeOK, Issued, KeptInv, [Next]_vars, fate' = "kept" PROVE Kept'
    BY DEF KeptInv
  <2> USE DEF memory, request, history, Spoil
  <2>0. fate = "kept"
    BY DEF Next, Start, FinishStart, Stop, Serve, Rotate, LoadConfig, OpenMigrated, WriteMigrated,
       MigrationFails, SetTls, OpenConfig, WriteConfig, SaveFails, HangUp, vars
  <2>k. Kept
    BY <2>0 DEF KeptInv
  <2>1. CASE Start
    <3>1. secret' \notin retired
      <4>1. CASE config \in Configuration /\ secret' = config.key
        BY <2>k, <4>1 DEF Kept
      <4>2. CASE secret' = issued + 1
        BY <4>2, SessionsAssumption DEF Issued, TypeOK, Keys
      <4>3. QED
        BY <2>1, <4>1, <4>2 DEF Start
    <3>2. \A r \in Requests : stage[r] = "idle" /\ stage' = stage
      BY <2>1 DEF Start, Issued
    <3>3. server' = "saving" => boot'.key = secret'
      BY <2>1 DEF Start
    <3>4. config' \in Configuration => config' = config
      BY <2>1, NotConfiguration DEF Start, Unreadable
    <3>5. retired' = retired
      BY <2>1 DEF Start
    <3>6. QED
      BY <2>k, <3>1, <3>2, <3>3, <3>4, <3>5 DEF Kept, RevokedForGood, AtMostOne, CopyIsGood
  <2>2. CASE FinishStart
    <3>1. UNCHANGED <<stage, copy, newKey, oldKey, secret, retired>>
      BY <2>2 DEF FinishStart
    <3>2. config'.key \notin retired /\ server' = "up"
      BY <2>2, <2>k DEF FinishStart, Kept, RevokedForGood
    <3>3. QED
      BY <2>k, <3>1, <3>2 DEF Kept, RevokedForGood, AtMostOne, CopyIsGood
  <2>3. CASE Stop
    <3>1. \A r \in Requests : stage'[r] = "idle"
      BY <2>3 DEF Stop
    <3>2. UNCHANGED <<config, secret, retired>> /\ server' = "down"
      BY <2>3 DEF Stop
    <3>3. QED
      BY <2>k, <3>1, <3>2 DEF Kept, RevokedForGood, AtMostOne, CopyIsGood
  <2>4. ASSUME NEW r \in Requests, Rotate(r) PROVE Kept'
    <3>1. \A q \in Requests \ {r} : stage[q] = "idle" /\ stage'[q] = "idle"
      BY <2>4, <2>0 DEF Rotate, Alone, TypeOK
    <3>2. /\ secret' = issued + 1 /\ stage'[r] = "rotated" /\ r \in Logouts
          /\ newKey'[r] = secret' /\ oldKey'[r] = secret
      BY <2>4 DEF Rotate, TypeOK
    <3>3. secret' \notin retired /\ secret' # secret
      BY <3>2, SessionsAssumption DEF Issued, TypeOK, Keys
    <3>4. UNCHANGED <<config, retired, server>> /\ server = "up"
      BY <2>4 DEF Rotate
    <3>5. QED
      BY <2>k, <3>1, <3>2, <3>3, <3>4 DEF Kept, RevokedForGood, AtMostOne, CopyIsGood
  <2>5. ASSUME NEW r \in Requests, LoadConfig(r) PROVE Kept'
    <3>1. \A q \in Requests \ {r} : stage[q] = "idle" /\ stage'[q] = "idle"
      BY <2>5, <2>k DEF LoadConfig, TypeOK, Kept, AtMostOne
    <3>2. UNCHANGED <<memory, config, newKey, oldKey, retired>>
      BY <2>5 DEF LoadConfig
    <3>3. r \in Logouts /\ newKey[r] = secret /\ oldKey[r] # secret
      BY <2>5, <2>k DEF LoadConfig, Kept, CopyIsGood
    <3>4. \/ stage'[r] = "migrating" /\ copy'[r].key \notin retired
          \/ stage'[r] = "loaded" /\ copy'[r].key = secret
      BY <2>5, <2>k, <3>3 DEF LoadConfig, TypeOK, Kept, Default, Configuration
    <3>5. QED
      BY <2>k, <3>1, <3>2, <3>3, <3>4 DEF Kept, RevokedForGood, AtMostOne, CopyIsGood
  <2>6. ASSUME NEW r \in Requests, MigrationFails(r) PROVE Kept'
    <3>1. \A q \in Requests \ {r} : stage[q] = "idle" /\ stage'[q] = "idle"
      BY <2>6, <2>k DEF MigrationFails, TypeOK, Kept, AtMostOne
    <3>2. UNCHANGED <<memory, config, newKey, oldKey, retired>>
      BY <2>6 DEF MigrationFails
    <3>3. r \in Logouts /\ newKey[r] = secret /\ oldKey[r] # secret
      BY <2>6, <2>k DEF MigrationFails, Kept, CopyIsGood
    <3>4. stage'[r] = "loaded" /\ copy'[r].key = secret
      BY <2>6, <3>3 DEF MigrationFails, TypeOK, Configuration
    <3>5. QED
      BY <2>k, <3>1, <3>2, <3>3, <3>4 DEF Kept, RevokedForGood, AtMostOne, CopyIsGood
  <2>7. ASSUME NEW r \in Requests, NEW on \in BOOLEAN, SetTls(r, on) PROVE Kept'
    <3>1. \A q \in Requests \ {r} : stage[q] = "idle" /\ stage'[q] = "idle"
      BY <2>7, <2>0 DEF SetTls, Alone, TypeOK
    <3>2. UNCHANGED <<memory, config, newKey, oldKey, retired>> /\ boot.key = secret
      BY <2>7, <2>0 DEF SetTls
    <3>3. stage'[r] = "loaded" /\ copy'[r].key = secret /\ r \notin Logouts
      BY <2>7, <3>2, SessionsAssumption DEF SetTls, TypeOK, Configuration
    <3>4. QED
      BY <2>k, <3>1, <3>2, <3>3 DEF Kept, RevokedForGood, AtMostOne, CopyIsGood
  <2>8. ASSUME NEW r \in Requests, OpenMigrated(r) \/ OpenConfig(r) PROVE Kept'
    <3>1. config' \notin Configuration
      BY <2>8, NotConfiguration DEF OpenMigrated, OpenConfig, Unreadable
    <3>2. UNCHANGED <<memory, copy, newKey, oldKey, retired>>
      BY <2>8 DEF OpenMigrated, OpenConfig, Goto
    <3>3. \A q \in Requests : q # r => stage'[q] = stage[q]
      BY <2>8 DEF OpenMigrated, OpenConfig, Goto, TypeOK
    <3>4. \/ stage[r] = "migrating" /\ stage'[r] = "rewriting"
          \/ stage[r] = "loaded" /\ stage'[r] = "opened"
      BY <2>8 DEF OpenMigrated, OpenConfig, Goto, TypeOK
    <3>5. QED
      BY <2>k, <3>1, <3>2, <3>3, <3>4 DEF Kept, RevokedForGood, AtMostOne, CopyIsGood
  <2>9. ASSUME NEW r \in Requests, WriteMigrated(r) PROVE Kept'
    <3>1. UNCHANGED <<memory, retired>>
      BY <2>9 DEF WriteMigrated
    <3>2. config' \in Configuration => config'.key \notin retired
      BY <2>9, <2>k, NotConfiguration DEF WriteMigrated, Overwritten, Kept, CopyIsGood, Unreadable
    <3>3. CASE Done(r)
      BY <2>9, <2>k, <3>1, <3>2, <3>3, DoneIsGood DEF WriteMigrated, Kept, RevokedForGood
    <3>4. CASE /\ stage' = [stage EXCEPT ![r] = "loaded"]
               /\ copy' = [copy EXCEPT ![r].key = newKey[r]] /\ UNCHANGED <<newKey, oldKey>>
      <4>1. \A q \in Requests \ {r} : stage[q] = "idle" /\ stage'[q] = "idle"
        BY <2>9, <2>k, <3>4 DEF WriteMigrated, TypeOK, Kept, AtMostOne
      <4>2. r \in Logouts /\ newKey[r] = secret /\ oldKey[r] # secret
        BY <2>9, <2>k DEF WriteMigrated, Kept, CopyIsGood
      <4>3. stage'[r] = "loaded" /\ copy'[r].key = secret
        BY <3>4, <4>2 DEF TypeOK, Configuration
      <4>4. QED
        BY <2>k, <3>1, <3>2, <3>4, <4>1, <4>2, <4>3
        DEF Kept, RevokedForGood, AtMostOne, CopyIsGood
    <3>5. QED
      BY <2>9, <3>3, <3>4 DEF WriteMigrated
  <2>10. ASSUME NEW r \in Requests, WriteConfig(r) PROVE Kept'
    <3>1. UNCHANGED memory /\ Done(r) /\ stage[r] # "idle"
      BY <2>10 DEF WriteConfig
    <3>2. copy[r].key = secret /\ (r \in Logouts => oldKey[r] # secret)
      BY <2>10, <2>k DEF WriteConfig, Kept, CopyIsGood
    <3>3. secret \notin retired'
      BY <2>10, <2>k, <3>2 DEF WriteConfig, Kept, RevokedForGood
    <3>4. config' = copy[r] \/ config' \notin Configuration
      BY <2>10, NotConfiguration DEF WriteConfig, Overwritten, Unreadable
    <3>5. (\A q \in Requests : CopyIsGood(q))' /\ AtMostOne'
      BY <2>k, <3>1, DoneIsGood DEF Kept
    <3>6. QED
      BY <2>k, <3>1, <3>2, <3>3, <3>4, <3>5 DEF Kept, RevokedForGood
  <2>11. ASSUME NEW r \in Requests, SaveFails(r) PROVE FALSE
    BY <2>0, <2>11 DEF SaveFails
  <2>12. ASSUME NEW r \in Requests, HangUp(r) PROVE Kept'
    <3>1. UNCHANGED <<memory, config, retired>> /\ Done(r) /\ stage[r] # "idle"
      BY <2>12 DEF HangUp
    <3>2. QED
      BY <2>k, <3>1, DoneIsGood DEF Kept, RevokedForGood
  <2>13. CASE UNCHANGED vars
    BY <2>k, <2>13 DEF vars, Kept, RevokedForGood, AtMostOne, CopyIsGood
  <2>14. QED
    BY <2>1, <2>2, <2>3, <2>4, <2>5, <2>6, <2>7, <2>8, <2>9, <2>10, <2>11, <2>12, <2>13
    DEF Next, Serve
<1>3. KeptInv => RevokedUnlessOverwritten
  BY DEF KeptInv, Kept, RevokedUnlessOverwritten
<1>4. QED
  BY <1>1, <1>2, <1>3, TypeCorrect, IssuedInvariant, PTL DEF Spec

-----------------------------------------------------------------------------
(* The other settings *)

InOrder == fate \in {"kept", "stale"}

Saving == server = "saving" \/ \E r \in Requests : stage[r] \in {"rewriting", "opened"}

(* What the file holds while nobody writes it.                              *)
OnFile ==
    /\ config \in Configuration => config.tls = wanted
    /\ config = Absent => ~wanted
    /\ config \in {Empty, Torn} => Saving

(* A request that has opened the file finds it empty; what a logout has     *)
(* read and will save has the TLS setting last asked for.                   *)
CopyIsCurrent(r) ==
    /\ stage[r] \in {"rewriting", "opened"} => config = Empty
    /\ stage[r] \in {"rotated", "migrating", "rewriting"} => r \in Logouts
    /\ r \in Logouts /\ stage[r] \notin {"idle", "rotated"} => copy[r].tls = wanted

Settled ==
    /\ OnFile
    /\ AtMostOne
    /\ server = "saving" => config = Empty /\ boot.tls = wanted
    /\ \A r \in Requests : CopyIsCurrent(r)

SettledInv == InOrder => Settled

(* When the only request under way ends and leaves a complete file.         *)
LEMMA EndsSettled ==
    ASSUME TypeOK, Issued, Settled, NEW r \in Requests, stage[r] # "idle", Done(r),
           server' = server, config' \notin {Empty, Torn},
           config' \in Configuration => config'.tls = wanted', config' = Absent => ~wanted'
    PROVE  Settled'
<1>1. \A q \in Requests : stage'[q] = "idle"
  BY DEF Done, TypeOK, Settled, AtMostOne
<1>2. server' # "saving"
  BY DEF Issued
<1>3. QED
  BY <1>1, <1>2 DEF Settled, OnFile, AtMostOne, CopyIsCurrent

(* When the only request under way goes on and leaves the file alone.       *)
LEMMA GoesOnSettled ==
    ASSUME TypeOK, NEW r \in Requests, OnFile, ~Saving,
           \A q \in Requests \ {r} : stage[q] = "idle" /\ stage'[q] = "idle",
           UNCHANGED <<server, config, wanted>>,
           stage'[r] \notin {"rewriting", "opened"},
           stage'[r] \in {"rotated", "migrating"} => r \in Logouts,
           r \in Logouts /\ stage'[r] \notin {"idle", "rotated"} => copy'[r].tls = wanted
    PROVE  Settled'
<1>1. config \notin {Empty, Torn} /\ server' # "saving"
  BY DEF OnFile, Saving
<1>2. QED
  BY <1>1 DEF Settled, OnFile, AtMostOne, CopyIsCurrent

(* A logout and a TLS request leave the rest of the configuration as it     *)
(* was, also when an old key is saved (Config::load and save, logout_-      *)
(* handler, set_tls_handler).                                               *)
THEOREM SettingsInvariant == Spec => []SettingsSurvive
<1> USE SessionsAssumption DEF Unreadable
<1>1. Init => SettledInv
  BY DEF Init, SettledInv, Settled, OnFile, AtMostOne, CopyIsCurrent
<1>2. TypeOK /\ Issued /\ SettledInv /\ [Next]_vars => SettledInv'
  <2> SUFFICES ASSUME TypeOK, Issued, SettledInv, [Next]_vars, InOrder' PROVE Settled'
    BY DEF SettledInv
  <2> USE DEF memory, request, history, Spoil
  <2>0. InOrder
    BY DEF InOrder, Next, Start, FinishStart, Stop, Serve, Rotate, LoadConfig, OpenMigrated,
       WriteMigrated, MigrationFails, SetTls, OpenConfig, WriteConfig, SaveFails, HangUp, vars
  <2>k. Settled
    BY <2>0 DEF SettledInv
  <2>1. CASE Start
    <3>1. \A r \in Requests : stage[r] = "idle" /\ stage'[r] = "idle"
      BY <2>1 DEF Start, Issued
    <3>2. config \notin {Empty, Torn} /\ UNCHANGED wanted
      BY <2>1, <2>k, <3>1 DEF Start, Settled, OnFile, Saving
    <3>3. \/ server' = "up" /\ UNCHANGED config
          \/ server' = "saving" /\ config' = Empty /\ config \in Configuration /\ boot' = config
      BY <2>1 DEF Start
    <3>4. QED
      BY <2>k, <3>1, <3>2, <3>3 DEF Settled, OnFile, Saving, AtMostOne, CopyIsCurrent
  <2>2. CASE FinishStart
    <3>1. \A r \in Requests : stage[r] = "idle" /\ stage'[r] = "idle"
      BY <2>2 DEF FinishStart, Issued
    <3>2. config' \in Configuration /\ config'.tls = wanted' /\ server' = "up"
      BY <2>2, <2>k DEF FinishStart, Settled, TypeOK
    <3>3. QED
      BY <3>1, <3>2 DEF Settled, OnFile, Saving, AtMostOne, CopyIsCurrent
  <2>3. CASE Stop
    <3>1. ~Saving
      BY <2>3, <2>0 DEF Stop, Saving, InOrder
    <3>2. \A r \in Requests : stage'[r] = "idle"
      BY <2>3 DEF Stop
    <3>3. UNCHANGED <<config, wanted>> /\ server' = "down"
      BY <2>3 DEF Stop
    <3>4. QED
      BY <2>k, <3>1, <3>2, <3>3 DEF Settled, OnFile, AtMostOne, CopyIsCurrent
  <2>4. ASSUME NEW r \in Requests, Rotate(r) PROVE Settled'
    <3>1. \A q \in Requests \ {r} : stage[q] = "idle" /\ stage'[q] = "idle"
      BY <2>4, <2>0 DEF Rotate, Alone, TypeOK, InOrder
    <3>2. ~Saving
      BY <2>4, <3>1 DEF Rotate, Saving
    <3>3. stage'[r] = "rotated" /\ r \in Logouts /\ UNCHANGED <<server, config, wanted>>
      BY <2>4 DEF Rotate, TypeOK
    <3>4. QED
      BY <2>k, <3>1, <3>2, <3>3, GoesOnSettled DEF Settled
  <2>5. ASSUME NEW r \in Requests, LoadConfig(r) PROVE Settled'
    <3>1. \A q \in Requests \ {r} : stage[q] = "idle" /\ stage'[q] = "idle"
      BY <2>5, <2>k DEF LoadConfig, TypeOK, Settled, AtMostOne
    <3>2. ~Saving
      BY <2>5, <3>1 DEF LoadConfig, Saving, Issued
    <3>3. UNCHANGED <<server, config, wanted>> /\ r \in Logouts
      BY <2>5, <2>k DEF LoadConfig, Settled, CopyIsCurrent
    <3>4. stage'[r] \in {"migrating", "loaded"}
      BY <2>5 DEF LoadConfig, TypeOK
    <3>5. \/ config \in Configuration /\ copy'[r].tls = config.tls
          \/ config \in Unreadable /\ copy'[r].tls = FALSE
      BY <2>5 DEF LoadConfig, TypeOK, Default, Configuration
    <3>6. copy'[r].tls = wanted
      BY <2>k, <3>2, <3>5 DEF Settled, OnFile, TypeOK
    <3>7. QED
      BY <2>k, <3>1, <3>2, <3>3, <3>4, <3>6, GoesOnSettled DEF Settled
  <2>6. ASSUME NEW r \in Requests, MigrationFails(r) PROVE Settled'
    <3>1. \A q \in Requests \ {r} : stage[q] = "idle" /\ stage'[q] = "idle"
      BY <2>6, <2>k DEF MigrationFails, TypeOK, Settled, AtMostOne
    <3>2. stage[r] = "migrating"
      BY <2>6, <2>0 DEF MigrationFails, InOrder
    <3>3. ~Saving
      BY <3>1, <3>2 DEF Saving, Issued
    <3>4. UNCHANGED <<server, config, wanted>> /\ r \in Logouts /\ copy[r].tls = wanted
      BY <2>6, <2>k, <3>2 DEF MigrationFails, Settled, CopyIsCurrent
    <3>5. stage'[r] = "loaded" /\ copy'[r].tls = copy[r].tls
      BY <2>6 DEF MigrationFails, TypeOK, Configuration
    <3>6. QED
      BY <2>k, <3>1, <3>3, <3>4, <3>5, GoesOnSettled DEF Settled
  <2>7. ASSUME NEW r \in Requests, NEW on \in BOOLEAN, SetTls(r, on) PROVE Settled'
    <3>1. \A q \in Requests \ {r} : stage[q] = "idle" /\ stage'[q] = "idle"
      BY <2>7, <2>0 DEF SetTls, Alone, TypeOK, InOrder
    <3>2. ~Saving
      BY <2>7, <3>1 DEF SetTls, Saving
    <3>3. stage'[r] = "loaded" /\ r \notin Logouts /\ UNCHANGED <<server, config, wanted>>
      BY <2>7 DEF SetTls, TypeOK
    <3>4. QED
      BY <2>k, <3>1, <3>2, <3>3, GoesOnSettled DEF Settled
  <2>8. ASSUME NEW r \in Requests, OpenMigrated(r) \/ OpenConfig(r) PROVE Settled'
    <3>1. config' = Empty /\ UNCHANGED <<memory, copy, wanted>>
      BY <2>8 DEF OpenMigrated, OpenConfig, Goto
    <3>2. \A q \in Requests \ {r} : stage[q] = "idle" /\ stage'[q] = "idle"
      BY <2>8, <2>k DEF OpenMigrated, OpenConfig, Goto, TypeOK, Settled, AtMostOne
    <3>3. \/ stage[r] = "migrating" /\ stage'[r] = "rewriting"
          \/ stage[r] = "loaded" /\ stage'[r] = "opened"
      BY <2>8 DEF OpenMigrated, OpenConfig, Goto, TypeOK
    <3>4. server' # "saving"
      BY <3>1, <3>3 DEF Issued
    <3>5. QED
      BY <2>k, <3>1, <3>2, <3>3, <3>4 DEF Settled, OnFile, Saving, AtMostOne, CopyIsCurrent
  <2>9. ASSUME NEW r \in Requests, WriteMigrated(r) PROVE Settled'
    <3>1. UNCHANGED <<memory, wanted>> /\ stage[r] = "rewriting"
      BY <2>9 DEF WriteMigrated
    <3>2. r \in Logouts /\ copy[r].tls = wanted /\ config' = copy[r]
      BY <2>9, <2>k DEF WriteMigrated, Overwritten, Settled, CopyIsCurrent
    <3>3. config' \in Configuration
      BY <3>2 DEF TypeOK
    <3>4. CASE Done(r)
      BY <2>k, <3>1, <3>2, <3>3, <3>4, EndsSettled
    <3>5. CASE stage' = [stage EXCEPT ![r] = "loaded"] /\ copy' = [copy EXCEPT ![r].key = newKey[r]]
      <4>1. \A q \in Requests \ {r} : stage'[q] = "idle"
        BY <2>k, <3>1, <3>5 DEF TypeOK, Settled, AtMostOne
      <4>2. stage'[r] = "loaded" /\ copy'[r].tls = wanted
        BY <3>2, <3>5 DEF TypeOK, Configuration
      <4>3. server' # "saving"
        BY <3>1 DEF Issued
      <4>4. QED
        BY <3>1, <3>2, <3>3, <4>1, <4>2, <4>3
        DEF Settled, OnFile, Saving, AtMostOne, CopyIsCurrent
    <3>6. QED
      BY <2>9, <3>4, <3>5 DEF WriteMigrated
  <2>10. ASSUME NEW r \in Requests, WriteConfig(r) PROVE Settled'
    <3>1. UNCHANGED memory /\ Done(r) /\ stage[r] = "opened"
      BY <2>10 DEF WriteConfig
    <3>2. config' = copy[r] /\ (r \in Logouts => copy[r].tls = wanted)
      BY <2>10, <2>k DEF WriteConfig, Overwritten, Settled, CopyIsCurrent
    <3>3. config' \in Configuration
      BY <3>2 DEF TypeOK
    <3>4. wanted' = copy[r].tls
      BY <2>10, <3>2 DEF WriteConfig, Requests
    <3>5. QED
      BY <2>k, <3>1, <3>2, <3>3, <3>4, EndsSettled
  <2>11. ASSUME NEW r \in Requests, SaveFails(r) PROVE FALSE
    BY <2>0, <2>11 DEF SaveFails, InOrder
  <2>12. ASSUME NEW r \in Requests, HangUp(r) PROVE Settled'
    <3>1. UNCHANGED <<memory, config, wanted>> /\ Done(r)
      BY <2>12 DEF HangUp
    <3>2. ~Saving
      BY <2>12, <2>k DEF HangUp, Saving, Settled, AtMostOne, Issued
    <3>3. stage[r] # "idle" /\ config \notin {Empty, Torn}
      BY <2>12, <2>k, <3>2 DEF HangUp, Settled, OnFile
    <3>4. QED
      BY <2>k, <3>1, <3>3, EndsSettled DEF Settled, OnFile
  <2>13. CASE UNCHANGED vars
    BY <2>k, <2>13 DEF vars, Settled, OnFile, Saving, AtMostOne, CopyIsCurrent
  <2>14. QED
    BY <2>1, <2>2, <2>3, <2>4, <2>5, <2>6, <2>7, <2>8, <2>9, <2>10, <2>11, <2>12, <2>13
    DEF Next, Serve
<1>3. SettledInv => SettingsSurvive
  BY DEF SettledInv, InOrder, Settled, OnFile, Saving, SettingsSurvive
<1>4. QED
  BY <1>1, <1>2, <1>3, TypeCorrect, IssuedInvariant, PTL DEF Spec
=============================================================================
