---------------------------- MODULE DevicesProofs ----------------------------
(* Proofs about what changes the board and its USB devices: Updater,       *)
(* Download, Ethernet, VirtualMedia, Tailscale and HidBus, each about its  *)
(* own specification, and of the run of them all.                          *)
EXTENDS MCDevices, SequenceTheorems, FiniteSetTheorems, TLAPS

-----------------------------------------------------------------------------
(* Updater *)

(* Every reachable state of the updates (application.rs) has its types.    *)
THEOREM UpdaterTypeCorrect == UpdaterSpec => []UpdaterTypeOK
<1>1. UpdaterInit => UpdaterTypeOK
  BY DEF UpdaterInit, UpdaterTypeOK, Busy, Unpacking, Waiting
<1>2. UpdaterTypeOK /\ [UpdaterNext]_updater => UpdaterTypeOK'
  <2> SUFFICES ASSUME UpdaterTypeOK, [UpdaterNext]_updater PROVE UpdaterTypeOK'
    OBVIOUS
  <2> USE DEF UpdaterTypeOK, UpdateTo, ScriptTo, StraysAmong, Busy, Unpacking, Waiting, Copying
  <2>1. ASSUME NEW u \in Updates, StartOffline(u) PROVE UpdaterTypeOK'
    BY <2>1 DEF StartOffline, Claim
  <2>2. ASSUME NEW u \in Updates, RefuseOffline(u) PROVE UpdaterTypeOK'
    BY <2>2 DEF RefuseOffline, Flag
  <2>3. ASSUME NEW u \in Updates, HangUpOffline(u) PROVE UpdaterTypeOK'
    BY <2>3 DEF HangUpOffline
  <2>4. ASSUME NEW u \in Updates, StoreOffline(u) PROVE UpdaterTypeOK'
    BY <2>4 DEF StoreOffline
  <2>5. ASSUME NEW u \in Updates, StartOnline(u) PROVE UpdaterTypeOK'
    BY <2>5 DEF StartOnline, Claim
  <2>6. ASSUME NEW u \in Updates, Wipe(u) PROVE UpdaterTypeOK'
    BY <2>6 DEF Wipe
  <2>7. ASSUME NEW u \in Updates, Fetch(u) PROVE UpdaterTypeOK'
    BY <2>7 DEF Fetch
  <2>8. ASSUME NEW u \in Updates, FailFetch(u) PROVE UpdaterTypeOK'
    BY <2>8 DEF FailFetch, Flag
  <2>9. ASSUME NEW u \in Updates, Unpack(u) PROVE UpdaterTypeOK'
    BY <2>9 DEF Unpack
  <2>10. ASSUME NEW u \in Updates, FailUnpack(u) PROVE UpdaterTypeOK'
    BY <2>10 DEF FailUnpack, Afterwards, Flag
  <2>11. ASSUME NEW u \in Updates, StopService(u) PROVE UpdaterTypeOK'
    BY <2>11 DEF StopService, Stop
  <2>12. ASSUME NEW u \in Updates, BeginCopy(u) PROVE UpdaterTypeOK'
    BY <2>12 DEF BeginCopy
  <2>13. ASSUME NEW u \in Updates, EndCopy(u) PROVE UpdaterTypeOK'
    BY <2>13 DEF EndCopy
  <2>14. ASSUME NEW u \in Updates, StartService(u) PROVE UpdaterTypeOK'
    BY <2>14 DEF StartService, Start
  <2>15. ASSUME NEW u \in Updates, Install(u) PROVE UpdaterTypeOK'
    BY <2>15 DEF Install, ScriptOver, Afterwards, Flag
  <2>16. ASSUME NEW u \in Updates, FailInstall(u) PROVE UpdaterTypeOK'
    BY <2>16 DEF FailInstall, ScriptOver, Afterwards, Flag
  <2>17. ASSUME NEW u \in Updates, RestartAfter(u) PROVE UpdaterTypeOK'
    BY <2>17 DEF RestartAfter, Restart
  <2>18. ASSUME NEW u \in Updates, NoRestart(u) PROVE UpdaterTypeOK'
    BY <2>18 DEF NoRestart, Flag
  <2>19. ASSUME NEW u \in Updates, EndTask(u) PROVE UpdaterTypeOK'
    BY <2>19 DEF EndTask
  <2>20. CASE RestartOutside
    BY <2>20 DEF RestartOutside, Restart
  <2>21. CASE PowerCycle
    BY <2>21 DEF PowerCycle
  <2>22. CASE UNCHANGED updater
    BY <2>22 DEF updater
  <2>23. QED
    BY <2>1, <2>2, <2>3, <2>4, <2>5, <2>6, <2>7, <2>8, <2>9, <2>10, <2>11,
       <2>12, <2>13, <2>14, <2>15, <2>16, <2>17, <2>18, <2>19, <2>20, <2>21, <2>22
       DEF UpdaterNext
<1>3. QED
  BY <1>1, <1>2, PTL DEF UpdaterSpec

(* What holds beside UpdatesApart: while a server runs, the install.sh of  *)
(* one of its own updates has its updater waiting; a stray is one that has *)
(* not ended; and who waits waits for a script.                            *)
UpdaterInv ==
    /\ UpdaterTypeOK
    /\ UpdatesApart
    /\ \A u \in Updates \ strays : running /\ script[u] # "none" => update[u] \in Waiting
    /\ \A u \in Updates : update[u] \in Waiting => script[u] # "none"
    /\ \A u \in Updates : script[u] # "none" => update[u] \in Waiting \cup {"idle"}
    /\ \A u \in strays : ~Ended(u)
    /\ ~running => ~IS_UPDATING

Own(u) == running /\ u \notin strays

(* A step of update u that begins nothing and starts and stops no server:  *)
(* the flag is cleared only by an own update that ends.                    *)
OneStep(u) ==
    /\ \A v \in Updates \ {u} : update'[v] = update[v] /\ (script'[v] = "none" <=> script[v] = "none")
    /\ UNCHANGED running
    /\ strays' = {v \in strays : ~(update'[v] = "idle" /\ script'[v] = "none")}
    /\ (update'[u] \in Busy \/ script'[u] # "none") => AtWork(u)
    /\ update'[u] \in Waiting => script'[u] # "none"
    /\ script'[u] # "none" => update'[u] \in Waiting \cup {"idle"}
    /\ Own(u) /\ script'[u] # "none" => update'[u] \in Waiting
    /\ UNCHANGED IS_UPDATING \/ (Own(u) /\ AtWork(u) /\ update'[u] \notin Busy /\ ~IS_UPDATING')
    /\ Own(u) /\ AtWork(u) /\ update'[u] \notin Busy => ~IS_UPDATING' \/ dropped'
    /\ dropped => dropped'

LEMMA OneStepKeeps ==
    ASSUME UpdaterInv, UpdaterTypeOK', NEW u \in Updates, OneStep(u)
    PROVE  UpdaterInv'
<1> USE DEF UpdaterInv, UpdaterTypeOK, Ended, AtWork
<1> Waiting \subseteq Busy /\ "idle" \notin Busy
  BY DEF Waiting, Busy, Unpacking
<1>1. ASSUME NEW v \in Updates, AtWork(v)'
      PROVE  AtWork(v) /\ (v \in strays <=> v \in strays')
  <2>1. AtWork(v)
    BY <1>1 DEF OneStep
  <2>2. ~(update'[v] = "idle" /\ script'[v] = "none")
    BY <1>1
  <2>3. QED
    BY <2>1, <2>2 DEF OneStep
<1>2. ASSUME NEW v \in Updates \ strays', script'[v] # "none", running' PROVE update'[v] \in Waiting
  <2>1. v \notin strays
    BY <1>2 DEF OneStep
  <2>2. QED
    BY <1>2, <2>1 DEF OneStep, Own
<1>3. /\ \A v \in Updates : update'[v] \in Waiting => script'[v] # "none"
      /\ \A v \in Updates : script'[v] # "none" => update'[v] \in Waiting \cup {"idle"}
  BY DEF OneStep
<1>4. \A v \in strays' : ~Ended(v)'
  BY DEF OneStep
<1>5. ~running' => ~IS_UPDATING'
  BY DEF OneStep, Own
<1>6. ASSUME NEW v \in Updates \ strays', NEW w \in Updates \ strays', AtWork(v)', AtWork(w)' PROVE v = w
  <2>1. AtWork(v) /\ v \notin strays
    BY <1>1, <1>6
  <2>2. AtWork(w) /\ w \notin strays
    BY <1>1, <1>6
  <2>3. QED
    BY <2>1, <2>2 DEF UpdatesApart
<1>7. ASSUME NEW v \in Updates \ strays', AtWork(v)', running' PROVE IS_UPDATING'
  <2>1. AtWork(v) /\ v \notin strays
    BY <1>1, <1>7
  <2>2. running /\ IS_UPDATING
    BY <1>7, <2>1 DEF UpdatesApart, OneStep
  <2>3. CASE v = u
    <3>1. update'[u] \in Busy
      BY <1>2, <1>7, <2>3
    <3>2. QED
      BY <2>2, <3>1 DEF OneStep
  <2>4. CASE v # u
    <3>1. ~(Own(u) /\ AtWork(u))
      BY <2>1, <2>4 DEF UpdatesApart, Own
    <3>2. QED
      BY <2>2, <3>1 DEF OneStep
  <2>5. QED
    BY <2>3, <2>4
<1>8. ASSUME IS_UPDATING', ~dropped' PROVE \E v \in Updates \ strays' : update'[v] \in Busy
  <2>1. IS_UPDATING /\ ~dropped /\ running
    BY <1>8 DEF OneStep
  <2>2. PICK v \in Updates \ strays : update[v] \in Busy
    BY <2>1 DEF UpdatesApart
  <2>3. update'[v] \in Busy
    <3>1. CASE v = u
      BY <1>8, <2>1, <2>2, <3>1 DEF OneStep, Own
    <3>2. CASE v # u
      BY <2>2, <3>2 DEF OneStep
    <3>3. QED
      BY <3>1, <3>2
  <2>4. v \notin strays'
    BY <2>2 DEF OneStep
  <2>5. QED
    BY <2>3, <2>4
<1>9. UpdatesApart'
  <2> HIDE DEF AtWork
  <2>1. \A v, w \in Updates \ strays' : AtWork(v)' /\ AtWork(w)' => v = w
    BY <1>6
  <2>2. running' /\ (\E v \in Updates \ strays' : AtWork(v)') => IS_UPDATING'
    BY <1>7
  <2>3. QED
    BY <1>8, <2>1, <2>2 DEF UpdatesApart
<1> HIDE DEF AtWork, Ended
<1>10. QED
  BY <1>2, <1>3, <1>4, <1>5, <1>9

LEMMA AfterwardsKeeps ==
    ASSUME UpdaterInv, UpdaterTypeOK', NEW u \in Updates, NEW ok \in BOOLEAN,
           Afterwards(u, ok), AtWork(u), UNCHANGED <<running, dropped>>,
           script'[u] = "none", \A v \in Updates \ {u} : script'[v] = script[v],
           strays' = {v \in strays : ~(update'[v] = "idle" /\ script'[v] = "none")}
    PROVE  UpdaterInv'
<1>1. \/ UpdateTo(u, "pausing") /\ UNCHANGED IS_UPDATING
      \/ (UpdateTo(u, "restarting") \/ UpdateTo(u, "idle")) /\ Flag(u, FALSE)
  BY DEF Afterwards
<1>2. CASE UpdateTo(u, "pausing") /\ UNCHANGED IS_UPDATING
  <2>1. OneStep(u)
    BY <1>2 DEF OneStep, UpdateTo, UpdaterInv, UpdaterTypeOK, Busy, Waiting
  <2>2. QED
    BY <2>1, OneStepKeeps
<1>3. CASE (UpdateTo(u, "restarting") \/ UpdateTo(u, "idle")) /\ Flag(u, FALSE)
  <2>1. OneStep(u)
    BY <1>3 DEF OneStep, Own, Flag, UpdateTo, UpdaterInv, UpdaterTypeOK, Busy, Unpacking, Waiting
  <2>2. QED
    BY <2>1, OneStepKeeps
<1>4. QED
  BY <1>1, <1>2, <1>3

LEMMA ScriptOverKeeps ==
    ASSUME UpdaterInv, UpdaterTypeOK', NEW u \in Updates, NEW ok \in BOOLEAN,
           ScriptOver(u, ok), script[u] # "none", UNCHANGED <<running, dropped>>
    PROVE  UpdaterInv'
<1>1. /\ script'[u] = "none" /\ \A v \in Updates \ {u} : script'[v] = script[v]
      /\ strays' = {v \in strays : ~(update'[v] = "idle" /\ script'[v] = "none")}
  BY DEF ScriptOver, ScriptTo, StraysAmong, Ended, UpdaterInv, UpdaterTypeOK
<1>2. AtWork(u)
  BY DEF AtWork
<1>3. CASE update[u] \in Waiting
  <2>1. Afterwards(u, ok)
    BY <1>3 DEF ScriptOver
  <2>2. QED
    BY <1>1, <1>2, <2>1, AfterwardsKeeps
<1>4. CASE update[u] \notin Waiting
  <2>1. UNCHANGED <<update, IS_UPDATING>>
    BY <1>4 DEF ScriptOver
  <2>2. ~Own(u) /\ update[u] = "idle"
    BY <1>4 DEF Own, UpdaterInv
  <2>3. OneStep(u)
    BY <1>1, <1>2, <1>4, <2>1, <2>2 DEF OneStep, Busy, Unpacking, Waiting
  <2>4. QED
    BY <2>3, OneStepKeeps
<1>5. QED
  BY <1>3, <1>4

(* A server that has just been started has no update of its own. *)
LEMMA NothingBegun ==
    ASSUME UpdaterTypeOK', ~IS_UPDATING',
           strays' = {v \in Updates : ~(update'[v] = "idle" /\ script'[v] = "none")},
           \A v \in Updates : update'[v] \in Waiting => script'[v] # "none",
           \A v \in Updates : script'[v] # "none" => update'[v] \in Waiting \cup {"idle"}
    PROVE  UpdaterInv'
BY DEF UpdaterInv, UpdatesApart, AtWork, Ended, Busy, Waiting, Unpacking

(* The flag keeps the updates of a server apart, also while its service is *)
(* stopped and started by install.sh (application.rs 107, 258, install.sh  *)
(* 50-54, 166-168).  A request claims the flag only when a server runs and *)
(* it is clear, and then no other of this server is at work, for the task  *)
(* that would clear it waits for its script.                               *)
LEMMA UpdaterInvariant == UpdaterSpec => []UpdaterInv
<1>1. UpdaterTypeOK /\ UpdaterInit => UpdaterInv
  BY DEF UpdaterInit, UpdaterInv, UpdatesApart, AtWork, Busy, Unpacking, Waiting
<1>2. UpdaterInv /\ UpdaterTypeOK' /\ [UpdaterNext]_updater => UpdaterInv'
  <2> SUFFICES ASSUME UpdaterInv, UpdaterTypeOK', [UpdaterNext]_updater PROVE UpdaterInv'
    OBVIOUS
  <2>1. ASSUME NEW u \in Updates, RefuseOffline(u) PROVE UpdaterInv'
    <3>1. OneStep(u)
      BY <2>1 DEF RefuseOffline, Flag, OneStep, Own, UpdaterInv, UpdaterTypeOK, AtWork, Ended,
         UpdateTo, ScriptTo, StraysAmong, Busy, Unpacking, Waiting, Copying
    <3>2. QED
      BY <3>1, OneStepKeeps
  <2>2. ASSUME NEW u \in Updates, HangUpOffline(u) PROVE UpdaterInv'
    <3>1. OneStep(u)
      BY <2>2 DEF HangUpOffline, OneStep, Own, UpdaterInv, UpdaterTypeOK, AtWork, Ended,
         UpdateTo, ScriptTo, StraysAmong, Busy, Unpacking, Waiting, Copying
    <3>2. QED
      BY <3>1, OneStepKeeps
  <2>3. ASSUME NEW u \in Updates, StoreOffline(u) PROVE UpdaterInv'
    <3>1. OneStep(u)
      BY <2>3 DEF StoreOffline, OneStep, Own, UpdaterInv, UpdaterTypeOK, AtWork, Ended,
         UpdateTo, ScriptTo, StraysAmong, Busy, Unpacking, Waiting, Copying
    <3>2. QED
      BY <3>1, OneStepKeeps
  <2>4. ASSUME NEW u \in Updates, Wipe(u) PROVE UpdaterInv'
    <3>1. OneStep(u)
      BY <2>4 DEF Wipe, OneStep, Own, UpdaterInv, UpdaterTypeOK, AtWork, Ended,
         UpdateTo, ScriptTo, StraysAmong, Busy, Unpacking, Waiting, Copying
    <3>2. QED
      BY <3>1, OneStepKeeps
  <2>5. ASSUME NEW u \in Updates, Fetch(u) PROVE UpdaterInv'
    <3>1. OneStep(u)
      BY <2>5 DEF Fetch, OneStep, Own, UpdaterInv, UpdaterTypeOK, AtWork, Ended,
         UpdateTo, ScriptTo, StraysAmong, Busy, Unpacking, Waiting, Copying
    <3>2. QED
      BY <3>1, OneStepKeeps
  <2>6. ASSUME NEW u \in Updates, FailFetch(u) PROVE UpdaterInv'
    <3>1. OneStep(u)
      BY <2>6 DEF FailFetch, Flag, OneStep, Own, UpdaterInv, UpdaterTypeOK, AtWork, Ended,
         UpdateTo, ScriptTo, StraysAmong, Busy, Unpacking, Waiting, Copying
    <3>2. QED
      BY <3>1, OneStepKeeps
  <2>7. ASSUME NEW u \in Updates, Unpack(u) PROVE UpdaterInv'
    <3>1. /\ update[u] \in Unpacking /\ update'[u] \in Waiting /\ script'[u] = "stop"
          /\ \A v \in Updates \ {u} : update'[v] = update[v] /\ script'[v] = script[v]
          /\ UNCHANGED <<running, IS_UPDATING, strays, dropped>>
      BY <2>7 DEF Unpack, UpdateTo, ScriptTo, Waiting, UpdaterInv, UpdaterTypeOK
    <3>2. AtWork(u) /\ update'[u] \in Busy
      BY <3>1 DEF AtWork, Busy
    <3>3. strays' = {v \in strays : ~(update'[v] = "idle" /\ script'[v] = "none")}
      <4>1. \A v \in strays : ~(update'[v] = "idle" /\ script'[v] = "none")
        BY <3>1 DEF UpdaterInv, UpdaterTypeOK, Ended
      <4>2. QED
        BY <3>1, <4>1
    <3>4. OneStep(u)
      BY <3>1, <3>2, <3>3 DEF OneStep
    <3>5. QED
      BY <3>4, OneStepKeeps
  <2>8. ASSUME NEW u \in Updates, FailUnpack(u) PROVE UpdaterInv'
    <3>1. /\ update[u] \in Unpacking /\ Afterwards(u, FALSE)
          /\ UNCHANGED <<running, script, dropped>>
          /\ strays' = {v \in strays : ~(update'[v] = "idle" /\ script'[v] = "none")}
      BY <2>8 DEF FailUnpack, StraysAmong, Ended
    <3>2. AtWork(u) /\ script'[u] = "none"
      BY <3>1 DEF AtWork, Busy, UpdaterInv, Unpacking, Waiting
    <3>3. QED
      BY <3>1, <3>2, AfterwardsKeeps
  <2>9. ASSUME NEW u \in Updates, BeginCopy(u) PROVE UpdaterInv'
    <3>1. OneStep(u)
      BY <2>9 DEF BeginCopy, OneStep, Own, UpdaterInv, UpdaterTypeOK, AtWork, Ended,
         UpdateTo, ScriptTo, StraysAmong, Busy, Unpacking, Waiting, Copying
    <3>2. QED
      BY <3>1, OneStepKeeps
  <2>10. ASSUME NEW u \in Updates, EndCopy(u) PROVE UpdaterInv'
    <3>1. OneStep(u)
      BY <2>10 DEF EndCopy, OneStep, Own, UpdaterInv, UpdaterTypeOK, AtWork, Ended,
         UpdateTo, ScriptTo, StraysAmong, Busy, Unpacking, Waiting, Copying
    <3>2. QED
      BY <3>1, OneStepKeeps
  <2>11. ASSUME NEW u \in Updates, Install(u) PROVE UpdaterInv'
    <3>1. ScriptOver(u, TRUE) /\ script[u] # "none" /\ UNCHANGED <<running, dropped>>
      BY <2>11 DEF Install, Copying
    <3>2. QED
      BY <3>1, ScriptOverKeeps
  <2>12. ASSUME NEW u \in Updates, FailInstall(u) PROVE UpdaterInv'
    <3>1. ScriptOver(u, FALSE) /\ script[u] # "none" /\ UNCHANGED <<running, dropped>>
      BY <2>12 DEF FailInstall, Copying
    <3>2. QED
      BY <3>1, ScriptOverKeeps
  <2>13. ASSUME NEW u \in Updates, NoRestart(u) PROVE UpdaterInv'
    <3>1. OneStep(u)
      BY <2>13 DEF NoRestart, Flag, OneStep, Own, UpdaterInv, UpdaterTypeOK, AtWork, Ended,
         UpdateTo, ScriptTo, StraysAmong, Busy, Unpacking, Waiting, Copying
    <3>2. QED
      BY <3>1, OneStepKeeps
  <2>14. ASSUME NEW u \in Updates, EndTask(u) PROVE UpdaterInv'
    <3>1. OneStep(u)
      BY <2>14 DEF EndTask, OneStep, Own, UpdaterInv, UpdaterTypeOK, AtWork, Ended,
         UpdateTo, ScriptTo, StraysAmong, Busy, Unpacking, Waiting, Copying
    <3>2. QED
      BY <3>1, OneStepKeeps
  <2>15. ASSUME NEW u \in Updates, StartOffline(u) \/ StartOnline(u) PROVE UpdaterInv'
    <3>1. /\ Ended(u) /\ running /\ ~IS_UPDATING /\ IS_UPDATING'
          /\ \E step \in Busy \ Waiting : update' = [update EXCEPT ![u] = step]
          /\ UNCHANGED <<running, script, strays>>
      BY <2>15 DEF StartOffline, StartOnline, Claim, UpdateTo, Busy, Waiting, Unpacking
    <3>2. u \notin strays /\ script[u] = "none"
      BY <3>1 DEF UpdaterInv, Ended
    <3>3. \A v \in Updates \ strays : ~AtWork(v)
      BY <3>1 DEF UpdaterInv, UpdatesApart
    <3>4. \A v \in Updates \ {u} : AtWork(v)' <=> AtWork(v)
      BY <3>1 DEF AtWork
    <3>5. update'[u] \in Busy \ Waiting /\ \A v \in Updates \ {u} : update'[v] = update[v]
      BY <3>1 DEF UpdaterInv, UpdaterTypeOK
    <3>6. UpdatesApart'
      BY <3>1, <3>2, <3>3, <3>4, <3>5 DEF UpdatesApart
    <3>7. /\ \A v \in Updates : update'[v] \in Waiting => script'[v] # "none"
          /\ \A v \in Updates : script'[v] # "none" => update'[v] \in Waiting \cup {"idle"}
      BY <3>1, <3>2, <3>5 DEF UpdaterInv
    <3>8. \A v \in Updates \ strays' : running' /\ script'[v] # "none" => update'[v] \in Waiting
      BY <3>1, <3>2, <3>5 DEF UpdaterInv
    <3>9. \A v \in strays' : ~Ended(v)'
      BY <3>1, <3>2, <3>5 DEF UpdaterInv, UpdaterTypeOK, Ended
    <3>10. QED
      BY <3>1, <3>6, <3>7, <3>8, <3>9 DEF UpdaterInv
  <2>16. ASSUME NEW u \in Updates, StopService(u) PROVE UpdaterInv'
    <3>1. CASE Stop
      BY <2>16, <3>1 DEF StopService, Stop, UpdaterInv, UpdatesApart, UpdaterTypeOK, AtWork, Ended, ScriptTo
    <3>2. CASE UNCHANGED <<running, IS_UPDATING, dropped>>
      <4>1. OneStep(u)
        BY <2>16, <3>2 DEF StopService, OneStep, Own, UpdaterInv, UpdaterTypeOK, AtWork, Ended, ScriptTo,
           Waiting, Busy
      <4>2. QED
        BY <4>1, OneStepKeeps
    <3>3. QED
      BY <2>16, <3>1, <3>2 DEF StopService
  <2>17. ASSUME NEW u \in Updates, StartService(u) PROVE UpdaterInv'
    <3>1. script[u] = "start" /\ script' = [script EXCEPT ![u] = "end"] /\ UNCHANGED update
      BY <2>17 DEF StartService, ScriptTo
    <3>2. \/ UNCHANGED <<running, IS_UPDATING, strays, dropped>>
          \/ /\ running' = TRUE
             /\ strays' = {v \in IF running THEN strays ELSE Updates :
                              ~(update'[v] = "idle" /\ script'[v] = "none")}
             /\ UNCHANGED <<IS_UPDATING, dropped>>
      BY <2>17 DEF StartService, Start, StraysAmong, Ended
    <3>3. CASE running = running' /\ UNCHANGED <<IS_UPDATING, dropped>>
      <4>1. strays' = {v \in strays : ~(update'[v] = "idle" /\ script'[v] = "none")}
        BY <3>1, <3>2, <3>3 DEF UpdaterInv, UpdaterTypeOK, Ended
      <4>2. OneStep(u)
        <5>1. /\ script[u] # "none" /\ script'[u] # "none" /\ update' = update
              /\ \A v \in Updates \ {u} : script'[v] = script[v]
          BY <3>1 DEF UpdaterInv, UpdaterTypeOK
        <5>2. AtWork(u) /\ update[u] \in Waiting \cup {"idle"} /\ (Own(u) => update[u] \in Waiting)
          BY <5>1 DEF AtWork, Own, UpdaterInv
        <5>3. QED
          BY <3>3, <4>1, <5>1, <5>2 DEF OneStep, Own, Busy
      <4>3. QED
        BY <4>2, OneStepKeeps
    <3>4. CASE running # running'
      <4>1. /\ ~running /\ UNCHANGED IS_UPDATING
            /\ strays' = {v \in Updates : ~(update'[v] = "idle" /\ script'[v] = "none")}
        BY <3>2, <3>4 DEF UpdaterInv, UpdaterTypeOK
      <4>2. ~IS_UPDATING'
        BY <4>1 DEF UpdaterInv
      <4>3. /\ \A v \in Updates : update'[v] \in Waiting => script'[v] # "none"
            /\ \A v \in Updates : script'[v] # "none" => update'[v] \in Waiting \cup {"idle"}
        BY <3>1 DEF UpdaterInv, UpdaterTypeOK
      <4>4. QED
        BY <4>1, <4>2, <4>3, NothingBegun
    <3>5. QED
      BY <3>2, <3>3, <3>4
  <2>18. ASSUME Restart, UNCHANGED script,
               UNCHANGED update \/ \E u \in Updates : update' = [update EXCEPT ![u] = "idle"]
        PROVE  UpdaterInv'
    <3>1. \A u \in Updates : update'[u] \in Waiting => update[u] \in Waiting
      BY <2>18 DEF UpdaterInv, UpdaterTypeOK, Waiting
    <3>2. CASE running'
      <4>1. strays' = {v \in Updates : ~(update'[v] = "idle" /\ script'[v] = "none")} /\ ~IS_UPDATING'
        BY <2>18, <3>2 DEF Restart, StraysAmong, Ended
      <4>2. /\ \A v \in Updates : update'[v] \in Waiting => script'[v] # "none"
            /\ \A v \in Updates : script'[v] # "none" => update'[v] \in Waiting \cup {"idle"}
        BY <2>18, <3>1 DEF UpdaterInv, UpdaterTypeOK
      <4>3. QED
        BY <4>1, <4>2, NothingBegun
    <3>3. CASE ~running'
      <4>1. strays' = {v \in strays : ~Ended(v)'} /\ ~IS_UPDATING'
        BY <2>18, <3>3 DEF Restart, StraysAmong
      <4>2. \A v \in Updates : AtWork(v)' => AtWork(v) /\ ~Ended(v)'
        BY <2>18 DEF UpdaterInv, UpdaterTypeOK, AtWork, Ended, Busy, Waiting, Unpacking
      <4>3. UpdatesApart'
        BY <3>3, <4>1, <4>2 DEF UpdaterInv, UpdatesApart
      <4>4. /\ \A v \in Updates : update'[v] \in Waiting => script'[v] # "none"
            /\ \A v \in Updates : script'[v] # "none" => update'[v] \in Waiting \cup {"idle"}
        BY <2>18, <3>1 DEF UpdaterInv, UpdaterTypeOK
      <4>5. \A v \in strays' : ~Ended(v)'
        BY <4>1
      <4>6. QED
        BY <3>3, <4>1, <4>3, <4>4, <4>5 DEF UpdaterInv
    <3>4. QED
      BY <3>2, <3>3
  <2>19. ASSUME NEW u \in Updates, RestartAfter(u) PROVE UpdaterInv'
    BY <2>18, <2>19 DEF RestartAfter, UpdateTo
  <2>20. CASE RestartOutside
    BY <2>18, <2>20 DEF RestartOutside
  <2>21. CASE PowerCycle
    BY <2>21 DEF PowerCycle, UpdaterInv, UpdatesApart, AtWork, Ended, Busy, Unpacking, Waiting
  <2>22. CASE UNCHANGED updater
    BY <2>22 DEF updater, UpdaterInv, UpdatesApart, UpdaterTypeOK, AtWork, Ended
  <2>23. QED
    BY <2>1, <2>2, <2>3, <2>4, <2>5, <2>6, <2>7, <2>8, <2>9, <2>10, <2>11,
       <2>12, <2>13, <2>14, <2>15, <2>16, <2>17, <2>18, <2>19, <2>20, <2>21, <2>22 DEF UpdaterNext
<1>3. QED
  BY <1>1, <1>2, UpdaterTypeCorrect, PTL DEF UpdaterSpec

(* Updates of one server are never at work together.                       *)
THEOREM UpdatesApartInvariant == UpdaterSpec => []UpdatesApart
BY UpdaterInvariant, PTL DEF UpdaterInv

(* What holds beside ProgramWhole: only strays copy together. *)
CopyInv == ProgramWhole /\ ((\E u \in Updates : script[u] = "mixing") => excuse)

(* A half replaced program is the work of an install.sh that failed, lost  *)
(* its power or ran beside a stray's (application.rs 369-375, install.sh   *)
(* 67-74).  Two that copy together are at work together, and then          *)
(* UpdaterInv makes one a stray.                                           *)
THEOREM ProgramWholeInvariant == UpdaterSpec => []ProgramWhole
<1>1. UpdaterInit => CopyInv
  BY DEF UpdaterInit, CopyInv, ProgramWhole
<1>2. UpdaterInv /\ CopyInv /\ [UpdaterNext]_updater => CopyInv'
  <2> SUFFICES ASSUME UpdaterInv, CopyInv, [UpdaterNext]_updater PROVE CopyInv'
    OBVIOUS
  <2> USE DEF CopyInv, ProgramWhole, UpdaterInv, UpdaterTypeOK, UpdateTo, ScriptTo, Copying
  <2>1. ASSUME NEW u \in Updates, StartOffline(u) PROVE CopyInv'
    BY <2>1 DEF StartOffline, Claim
  <2>2. ASSUME NEW u \in Updates, RefuseOffline(u) PROVE CopyInv'
    BY <2>2 DEF RefuseOffline, Flag
  <2>3. ASSUME NEW u \in Updates, HangUpOffline(u) PROVE CopyInv'
    BY <2>3 DEF HangUpOffline
  <2>4. ASSUME NEW u \in Updates, StoreOffline(u) PROVE CopyInv'
    BY <2>4 DEF StoreOffline
  <2>5. ASSUME NEW u \in Updates, StartOnline(u) PROVE CopyInv'
    BY <2>5 DEF StartOnline, Claim
  <2>6. ASSUME NEW u \in Updates, Wipe(u) PROVE CopyInv'
    BY <2>6 DEF Wipe
  <2>7. ASSUME NEW u \in Updates, Fetch(u) PROVE CopyInv'
    BY <2>7 DEF Fetch
  <2>8. ASSUME NEW u \in Updates, FailFetch(u) PROVE CopyInv'
    BY <2>8 DEF FailFetch, Flag
  <2>9. ASSUME NEW u \in Updates, Unpack(u) PROVE CopyInv'
    <3>1. script[u] = "none"
      BY <2>9 DEF Unpack, Unpacking, Waiting
    <3>2. \A v \in Updates : script'[v] \in Copying <=> script[v] \in Copying
      BY <2>9, <3>1 DEF Unpack
    <3>3. \A v \in Updates : script'[v] = "mixing" => script[v] = "mixing"
      BY <2>9 DEF Unpack
    <3>4. UNCHANGED <<program, excuse>>
      BY <2>9 DEF Unpack
    <3>5. QED
      BY <3>2, <3>3, <3>4
  <2>10. ASSUME NEW u \in Updates, FailUnpack(u) PROVE CopyInv'
    BY <2>10 DEF FailUnpack, Afterwards, Flag
  <2>11. ASSUME NEW u \in Updates, StopService(u) PROVE CopyInv'
    BY <2>11 DEF StopService, Stop
  <2>12. ASSUME NEW u \in Updates, BeginCopy(u) PROVE CopyInv'
    <3> DEFINE others == {v \in Updates \ {u} : script[v] \in Copying}
    <3>1. script[u] = "copy" /\ script'[u] \in Copying
      BY <2>12 DEF BeginCopy
    <3>2. ASSUME others = {} PROVE \A v \in Updates : script'[v] # "mixing"
      BY <2>12, <3>2 DEF BeginCopy
    <3>3. ASSUME others # {} PROVE excuse'
      <4>1. PICK v \in Updates \ {u} : script[v] \in Copying
        BY <3>3
      <4>2. AtWork(u) /\ AtWork(v)
        BY <3>1, <4>1 DEF AtWork
      <4>3. u \in strays \/ v \in strays
        BY <4>1, <4>2 DEF UpdatesApart
      <4>4. QED
        BY <2>12, <3>3, <4>1, <4>3 DEF BeginCopy
    <3>4. QED
      BY <3>1, <3>2, <3>3
  <2>13. ASSUME NEW u \in Updates, EndCopy(u) PROVE CopyInv'
    BY <2>13 DEF EndCopy
  <2>14. ASSUME NEW u \in Updates, StartService(u) PROVE CopyInv'
    BY <2>14 DEF StartService, Start
  <2>15. ASSUME NEW u \in Updates, Install(u) PROVE CopyInv'
    BY <2>15 DEF Install, ScriptOver, Afterwards, Flag
  <2>16. ASSUME NEW u \in Updates, FailInstall(u) PROVE CopyInv'
    BY <2>16 DEF FailInstall, ScriptOver, Afterwards, Flag
  <2>17. ASSUME NEW u \in Updates, RestartAfter(u) PROVE CopyInv'
    BY <2>17 DEF RestartAfter, Restart
  <2>18. ASSUME NEW u \in Updates, NoRestart(u) PROVE CopyInv'
    BY <2>18 DEF NoRestart, Flag
  <2>19. ASSUME NEW u \in Updates, EndTask(u) PROVE CopyInv'
    BY <2>19 DEF EndTask
  <2>20. CASE RestartOutside
    BY <2>20 DEF RestartOutside, Restart
  <2>21. CASE PowerCycle
    BY <2>21 DEF PowerCycle
  <2>22. CASE UNCHANGED updater
    BY <2>22 DEF updater
  <2>23. QED
    BY <2>1, <2>2, <2>3, <2>4, <2>5, <2>6, <2>7, <2>8, <2>9, <2>10, <2>11,
       <2>12, <2>13, <2>14, <2>15, <2>16, <2>17, <2>18, <2>19, <2>20, <2>21, <2>22
       DEF UpdaterNext
<1>3. CopyInv => ProgramWhole
  BY DEF CopyInv
<1>4. QED
  BY <1>1, <1>2, <1>3, UpdaterInvariant, PTL DEF UpdaterSpec

-----------------------------------------------------------------------------
(* Download *)

(* Every reachable state of the sentinel and the transfers (download.rs)   *)
(* has its types.                                                          *)
THEOREM DownloadTypeCorrect == DownloadSpec => []DownloadTypeOK
<1>1. DownloadInit => DownloadTypeOK
  BY DEF DownloadInit, DownloadTypeOK, Transfers
<1>2. DownloadTypeOK /\ [DownloadNext]_download => DownloadTypeOK'
  <2> SUFFICES ASSUME DownloadTypeOK, [DownloadNext]_download PROVE DownloadTypeOK'
    OBVIOUS
  <2> USE DEF DownloadTypeOK, LoadTo, Transfers, Unmark, Others
  <2>1. ASSUME NEW l \in Loads,
               \/ \E step \in {"upload", "checking"} : StartLoad(l, step)
               \/ UrlChecked(l) \/ Mark(l) \/ Progress(l) \/ End(l)
        PROVE  DownloadTypeOK'
    BY <2>1 DEF StartLoad, UrlChecked, Mark, Progress, End
  <2>2. ASSUME NEW l \in Loads, Refuse(l) \/ HangUpMarking(l) \/ HangUpUpload(l)
        PROVE  DownloadTypeOK'
    BY <2>2 DEF Refuse, HangUpMarking, HangUpUpload
  <2>3. CASE RestartLoads
    BY <2>3 DEF RestartLoads
  <2>4. CASE UNCHANGED download
    BY <2>4 DEF download
  <2>5. QED
    BY <2>1, <2>2, <2>3, <2>4 DEF DownloadNext
<1>3. QED
  BY <1>1, <1>2, PTL DEF DownloadSpec

(* What holds beside SentinelTells: requests that were not let in together *)
(* come one at a time.                                                     *)
OneLoad == ~unmarked => \A k, l \in Loads : load[k] # "idle" /\ load[l] # "idle" => k = l

SentinelInv == DownloadTypeOK /\ SentinelTells /\ OneLoad

(* Whoever leaves a sentinel behind is known, and a marked transfer has    *)
(* one (download.rs 92, 183-200).                                          *)
THEOREM SentinelInvariant == DownloadSpec => []SentinelTells
<1>1. DownloadInit => SentinelInv
  <2> SUFFICES ASSUME DownloadInit PROVE SentinelInv
    OBVIOUS
  <2>1. DownloadTypeOK
    BY DEF DownloadInit, DownloadTypeOK, Transfers
  <2>2. sentinel => abandoned
    BY DEF DownloadInit
  <2>3. \A l \in Loads : load[l] \notin Transfers
    BY DEF DownloadInit, Transfers
  <2>4. OneLoad
    BY DEF DownloadInit, OneLoad
  <2>5. QED
    BY <2>1, <2>2, <2>3, <2>4 DEF SentinelInv, SentinelTells
<1>2. SentinelInv /\ DownloadTypeOK' /\ [DownloadNext]_download => SentinelInv'
  <2> SUFFICES ASSUME SentinelInv, DownloadTypeOK', [DownloadNext]_download
               PROVE  SentinelTells' /\ OneLoad'
    BY DEF SentinelInv
  <2> USE DEF SentinelInv, DownloadTypeOK, SentinelTells, OneLoad, LoadTo, Transfers, Unmark, Others
  <2>1. ASSUME NEW l \in Loads, NEW step \in {"upload", "checking"}, StartLoad(l, step)
        PROVE  SentinelTells' /\ OneLoad'
    BY <2>1 DEF StartLoad
  <2>2. ASSUME NEW l \in Loads, UrlChecked(l)
        PROVE  SentinelTells' /\ OneLoad'
    BY <2>2 DEF UrlChecked
  <2>3. ASSUME NEW l \in Loads, Mark(l)
        PROVE  SentinelTells' /\ OneLoad'
    BY <2>3 DEF Mark
  <2>4. ASSUME NEW l \in Loads, Progress(l) \/ End(l)
        PROVE  SentinelTells' /\ OneLoad'
    BY <2>4 DEF Progress, End
  <2>5. ASSUME NEW l \in Loads, Refuse(l) \/ HangUpMarking(l) \/ HangUpUpload(l)
        PROVE  SentinelTells' /\ OneLoad'
    BY <2>5 DEF Refuse, HangUpMarking, HangUpUpload
  <2>6. CASE RestartLoads
    BY <2>6 DEF RestartLoads
  <2>7. CASE UNCHANGED download
    BY <2>7 DEF download
  <2>8. QED
    BY <2>1, <2>2, <2>3, <2>4, <2>5, <2>6, <2>7 DEF DownloadNext
<1>3. SentinelInv => SentinelTells
  BY DEF SentinelInv
<1>4. QED
  BY <1>1, <1>2, <1>3, DownloadTypeCorrect, PTL DEF DownloadSpec

-----------------------------------------------------------------------------
(* Ethernet *)

(* Every reachable state of the wired interface and its files              *)
(* (network/src/lib.rs) has its types.                                     *)
THEOREM EthernetTypeCorrect == EthernetSpec => []EthernetTypeOK
<1>1. EthernetInit => EthernetTypeOK
  BY DEF EthernetInit, EthernetTypeOK, Modes, Contents
<1>2. EthernetTypeOK /\ [EthernetNext]_ethernet => EthernetTypeOK'
  <2> SUFFICES ASSUME EthernetTypeOK, [EthernetNext]_ethernet PROVE EthernetTypeOK'
    OBVIOUS
  <2> USE DEF EthernetTypeOK, ChangeTo, Contents
  <2>1. ASSUME NEW c \in Changes, NEW mode \in Modes, StartChange(c, mode) PROVE EthernetTypeOK'
    BY <2>1 DEF StartChange
  <2>2. ASSUME NEW c \in Changes, OpenAddress(c) PROVE EthernetTypeOK'
    BY <2>2 DEF OpenAddress
  <2>3. ASSUME NEW c \in Changes, SetAddress(c) PROVE EthernetTypeOK'
    BY <2>3 DEF SetAddress
  <2>4. ASSUME NEW c \in Changes, RemoveAddress(c) PROVE EthernetTypeOK'
    BY <2>4 DEF RemoveAddress
  <2>5. ASSUME NEW c \in Changes, KeepAddress(c) PROVE EthernetTypeOK'
    BY <2>5 DEF KeepAddress
  <2>6. ASSUME NEW c \in Changes, SetDns(c) PROVE EthernetTypeOK'
    BY <2>6 DEF SetDns
  <2>7. ASSUME NEW c \in Changes, OpenConfig(c) PROVE EthernetTypeOK'
    BY <2>7 DEF OpenConfig
  <2>8. ASSUME NEW c \in Changes, SaveConfig(c) PROVE EthernetTypeOK'
    BY <2>8 DEF SaveConfig
  <2>9. ASSUME NEW c \in Changes, EndEarly(c) PROVE EthernetTypeOK'
    BY <2>9 DEF EndEarly, Writing
  <2>10. ASSUME NEW c \in Changes, StopEthernet(c) PROVE EthernetTypeOK'
    BY <2>10 DEF StopEthernet
  <2>11. ASSUME NEW c \in Changes, StartEthernet(c) PROVE EthernetTypeOK'
    BY <2>11 DEF StartEthernet
  <2>12. ASSUME NEW c \in Changes, NoStart(c) PROVE EthernetTypeOK'
    BY <2>12 DEF NoStart
  <2>13. CASE EndChanges
    BY <2>13 DEF EndChanges, Writing
  <2>14. CASE Reboot
    BY <2>14 DEF Reboot, Writing
  <2>15. CASE UNCHANGED ethernet
    BY <2>15 DEF ethernet
  <2>16. QED
    BY <2>1, <2>2, <2>3, <2>4, <2>5, <2>6, <2>7, <2>8, <2>9, <2>10, <2>11, <2>12, <2>13, <2>14, <2>15 DEF EthernetNext
<1>3. QED
  BY <1>1, <1>2, PTL DEF EthernetSpec

(* Changes that have touched a file and whose restart is not over. *)
Pending == {c \in Changes : change[c] \in Writing \cup {"waiting", "stopped"}}

(* EthernetApplied speaks of moments at which nothing is pending.  At the  *)
(* others the pending change will apply the file; and a change that is     *)
(* alone finds the files it opened empty, and has written what it will     *)
(* save.                                                                   *)
EthernetInv ==
    /\ EthernetTypeOK
    /\ skipped \/ eth = nodhcp \/ Pending # {}
    /\ ~uneven =>
          /\ \A b, c \in Changes : change[b] # "idle" /\ change[c] # "idle" => b = c
          /\ \A c \in Changes : change[c] = "writing" => nodhcp = "garbled"
          /\ \A c \in Changes : change[c] \in {"dns", "save", "saving"} => asks[c] = nodhcp
          /\ \A c \in Changes : change[c] = "saving" => saved = "garbled"
          /\ saved = nodhcp \/ \E c \in Changes : change[c] \in Writing

(* The interface is what the file of the last change says, and the page    *)
(* shows it (network/src/lib.rs 505-533, 585-603).                         *)
THEOREM EthernetInvariant == EthernetSpec => []EthernetApplied
<1>1. EthernetInit => EthernetInv
  BY DEF EthernetInit, EthernetInv, EthernetTypeOK, Modes, Contents
<1>2. EthernetInv /\ EthernetTypeOK' /\ [EthernetNext]_ethernet => EthernetInv'
  <2> SUFFICES ASSUME EthernetInv, EthernetTypeOK', [EthernetNext]_ethernet
               PROVE  EthernetInv'
    OBVIOUS
  <2> USE DEF EthernetInv, EthernetTypeOK, Pending, Writing, ChangeTo
  <2>1. ASSUME NEW c \in Changes, NEW mode \in Modes, StartChange(c, mode) PROVE EthernetInv'
    BY <2>1 DEF StartChange
  <2>2. ASSUME NEW c \in Changes, OpenAddress(c) PROVE EthernetInv'
    BY <2>2 DEF OpenAddress
  <2>3. ASSUME NEW c \in Changes, SetAddress(c) PROVE EthernetInv'
    BY <2>3 DEF SetAddress
  <2>4. ASSUME NEW c \in Changes, RemoveAddress(c) PROVE EthernetInv'
    BY <2>4 DEF RemoveAddress
  <2>5. ASSUME NEW c \in Changes, KeepAddress(c) PROVE EthernetInv'
    BY <2>5 DEF KeepAddress
  <2>6. ASSUME NEW c \in Changes, SetDns(c) PROVE EthernetInv'
    BY <2>6 DEF SetDns
  <2>7. ASSUME NEW c \in Changes, OpenConfig(c) PROVE EthernetInv'
    BY <2>7 DEF OpenConfig
  <2>8. ASSUME NEW c \in Changes, SaveConfig(c) PROVE EthernetInv'
    BY <2>8 DEF SaveConfig
  <2>9. ASSUME NEW c \in Changes, EndEarly(c) PROVE EthernetInv'
    BY <2>9 DEF EndEarly, Writing
  <2>10. ASSUME NEW c \in Changes, StopEthernet(c) PROVE EthernetInv'
    BY <2>10 DEF StopEthernet
  <2>11. ASSUME NEW c \in Changes, StartEthernet(c) PROVE EthernetInv'
    BY <2>11 DEF StartEthernet
  <2>12. ASSUME NEW c \in Changes, NoStart(c) PROVE EthernetInv'
    BY <2>12 DEF NoStart
  <2>13. CASE EndChanges
    BY <2>13 DEF EndChanges, Writing
  <2>14. CASE Reboot
    BY <2>14 DEF Reboot, Writing
  <2>15. CASE UNCHANGED ethernet
    BY <2>15 DEF ethernet
  <2>16. QED
    BY <2>1, <2>2, <2>3, <2>4, <2>5, <2>6, <2>7, <2>8, <2>9, <2>10, <2>11, <2>12, <2>13, <2>14, <2>15 DEF EthernetNext
<1>3. EthernetInv => EthernetApplied
  BY DEF EthernetInv, EthernetApplied, Pending, Writing, EthernetTypeOK
<1>4. QED
  BY <1>1, <1>2, <1>3, EthernetTypeCorrect, PTL DEF EthernetSpec

-----------------------------------------------------------------------------
(* VirtualMedia *)

(* Every reachable state of the gadget and its mounts                      *)
(* (storage/src/lib.rs) has its types.                                     *)
THEOREM MediaTypeCorrect == MediaSpec => []MediaTypeOK
<1>1. MediaInit => MediaTypeOK
  <2>1. NoRequest \in Request
    BY DEF NoRequest, Request, Files
  <2>2. QED
    BY <2>1 DEF MediaInit, MediaTypeOK
<1>2. MediaTypeOK /\ [MediaNext]_media => MediaTypeOK'
  <2> SUFFICES ASSUME MediaTypeOK, [MediaNext]_media PROVE MediaTypeOK'
    OBVIOUS
  <2> USE DEF MediaTypeOK, GoTo, gadget, Request
  <2>1. ASSUME NEW m \in Mounts, NEW image \in Files, NEW cd \in BOOLEAN, StartMount(m, image, cd)
        PROVE  MediaTypeOK'
    BY <2>1 DEF StartMount
  <2>2. ASSUME NEW m \in Mounts, Detach(m) PROVE MediaTypeOK'
    BY <2>2 DEF Detach
  <2>3. ASSUME NEW m \in Mounts, SetRo(m) PROVE MediaTypeOK'
    BY <2>3 DEF SetRo
  <2>4. ASSUME NEW m \in Mounts, SetCdrom(m) PROVE MediaTypeOK'
    BY <2>4 DEF SetCdrom
  <2>5. ASSUME NEW m \in Mounts, SetInquiry(m) PROVE MediaTypeOK'
    BY <2>5 DEF SetInquiry
  <2>6. ASSUME NEW m \in Mounts, Attach(m) PROVE MediaTypeOK'
    BY <2>6 DEF Attach
  <2>7. ASSUME NEW m \in Mounts, Unbind(m) PROVE MediaTypeOK'
    BY <2>7 DEF Unbind
  <2>8. ASSUME NEW m \in Mounts, Bind(m) PROVE MediaTypeOK'
    BY <2>8 DEF Bind
  <2>9. ASSUME NEW m \in Mounts, GiveUp(m) PROVE MediaTypeOK'
    BY <2>9 DEF GiveUp
  <2>10. CASE UNCHANGED media
    BY <2>10 DEF media, gadget
  <2>11. QED
    BY <2>1, <2>2, <2>3, <2>4, <2>5, <2>6, <2>7, <2>8, <2>9, <2>10 DEF MediaNext
<1>3. QED
  BY <1>1, <1>2, PTL DEF MediaSpec

(* What the writes of request m have done so far: the old file is out and  *)
(* the flags before its next write are those it wants.                     *)
Done(m) ==
    /\ at[m] \in {"ro", "cdrom", "inquiry", "attach"} => file = "empty"
    /\ at[m] \in {"cdrom", "inquiry", "attach"} =>
          ro = (wants[m].cdrom \/ wants[m].image = "none")
    /\ at[m] \in {"inquiry", "attach"} => cdrom = wants[m].cdrom
    /\ at[m] = "attach" => inquiry = wants[m].cdrom

MediaInv ==
    /\ MediaTypeOK
    /\ MediaConsistent
    /\ ~mixed =>
          /\ \A m, n \in Mounts : at[m] # "idle" /\ at[n] # "idle" => m = n
          /\ \A m \in Mounts : Done(m)

(* An attached image is the medium its own request asked for               *)
(* (storage/src/lib.rs 52-74).                                             *)
THEOREM MediaInvariant == MediaSpec => []MediaConsistent
<1>1. MediaInit => MediaInv
  <2>1. MediaInit => MediaTypeOK
    <3>1. NoRequest \in Request
      BY DEF NoRequest, Request, Files
    <3>2. QED
      BY <3>1 DEF MediaInit, MediaTypeOK
  <2>2. QED
    BY <2>1 DEF MediaInit, MediaInv, MediaConsistent, Done
<1>2. MediaInv /\ MediaTypeOK' /\ [MediaNext]_media => MediaInv'
  <2> SUFFICES ASSUME MediaInv, MediaTypeOK', [MediaNext]_media
               PROVE  MediaInv'
    OBVIOUS
  <2> USE DEF MediaInv, MediaTypeOK, MediaConsistent, Done, GoTo, Alone, gadget, Request
  <2>1. ASSUME NEW m \in Mounts, NEW image \in Files, NEW cd \in BOOLEAN, StartMount(m, image, cd)
        PROVE  MediaInv'
    <3>1. MediaConsistent'
      BY <2>1 DEF StartMount
    <3>2. ASSUME ~mixed'
          PROVE  /\ ~mixed
                 /\ \A n \in Mounts \ {m} : at[n] = "idle"
                 /\ at' = [at EXCEPT ![m] = "detach"]
                 /\ \A n \in Mounts \ {m} : wants'[n] = wants[n]
                 /\ UNCHANGED gadget
      BY <2>1, <3>2 DEF StartMount
    <3>3. ASSUME ~mixed' PROVE \A n \in Mounts : Done(n)'
      BY <3>2, <3>3
    <3>4. ASSUME ~mixed'
          PROVE  \A k, n \in Mounts : at'[k] # "idle" /\ at'[n] # "idle" => k = n
      BY <3>2, <3>4
    <3>5. QED
      BY <3>1, <3>3, <3>4
  <2>2. ASSUME NEW m \in Mounts, Detach(m) PROVE MediaInv'
    BY <2>2 DEF Detach
  <2>3. ASSUME NEW m \in Mounts, SetRo(m) PROVE MediaInv'
    BY <2>3 DEF SetRo
  <2>4. ASSUME NEW m \in Mounts, SetCdrom(m) PROVE MediaInv'
    BY <2>4 DEF SetCdrom
  <2>5. ASSUME NEW m \in Mounts, SetInquiry(m) PROVE MediaInv'
    BY <2>5 DEF SetInquiry
  <2>6. ASSUME NEW m \in Mounts, Attach(m) PROVE MediaInv'
    BY <2>6 DEF Attach
  <2>7. ASSUME NEW m \in Mounts, Unbind(m) PROVE MediaInv'
    BY <2>7 DEF Unbind
  <2>8. ASSUME NEW m \in Mounts, Bind(m) PROVE MediaInv'
    BY <2>8 DEF Bind
  <2>9. ASSUME NEW m \in Mounts, GiveUp(m) PROVE MediaInv'
    BY <2>9 DEF GiveUp
  <2>10. CASE UNCHANGED media
    BY <2>10 DEF media, gadget
  <2>11. QED
    BY <2>1, <2>2, <2>3, <2>4, <2>5, <2>6, <2>7, <2>8, <2>9, <2>10 DEF MediaNext
<1>3. MediaInv => MediaConsistent
  BY DEF MediaInv
<1>4. QED
  BY <1>1, <1>2, <1>3, MediaTypeCorrect, PTL DEF MediaSpec

-----------------------------------------------------------------------------
(* Tailscale *)

LEMMA NextVersion == ASSUME NEW v \in Versions, v < MaxVersion PROVE v + 1 \in Versions
BY TailscaleAssumption DEF TailscaleAssumption, Versions

LEMMA WholeVersions == None # Broken /\ 1 # Broken /\ \A v \in Versions : v # Broken
BY TailscaleAssumption DEF TailscaleAssumption, None, Broken, Versions

(* What unfinished steps leave. *)
LEMMA InterruptedLeaves ==
    ASSUME TailscaleTypeOK, NEW steps, Interrupted(steps)
    PROVE  /\ archive' \in Versions \cup {None}
           /\ unpacked' \subseteq Versions /\ cutShort' \subseteq unpacked'
           /\ cli' \in Programs /\ daemon' \in Programs
           /\ partial' \in BOOLEAN /\ leftover' \in BOOLEAN
           /\ ~leftover' =>
                 /\ ~leftover
                 /\ steps \cap {"unpack", "copy cli", "copy daemon", "clean"} = {}
                 /\ UNCHANGED <<unpacked, cutShort>>
           /\ ~partial' =>
                 /\ ~partial
                 /\ steps \cap {"copy daemon", "remove daemon"} = {}
                 /\ cli' # Broken /\ UNCHANGED <<cli, daemon>>
           /\ partial => partial'
<1> DEFINE remade == IF "unpack" \in steps THEN {archive} \ {None} ELSE {}
           removed == IF "clean" \in steps THEN unpacked ELSE {}
<1>1. /\ \/ UNCHANGED archive
         \/ steps \cap {"fetch", "clean"} # {} /\ archive' = None
      /\ \E more \in SUBSET remade, short \in SUBSET remade,
            gone \in SUBSET (remade \cup removed) :
            /\ unpacked' = (unpacked \cup more) \ gone
            /\ cutShort' = ((cutShort \ more) \cup short) \cap unpacked'
      /\ UNCHANGED cli \/ ("copy cli" \in steps /\ cli' = Broken)
      /\ UNCHANGED daemon \/ ("copy daemon" \in steps /\ daemon' = Broken)
      /\ partial' = (partial \/ cli' = Broken \/ steps \cap {"copy daemon", "remove daemon"} # {})
      /\ leftover' = (leftover \/ steps \cap {"unpack", "copy cli", "copy daemon", "clean"} # {})
  BY DEF Interrupted
<1>2. PICK more \in SUBSET remade, short \in SUBSET remade, gone \in SUBSET (remade \cup removed) :
          /\ unpacked' = (unpacked \cup more) \ gone
          /\ cutShort' = ((cutShort \ more) \cup short) \cap unpacked'
  BY <1>1
<1>3. remade \subseteq Versions
  BY DEF TailscaleTypeOK
<1>4. unpacked' \subseteq Versions /\ cutShort' \subseteq unpacked'
  <2> HIDE DEF remade, removed
  <2> QED
    BY <1>2, <1>3 DEF TailscaleTypeOK
<1>5. ASSUME ~leftover'
      PROVE  /\ ~leftover
             /\ steps \cap {"unpack", "copy cli", "copy daemon", "clean"} = {}
             /\ UNCHANGED <<unpacked, cutShort>>
  <2>1. ~leftover /\ steps \cap {"unpack", "copy cli", "copy daemon", "clean"} = {}
    BY <1>1, <1>5
  <2>2. remade = {} /\ removed = {}
    BY <2>1
  <2>3. unpacked' = unpacked /\ cutShort' = cutShort
    <3> HIDE DEF remade, removed
    <3> QED
      BY <2>2, <1>2 DEF TailscaleTypeOK
  <2>4. QED
    BY <2>1, <2>3
<1>6. cli' \in Programs /\ daemon' \in Programs /\ archive' \in Versions \cup {None}
  BY <1>1 DEF TailscaleTypeOK, Programs
<1>7. ASSUME ~partial'
      PROVE  /\ ~partial
             /\ steps \cap {"copy daemon", "remove daemon"} = {}
             /\ cli' # Broken /\ UNCHANGED <<cli, daemon>>
  BY <1>1, <1>7
<1>8. partial' \in BOOLEAN /\ leftover' \in BOOLEAN /\ (partial => partial')
  BY <1>1 DEF TailscaleTypeOK
<1>9. QED
  BY <1>4, <1>5, <1>6, <1>7, <1>8

(* Every reachable state of the programs and the workspace (tailscale.rs)  *)
(* has its types.                                                          *)
THEOREM TailscaleTypeCorrect == TailscaleSpec => []TailscaleTypeOK
<1> USE DEF None
<1>1. TailscaleInit => TailscaleTypeOK
  <2> SUFFICES ASSUME TailscaleInit PROVE TailscaleTypeOK
    OBVIOUS
  <2>1. newest \in Versions /\ cli \in Programs /\ daemon \in Programs
    BY TailscaleAssumption DEF TailscaleAssumption, TailscaleInit, Versions, Programs
  <2>2. QED
    BY <2>1 DEF TailscaleInit, TailscaleTypeOK
<1>2. TailscaleTypeOK /\ [TailscaleNext]_tailscale => TailscaleTypeOK'
  <2> SUFFICES ASSUME TailscaleTypeOK, [TailscaleNext]_tailscale PROVE TailscaleTypeOK'
    OBVIOUS
  <2> USE DEF TailscaleTypeOK, JobTo, workspace
  <2>1. ASSUME NEW j \in Jobs, NEW step \in {"fetch", "command", "remove cli"}, StartJob(j, step)
        PROVE  TailscaleTypeOK'
    BY <2>1 DEF StartJob
  <2>2. ASSUME NEW j \in Jobs, UpdateItself(j) PROVE TailscaleTypeOK'
    BY <2>2 DEF UpdateItself, Programs
  <2>3. ASSUME NEW j \in Jobs, UnknownCommand(j) PROVE TailscaleTypeOK'
    BY <2>3 DEF UnknownCommand
  <2>4. ASSUME NEW j \in Jobs, FetchArchive(j) PROVE TailscaleTypeOK'
    BY <2>4 DEF FetchArchive
  <2>5. ASSUME NEW j \in Jobs, UnpackArchive(j) PROVE TailscaleTypeOK'
    BY <2>5 DEF UnpackArchive
  <2>6. ASSUME NEW j \in Jobs, CopyCli(j) PROVE TailscaleTypeOK'
    BY <2>6 DEF CopyCli, CopyOf, Programs
  <2>7. ASSUME NEW j \in Jobs, NothingToCopy(j) PROVE TailscaleTypeOK'
    BY <2>7 DEF NothingToCopy
  <2>8. ASSUME NEW j \in Jobs, CopyDaemon(j) PROVE TailscaleTypeOK'
    BY <2>8 DEF CopyDaemon, CopyOf, Programs
  <2>9. ASSUME NEW j \in Jobs, Clean(j) PROVE TailscaleTypeOK'
    BY <2>9 DEF Clean
  <2>10. ASSUME NEW j \in Jobs, FailJob(j) PROVE TailscaleTypeOK'
    BY <2>10, InterruptedLeaves DEF FailJob
  <2>11. ASSUME NEW j \in Jobs, RemoveCli(j) PROVE TailscaleTypeOK'
    BY <2>11 DEF RemoveCli, Programs
  <2>12. ASSUME NEW j \in Jobs, RemoveDaemon(j) PROVE TailscaleTypeOK'
    BY <2>12 DEF RemoveDaemon, Programs
  <2>13. CASE EndJobs
    BY <2>13, InterruptedLeaves DEF EndJobs
  <2>14. CASE Publish
    <3>1. newest' \in Versions
      BY <2>14, NextVersion DEF Publish
    <3>2. QED
      BY <2>14, <3>1 DEF Publish
  <2>15. CASE UNCHANGED tailscale
    BY <2>15 DEF tailscale
  <2>16. QED
    BY <2>1, <2>2, <2>3, <2>4, <2>5, <2>6, <2>7, <2>8, <2>9, <2>10, <2>11, <2>12, <2>13, <2>14, <2>15 DEF TailscaleNext
<1>3. QED
  BY <1>1, <1>2, PTL DEF TailscaleSpec

(* Jobs whose archive is unpacked. *)
HasUnpacked(j) == job[j] \in {"copy cli", "copy daemon", "clean"}

(* One job alone copies what it fetched, and both programs of it, unless   *)
(* an earlier one left a directory cut short.                              *)
AloneInv ==
    ~met =>
        /\ \A i, j \in Jobs : job[i] # "idle" /\ job[j] # "idle" => i = j
        /\ \A j \in Jobs : job[j] = "copy daemon" =>
              (cli = source[j] /\ source[j] \notin cutShort) \/ (partial /\ leftover)
        /\ \A j \in Jobs : job[j] = "unpack" => archive = source[j]
        /\ ~partial => \A j \in Jobs : job[j] = "remove daemon" => cli = None

(* Without leftovers each unpacked version has a job that will remove it,  *)
(* and two versions have two jobs, also when jobs cross.                   *)
UnpackedInv ==
    ~leftover =>
        /\ cutShort = {}
        /\ \A v \in unpacked : \E j \in Jobs : HasUnpacked(j)
        /\ \A v, w \in unpacked :
              v # w => \E i, j \in Jobs : i # j /\ HasUnpacked(i) /\ HasUnpacked(j)

TailscaleInv == TailscaleTypeOK /\ BinariesMatch /\ AloneInv /\ UnpackedInv

(* The two programs are of one version (tailscale.rs 341-342, 700-701).    *)
(* UnpackedInv is what makes a job that is alone again copy its own        *)
(* archive, though others crossed it before.                               *)
THEOREM BinariesInvariant == TailscaleSpec => []BinariesMatch
<1>1. TailscaleTypeOK /\ TailscaleInit => TailscaleInv
  <2> SUFFICES ASSUME TailscaleTypeOK, TailscaleInit PROVE TailscaleInv
    OBVIOUS
  <2>1. cli # Broken
    BY WholeVersions DEF TailscaleInit
  <2>2. BinariesMatch
    BY <2>1 DEF TailscaleInit, BinariesMatch
  <2>3. QED
    BY <2>2 DEF TailscaleInit, TailscaleInv, AloneInv, UnpackedInv, HasUnpacked
<1>2. TailscaleInv /\ TailscaleTypeOK' /\ [TailscaleNext]_tailscale => AloneInv'
  <2> SUFFICES ASSUME TailscaleInv, TailscaleTypeOK', [TailscaleNext]_tailscale
               PROVE  AloneInv'
    OBVIOUS
  <2> USE DEF TailscaleInv, TailscaleTypeOK, AloneInv, JobTo, OnlyJob, workspace
  <2>1. ASSUME NEW j \in Jobs, NEW step \in {"fetch", "command", "remove cli"}, StartJob(j, step)
        PROVE  AloneInv'
    BY <2>1 DEF StartJob
  <2>2. ASSUME NEW j \in Jobs, UpdateItself(j) PROVE AloneInv'
    BY <2>2 DEF UpdateItself
  <2>3. ASSUME NEW j \in Jobs, UnknownCommand(j) PROVE AloneInv'
    BY <2>3 DEF UnknownCommand
  <2>4. ASSUME NEW j \in Jobs, FetchArchive(j) PROVE AloneInv'
    BY <2>4 DEF FetchArchive
  <2>5. ASSUME NEW j \in Jobs, UnpackArchive(j) PROVE AloneInv'
    BY <2>5 DEF UnpackArchive
  <2>6. ASSUME NEW j \in Jobs, CopyCli(j) PROVE AloneInv'
    <3>1. job' = [job EXCEPT ![j] = "copy daemon"] /\ UNCHANGED <<cutShort, leftover>>
      BY <2>6 DEF CopyCli
    <3>2. ASSUME ~met' PROVE \A i \in Jobs \ {j} : job[i] = "idle"
      BY <2>6, <3>2 DEF CopyCli
    <3>3. PICK v \in unpacked :
              /\ cli' \in CopyOf(v)
              /\ source' = [source EXCEPT ![j] = v]
              /\ partial' = (v \in cutShort \/ (partial /\ ~OnlyJob(j)))
      BY <2>6 DEF CopyCli
    <3>4. source'[j] = v
      BY <3>3
    <3>5. CASE v \in cutShort
      <4>1. partial' /\ leftover'
        BY <3>1, <3>3, <3>5 DEF UnpackedInv
      <4>2. QED
        BY <3>1, <3>2, <4>1
    <3>6. CASE v \notin cutShort
      <4>1. cli' = source'[j] /\ source'[j] \notin cutShort'
        BY <3>1, <3>3, <3>4, <3>6 DEF CopyOf
      <4>2. ASSUME ~met' PROVE \A i \in Jobs : i # j => job'[i] = "idle"
        BY <3>1, <3>2, <4>2
      <4>3. job'[j] = "copy daemon"
        BY <3>1
      <4>4. ASSUME ~met'
            PROVE  \A i, k \in Jobs : job'[i] # "idle" /\ job'[k] # "idle" => i = k
        BY <4>2, <4>4
      <4>5. ASSUME ~met'
            PROVE  \A i \in Jobs : job'[i] \notin {"unpack", "remove daemon"}
        BY <4>2, <4>3, <4>5
      <4>6. ASSUME ~met', NEW i \in Jobs, job'[i] = "copy daemon"
            PROVE  cli' = source'[i] /\ source'[i] \notin cutShort'
        BY <4>1, <4>2, <4>6
      <4> HIDE DEF TailscaleInv, TailscaleTypeOK
      <4>7. QED
        BY <4>4, <4>5, <4>6
    <3>7. QED
      BY <3>5, <3>6
  <2>7. ASSUME NEW j \in Jobs, NothingToCopy(j) PROVE AloneInv'
    BY <2>7 DEF NothingToCopy
  <2>8. ASSUME NEW j \in Jobs, CopyDaemon(j) PROVE AloneInv'
    BY <2>8 DEF CopyDaemon
  <2>9. ASSUME NEW j \in Jobs, Clean(j) PROVE AloneInv'
    BY <2>9 DEF Clean
  <2>10. ASSUME NEW j \in Jobs, FailJob(j) PROVE AloneInv'
    <3>1. partial => partial'
      BY <2>10, InterruptedLeaves DEF FailJob
    <3>2. job' = [job EXCEPT ![j] = "idle"] /\ UNCHANGED met
      BY <2>10 DEF FailJob
    <3>3. ASSUME ~met, NEW i \in Jobs \ {j} PROVE job'[i] = "idle"
      <4>1. job[j] # "idle"
        BY <2>10 DEF FailJob
      <4>2. QED
        BY <3>2, <3>3, <4>1
    <3>4. QED
      BY <3>2, <3>3
  <2>11. ASSUME NEW j \in Jobs, RemoveCli(j) PROVE AloneInv'
    BY <2>11 DEF RemoveCli
  <2>12. ASSUME NEW j \in Jobs, RemoveDaemon(j) PROVE AloneInv'
    BY <2>12 DEF RemoveDaemon
  <2>13. CASE EndJobs
    BY <2>13 DEF EndJobs
  <2>14. CASE Publish
    BY <2>14 DEF Publish
  <2>15. CASE UNCHANGED tailscale
    BY <2>15 DEF tailscale
  <2> HIDE DEF TailscaleInv, TailscaleTypeOK, AloneInv
  <2>16. QED
    BY <2>1, <2>2, <2>3, <2>4, <2>5, <2>6, <2>7, <2>8, <2>9, <2>10, <2>11, <2>12, <2>13, <2>14, <2>15 DEF TailscaleNext
<1>3. TailscaleInv /\ TailscaleTypeOK' /\ [TailscaleNext]_tailscale => UnpackedInv'
  <2> SUFFICES ASSUME TailscaleInv, TailscaleTypeOK', [TailscaleNext]_tailscale
               PROVE  UnpackedInv'
    OBVIOUS
  <2> USE DEF TailscaleInv, TailscaleTypeOK, UnpackedInv, HasUnpacked, JobTo, workspace
  <2>1. ASSUME NEW j \in Jobs, NEW step \in {"fetch", "command", "remove cli"}, StartJob(j, step)
        PROVE  UnpackedInv'
    BY <2>1 DEF StartJob
  <2>2. ASSUME NEW j \in Jobs, UpdateItself(j) PROVE UnpackedInv'
    BY <2>2 DEF UpdateItself
  <2>3. ASSUME NEW j \in Jobs, UnknownCommand(j) PROVE UnpackedInv'
    BY <2>3 DEF UnknownCommand
  <2>4. ASSUME NEW j \in Jobs, FetchArchive(j) PROVE UnpackedInv'
    BY <2>4 DEF FetchArchive
  <2>5. ASSUME NEW j \in Jobs, UnpackArchive(j) PROVE UnpackedInv'
    BY <2>5 DEF UnpackArchive
  <2>6. ASSUME NEW j \in Jobs, CopyCli(j) PROVE UnpackedInv'
    BY <2>6 DEF CopyCli
  <2>7. ASSUME NEW j \in Jobs, NothingToCopy(j) PROVE UnpackedInv'
    BY <2>7 DEF NothingToCopy
  <2>8. ASSUME NEW j \in Jobs, CopyDaemon(j) PROVE UnpackedInv'
    BY <2>8 DEF CopyDaemon
  <2>9. ASSUME NEW j \in Jobs, Clean(j) PROVE UnpackedInv'
    BY <2>9 DEF Clean
  <2>10. ASSUME NEW j \in Jobs, FailJob(j) PROVE UnpackedInv'
    <3>1. job' = [job EXCEPT ![j] = "idle"]
      BY <2>10 DEF FailJob
    <3>2. ASSUME ~leftover'
          PROVE  ~leftover /\ ~HasUnpacked(j) /\ UNCHANGED <<unpacked, cutShort>>
      <4>1. Interrupted({job[j]})
        BY <2>10 DEF FailJob
      <4>2. /\ ~leftover /\ UNCHANGED <<unpacked, cutShort>>
            /\ {job[j]} \cap {"unpack", "copy cli", "copy daemon", "clean"} = {}
        BY <3>2, <4>1, InterruptedLeaves
      <4>3. QED
        BY <4>2
    <3>3. ASSUME ~leftover', NEW i \in Jobs, HasUnpacked(i) PROVE HasUnpacked(i)'
      BY <3>1, <3>2, <3>3
    <3>4. QED
      BY <3>2, <3>3
  <2>11. ASSUME NEW j \in Jobs, RemoveCli(j) PROVE UnpackedInv'
    BY <2>11 DEF RemoveCli
  <2>12. ASSUME NEW j \in Jobs, RemoveDaemon(j) PROVE UnpackedInv'
    BY <2>12 DEF RemoveDaemon
  <2>13. CASE EndJobs
    <3>1. Interrupted({job[j] : j \in Jobs})
      BY <2>13 DEF EndJobs
    <3>2. ASSUME ~leftover'
          PROVE  /\ ~leftover /\ UNCHANGED <<unpacked, cutShort>>
                 /\ {job[j] : j \in Jobs} \cap {"unpack", "copy cli", "copy daemon", "clean"} = {}
      BY <3>1, <3>2, InterruptedLeaves
    <3>3. ASSUME ~leftover' PROVE \A j \in Jobs : ~HasUnpacked(j)
      BY <3>2, <3>3
    <3>4. QED
      BY <3>2, <3>3
  <2>14. CASE Publish
    BY <2>14 DEF Publish
  <2>15. CASE UNCHANGED tailscale
    BY <2>15 DEF tailscale
  <2>16. QED
    BY <2>1, <2>2, <2>3, <2>4, <2>5, <2>6, <2>7, <2>8, <2>9, <2>10, <2>11, <2>12, <2>13, <2>14, <2>15 DEF TailscaleNext
<1>4. TailscaleInv /\ TailscaleTypeOK' /\ [TailscaleNext]_tailscale => BinariesMatch'
  <2> SUFFICES ASSUME TailscaleInv, TailscaleTypeOK', [TailscaleNext]_tailscale
               PROVE  BinariesMatch'
    OBVIOUS
  <2> USE DEF TailscaleInv, TailscaleTypeOK, BinariesMatch, AloneInv, UnpackedInv, HasUnpacked,
              JobTo, OnlyJob, workspace
  <2>1. ASSUME NEW j \in Jobs, NEW step \in {"fetch", "command", "remove cli"}, StartJob(j, step)
        PROVE  BinariesMatch'
    BY <2>1 DEF StartJob
  <2>2. ASSUME NEW j \in Jobs, UpdateItself(j) PROVE BinariesMatch'
    BY <2>2, WholeVersions DEF UpdateItself
  <2>3. ASSUME NEW j \in Jobs, UnknownCommand(j) PROVE BinariesMatch'
    BY <2>3 DEF UnknownCommand
  <2>4. ASSUME NEW j \in Jobs, FetchArchive(j) PROVE BinariesMatch'
    BY <2>4 DEF FetchArchive
  <2>5. ASSUME NEW j \in Jobs, UnpackArchive(j) PROVE BinariesMatch'
    BY <2>5 DEF UnpackArchive
  <2>6. ASSUME NEW j \in Jobs, CopyCli(j) PROVE BinariesMatch'
    <3>1. job' = [job EXCEPT ![j] = "copy daemon"] /\ UNCHANGED unpacked /\ UNCHANGED leftover
      BY <2>6 DEF CopyCli
    <3>2. PICK v \in unpacked : cli' \in CopyOf(v) /\ source' = [source EXCEPT ![j] = v]
      BY <2>6 DEF CopyCli
    <3>3. ASSUME ~met' PROVE \A i \in Jobs \ {j} : job[i] = "idle"
      BY <2>6, <3>3 DEF CopyCli
    <3>4. ASSUME ~met', ~leftover' PROVE \A w \in unpacked : w = v
      <4>1. \A i \in Jobs : HasUnpacked(i) => i = j
        <5>1. ~met'
          BY <3>4
        <5>2. \A i \in Jobs \ {j} : job[i] = "idle"
          BY <3>3, <5>1
        <5>3. ASSUME NEW i \in Jobs, i # j PROVE ~HasUnpacked(i)
          <6>1. job[i] = "idle"
            BY <5>2, <5>3
          <6>2. QED
            BY <6>1
        <5>4. QED
          BY <5>3
      <4>2. \A w \in unpacked : w # v => \E i, k \in Jobs : i # k /\ HasUnpacked(i) /\ HasUnpacked(k)
        BY <3>1, <3>2, <3>4
      <4>3. QED
        BY <4>1, <4>2
    <3>5. source'[j] = v
      BY <3>2
    <3>6. ASSUME ~leftover' PROVE cli' = v
      BY <3>1, <3>2, <3>6 DEF CopyOf
    <3>7. \A i \in Jobs \ {j} : job'[i] = job[i]
      BY <3>1
    <3>8. job'[j] = "copy daemon"
      BY <3>1
    <3>9. ASSUME ~met', ~leftover', NEW i \in Jobs,
                 job'[i] \in {"copy cli", "copy daemon", "clean"}
          PROVE  unpacked' \subseteq {source'[i]} /\ (job'[i] = "copy daemon" => cli' = source'[i])
      <4>1. i = j
        BY <3>3, <3>7, <3>9
      <4>2. unpacked' \subseteq {v}
        BY <3>1, <3>4, <3>9
      <4>3. QED
        BY <3>5, <3>6, <3>9, <4>1, <4>2
    <3>10. QED
      BY <3>8, <3>9
  <2>7. ASSUME NEW j \in Jobs, NothingToCopy(j) PROVE BinariesMatch'
    BY <2>7 DEF NothingToCopy
  <2>8. ASSUME NEW j \in Jobs, CopyDaemon(j) PROVE BinariesMatch'
    <3>1. /\ job[j] = "copy daemon" /\ job' = [job EXCEPT ![j] = "clean"]
          /\ source[j] \in unpacked /\ daemon' \in CopyOf(source[j])
          /\ UNCHANGED <<unpacked, cli, source, met, partial, leftover>>
      BY <2>8 DEF CopyDaemon
    <3>2. ASSUME ~met', ~partial' PROVE cli' = daemon' /\ cli' # Broken
      <4>1. cli = source[j] /\ source[j] \notin cutShort
        BY <3>1, <3>2
      <4>2. daemon' = source[j]
        BY <3>1, <4>1 DEF CopyOf
      <4>3. QED
        BY <3>1, <4>1, <4>2, WholeVersions
    <3>3. QED
      BY <3>1, <3>2
  <2>9. ASSUME NEW j \in Jobs, Clean(j) PROVE BinariesMatch'
    BY <2>9 DEF Clean
  <2>10. ASSUME NEW j \in Jobs, FailJob(j) PROVE BinariesMatch'
    <3>1. /\ job' = [job EXCEPT ![j] = "idle"]
          /\ job[j] # "idle" /\ UNCHANGED met
          /\ Interrupted({job[j]})
      BY <2>10 DEF FailJob
    <3>2. ASSUME ~met PROVE \A i \in Jobs : job'[i] = "idle"
      BY <3>1, <3>2
    <3>3. ASSUME ~met', ~partial' PROVE cli' = daemon' /\ cli' # Broken
      <4>1. /\ ~partial /\ cli' # Broken /\ UNCHANGED <<cli, daemon>>
            /\ {job[j]} \cap {"copy daemon", "remove daemon"} = {}
        BY <3>1, <3>3, InterruptedLeaves
      <4>2. \A i \in Jobs : job[i] \notin {"copy daemon", "remove daemon"}
        BY <3>1, <3>3, <4>1
      <4>3. QED
        BY <3>1, <3>3, <4>1, <4>2
    <3>4. QED
      BY <3>1, <3>2, <3>3
  <2>11. ASSUME NEW j \in Jobs, RemoveCli(j) PROVE BinariesMatch'
    BY <2>11 DEF RemoveCli
  <2>12. ASSUME NEW j \in Jobs, RemoveDaemon(j) PROVE BinariesMatch'
    BY <2>12, WholeVersions DEF RemoveDaemon
  <2>13. CASE EndJobs
    <3>1. /\ \A i \in Jobs : job'[i] = "idle"
          /\ UNCHANGED met
          /\ Interrupted({job[i] : i \in Jobs})
      BY <2>13 DEF EndJobs
    <3>2. ASSUME ~met', ~partial' PROVE cli' = daemon' /\ cli' # Broken
      <4>1. /\ ~partial /\ cli' # Broken /\ UNCHANGED <<cli, daemon>>
            /\ {job[i] : i \in Jobs} \cap {"copy daemon", "remove daemon"} = {}
        BY <3>1, <3>2, InterruptedLeaves
      <4>2. \A i \in Jobs : job[i] \notin {"copy daemon", "remove daemon"}
        BY <4>1
      <4>3. QED
        BY <3>1, <3>2, <4>1, <4>2
    <3>3. QED
      BY <3>1, <3>2
  <2>14. CASE Publish
    BY <2>14 DEF Publish
  <2>15. CASE UNCHANGED tailscale
    BY <2>15 DEF tailscale
  <2> HIDE DEF TailscaleInv, TailscaleTypeOK, BinariesMatch, AloneInv, UnpackedInv
  <2>16. QED
    BY <2>1, <2>2, <2>3, <2>4, <2>5, <2>6, <2>7, <2>8, <2>9, <2>10, <2>11, <2>12, <2>13, <2>14, <2>15 DEF TailscaleNext
<1>5. TailscaleInv => BinariesMatch
  BY DEF TailscaleInv
<1>6. QED
  BY <1>1, <1>2, <1>3, <1>4, <1>5, TailscaleTypeCorrect, PTL DEF TailscaleSpec, TailscaleInv

-----------------------------------------------------------------------------
(* HidBus *)

LEMMA CharMapType ==
    ASSUME NEW lang, NEW c \in DOMAIN CharMap(lang)
    PROVE  CharMap(lang)[c] \in Reports
<1>1. CASE lang = "de"
  BY <1>1 DEF CharMap, Reports
<1>2. CASE lang = "fr"
  BY <1>2 DEF CharMap, Reports
<1>3. CASE lang \notin {"de", "fr"}
  BY <1>3 DEF CharMap, Reports
<1>4. QED
  BY <1>1, <1>2, <1>3

(* Two reports for a character: the second is a release, or both are       *)
(* skipped.                                                                *)
Paired(q) ==
    /\ q \in Seq(Reports \cup {Skip})
    /\ Len(q) % 2 = 0
    /\ \A i \in 1..Len(q) : i % 2 = 0 => q[i] \in {Up, Skip}
    /\ \A i \in 1..Len(q) : i % 2 = 1 /\ q[i] = Skip => q[i + 1] = Skip

LEMMA HalfOfOdd == \A i \in Nat : i % 2 = 1 => (i + 1 + 1) \div 2 = (i + 1) \div 2
OBVIOUS

LEMMA OddNotLast == \A m \in Nat : \A i \in 1 .. 2 * m : i % 2 = 1 => i + 1 \in 1 .. 2 * m
OBVIOUS

LEMMA StrokesType == ASSUME NEW text \in Texts, NEW lang PROVE Paired(Strokes(text, lang))
<1> DEFINE q == Strokes(text, lang)
           n == 2 * Len(text)
<1>1. Len(text) \in Nat
  BY HidAssumption, LenProperties DEF HidAssumption
<1>2. ASSUME NEW i \in 1..n
      PROVE  q[i] \in Reports \cup {Skip} /\ (i % 2 = 0 => q[i] \in {Up, Skip})
  BY CharMapType DEF Strokes, Reports, Up
<1>3. q \in [1..n -> Reports \cup {Skip}]
  BY <1>2 DEF Strokes
<1>4. q \in Seq(Reports \cup {Skip}) /\ Len(q) = n
  BY <1>1, <1>3, SeqDef, LenProperties
<1>5. ASSUME NEW i \in 1..n, i % 2 = 1, q[i] = Skip PROVE q[i + 1] = Skip
  <2>1. i + 1 \in 1..n /\ (i + 1 + 1) \div 2 = (i + 1) \div 2
    BY <1>1, <1>5, HalfOfOdd, OddNotLast
  <2>2. CASE text[(i + 1) \div 2] \in DOMAIN CharMap(lang)
    <3>1. q[i] = CharMap(lang)[text[(i + 1) \div 2]]
      BY <1>5, <2>2 DEF Strokes
    <3>2. q[i] \in Reports
      BY <2>2, <3>1, CharMapType
    <3>3. QED
      BY <1>5, <3>2 DEF Reports, Skip
  <2>3. CASE text[(i + 1) \div 2] \notin DOMAIN CharMap(lang)
    BY <2>1, <2>3 DEF Strokes
  <2>4. QED
    BY <2>2, <2>3
<1>6. QED
  BY <1>1, <1>2, <1>4, <1>5 DEF Paired

LEMMA EmptyPaired == Paired(<<>>)
BY DEF Paired

LEMMA PairedLength == ASSUME NEW q, Paired(q) PROVE Len(q) \in Nat /\ Len(q) % 2 = 0
BY LenProperties DEF Paired

LEMMA EvenStep ==
    ASSUME NEW m \in Nat, NEW n \in Nat, m % 2 = 0, n % 2 = 0, m < n PROVE m + 2 \in 0..n
OBVIOUS

LEMMA ZeroFirst == \A n \in Nat : 0 \in 0..n
OBVIOUS

LEMMA ShortSeq == ASSUME NEW S PROVE <<>> \in Seq(S) /\ \A x \in S : <<x>> \in Seq(S)
OBVIOUS

(* What a write does to its device, and that it leaves the others alone.   *)
LEMMA WriteEffect ==
    ASSUME HidTypeOK, NEW d \in Devices, NEW r \in Reports, Write(d, r)
    PROVE  /\ open' \in [Devices -> BOOLEAN]
           /\ flight' \in [Devices -> Reports \cup {Free, Failed}]
           /\ lost' \in [Devices -> BOOLEAN]
           /\ \A e \in Devices \ {d} : flight'[e] = flight[e] /\ lost'[e] = lost[e]
           /\ lost'[d] \/ flight'[d] = r
<1> USE DEF HidTypeOK
<1>1. CASE Accepted(d, r)
  BY <1>1 DEF Accepted
<1>2. CASE TimedOut(d)
  BY <1>2 DEF TimedOut
<1>3. CASE Reopen(d, r)
  BY <1>3 DEF Reopen
<1>4. QED
  BY <1>1, <1>2, <1>3 DEF Write

(* The history of a paste stays a history. *)
LEMMA TearType ==
    ASSUME HidTypeOK, NEW b \in BOOLEAN, Tear(b)
    PROVE  torn' \in BOOLEAN /\ before' \in Seq(Reports) /\ typed' \in Seq(Reports)
BY DEF Tear, HidTypeOK

HidTypes == HidTypeOK /\ Paired(strokes)

LEMMA HidTypesInvariant == HidSpec => []HidTypes
<1>1. HidInit => HidTypes
  <2> SUFFICES ASSUME HidInit PROVE HidTypes
    OBVIOUS
  <2>1. Paired(strokes) /\ strokes = <<>> /\ stroke \in 0..Len(strokes)
    BY EmptyPaired DEF HidInit
  <2>2. before \in Seq(Reports) /\ typed \in Seq(Reports)
    BY ShortSeq DEF HidInit
  <2>3. /\ flight \in [Devices -> Reports \cup {Free, Failed}]
        /\ host \in [Devices -> Reports]
        /\ lost \in [Devices -> BOOLEAN] /\ open \in [Devices -> BOOLEAN]
    BY DEF HidInit, Reports, Up
  <2>4. QED
    BY <2>1, <2>2, <2>3 DEF HidInit, HidTypes, HidTypeOK, Paired
<1>2. HidTypes /\ [HidNext]_hid => HidTypes'
  <2> SUFFICES ASSUME HidTypes, [HidNext]_hid PROVE HidTypes'
    OBVIOUS
  <2> USE DEF HidTypes, HidTypeOK
  <2>1. ASSUME NEW s \in Sockets,
               \/ Connect(s) \/ HeartBeat(s) \/ Disconnect(s) \/ StartRelease(s) \/ Released(s)
        PROVE  HidTypes'
    BY <2>1 DEF Connect, HeartBeat, Disconnect, StartRelease, Released, paste, jiggler
  <2>2. ASSUME NEW s \in Sockets, NEW d \in Devices, Release(s, d) PROVE HidTypes'
    <3>1. Write(d, Up) /\ Up \in Reports
      BY <2>2 DEF Release, Up, Reports
    <3>2. QED
      BY <2>2, <3>1, WriteEffect DEF Release, paste, jiggler
  <2>3. ASSUME NEW s \in Sockets, NEW d \in Devices, NEW r \in Keys \cup {Up}, Send(s, d, r)
        PROVE  HidTypes'
    <3>1. Write(d, r) /\ r \in Reports
      BY <2>3, HidAssumption DEF Send, Up, Reports, HidAssumption
    <3>2. QED
      BY <2>3, <3>1, WriteEffect DEF Send, paste
  <2>4. ASSUME NEW text \in Texts, NEW lang \in {"", "de", "fr"}, StartPaste(text, lang)
        PROVE  HidTypes'
    <3>1. Paired(strokes') /\ stroke' \in 0..Len(strokes')
      <4>1. Paired(strokes') /\ stroke' = 0
        BY <2>4, StrokesType DEF StartPaste
      <4>2. Len(strokes') \in Nat
        BY <4>1, PairedLength
      <4>3. stroke' \in 0..Len(strokes')
        BY <4>1, <4>2, ZeroFirst, Zenon
      <4>4. QED
        BY <4>1, <4>3
    <3>2. before' \in Seq(Reports) /\ typed' \in Seq(Reports)
      <4>1. CASE InFlight("keyboard")
        BY <2>4, <4>1, ShortSeq DEF StartPaste, InFlight
      <4>2. CASE ~InFlight("keyboard")
        BY <2>4, <4>2, ShortSeq DEF StartPaste
      <4>3. QED
        BY <4>1, <4>2
    <3>3. QED
      BY <2>4, <3>1, <3>2 DEF StartPaste, jiggler, Paired
  <2>5. CASE SkipCharacter
    <3>1. stroke + 2 \in 0..Len(strokes)
      <4>1. /\ stroke \in Nat /\ Len(strokes) \in Nat
            /\ stroke % 2 = 0 /\ Len(strokes) % 2 = 0 /\ stroke < Len(strokes)
        BY <2>5, PairedLength DEF SkipCharacter
      <4>2. QED
        BY <4>1, EvenStep
    <3>2. QED
      BY <2>5, <3>1 DEF SkipCharacter, jiggler
  <2>6. CASE Stroke
    <3>1. stroke + 1 \in 1..Len(strokes)
      BY <2>6, PairedLength DEF Stroke
    <3>2. strokes[stroke + 1] \in Reports
      BY <2>6, <3>1, ElementOfSeq DEF Stroke, Paired
    <3>3. Write("keyboard", strokes[stroke + 1]) /\ "keyboard" \in Devices
      BY <2>6, HidAssumption DEF Stroke, HidAssumption
    <3>4. /\ open' \in [Devices -> BOOLEAN]
          /\ flight' \in [Devices -> Reports \cup {Free, Failed}]
          /\ lost' \in [Devices -> BOOLEAN]
      BY <3>2, <3>3, WriteEffect
    <3>5. torn' \in BOOLEAN /\ before' \in Seq(Reports) /\ typed' \in Seq(Reports)
      BY <2>6, <3>3, <3>4, TearType DEF Stroke
    <3>6. QED
      BY <2>6, <3>1, <3>4, <3>5 DEF Stroke, jiggler
  <2>7. CASE EndPaste \/ HangUp
    <3>1. Paired(strokes') /\ stroke' \in 0..Len(strokes')
      BY <2>7, EmptyPaired DEF EndPaste, HangUp, PasteOver
    <3>2. before' \in Seq(Reports) /\ typed' \in Seq(Reports)
      <4>1. before' = <<>> /\ typed' = <<>>
        BY <2>7 DEF EndPaste, HangUp, PasteOver
      <4>2. QED
        BY <4>1, ShortSeq
    <3>3. lost' \in [Devices -> BOOLEAN]
      BY <2>7 DEF EndPaste, HangUp
    <3>4. QED
      BY <2>7, <3>1, <3>2, <3>3 DEF EndPaste, HangUp, PasteOver, jiggler, Paired
  <2>8. CASE Quiet \/ Decide \/ \E mode \in Mice \cup {"off"} : SetJiggler(mode)
    BY <2>8 DEF Quiet, Decide, SetJiggler, paste
  <2>9. CASE Jiggle
    <3>1. moving \in Devices /\ Write(moving, Up) /\ Up \in Reports
      BY <2>9 DEF Jiggle, Mice, Up, Reports
    <3>2. /\ open' \in [Devices -> BOOLEAN]
          /\ flight' \in [Devices -> Reports \cup {Free, Failed}]
          /\ lost' \in [Devices -> BOOLEAN]
      BY <3>1, WriteEffect
    <3>3. QED
      BY <2>9, <3>2 DEF Jiggle, paste
  <2>10. CASE ResetHid
    <3>1. torn' \in BOOLEAN /\ before' \in Seq(Reports) /\ typed' \in Seq(Reports)
      <4>1. InFlight("keyboard") \in BOOLEAN
        BY DEF InFlight
      <4>2. QED
        BY <2>10, <4>1, TearType DEF ResetHid
    <3>2. QED
      BY <2>10, <3>1 DEF ResetHid, jiggler, Up, Reports
  <2>11. ASSUME NEW d \in Devices, Deliver(d) PROVE HidTypes'
    <3>1. typed' \in Seq(Reports)
      BY <2>11 DEF Deliver, InFlight
    <3>2. QED
      BY <2>11, <3>1 DEF Deliver, InFlight, jiggler
  <2>12. ASSUME NEW d \in Devices, Fail(d) PROVE HidTypes'
    <3>1. torn' \in BOOLEAN /\ before' \in Seq(Reports) /\ typed' \in Seq(Reports)
      BY <2>12, TearType DEF Fail
    <3>2. QED
      BY <2>12, <3>1 DEF Fail, jiggler
  <2>13. CASE UNCHANGED hid
    BY <2>13 DEF hid, paste, jiggler
  <2> HIDE DEF HidTypes, HidTypeOK
  <2>14. QED
    BY <2>1, <2>2, <2>3, <2>4, <2>5, <2>6, <2>7, <2>8, <2>9, <2>10, <2>11, <2>12, <2>13 DEF HidNext
<1>3. QED
  BY <1>1, <1>2, PTL DEF HidSpec

(* Every reachable state of the HID bus (hid/src/lib.rs) has its types.    *)
THEOREM HidTypeCorrect == HidSpec => []HidTypeOK
<1>1. HidTypes => HidTypeOK
  BY DEF HidTypes
<1>2. QED
  BY <1>1, HidTypesInvariant, PTL

(* Nothing is left to be done about device d: its last report got through, *)
(* no socket is open or has still to release it, and no pasted character   *)
(* is half typed.                                                          *)
Settled(d) ==
    /\ ~lost[d]
    /\ \A s \in Sockets : \/ socket[s] = "closed"
                          \/ socket[s] = "ended" /\ lock = s /\ d \notin left
    /\ ~(d = "keyboard" /\ lock = "paste" /\ stroke % 2 = 1)

(* KeysReleased speaks of moments without any writer.  ReleasedInv follows *)
(* a closing socket device by device, and a paste stroke by stroke.        *)
Releasing == \A s \in Sockets : lock = s => socket[s] = "ended"
ReleasedInv == Releasing /\ \A d \in Devices : Settled(d) => Coming(d) = Up

LEMMA WriteUp ==
    ASSUME HidTypeOK, NEW d \in Devices, Write(d, Up), UNCHANGED host
    PROVE  /\ lost'[d] \/ Coming(d)' = Up
           /\ \A e \in Devices \ {d} : lost'[e] = lost[e] /\ Coming(e)' = Coming(e)
<1>1. Up \in Reports
  BY DEF Up, Reports
<1>2. QED
  BY <1>1, WriteEffect DEF Coming, InFlight

(* No key and no button stays down when the last socket is gone (main.rs   *)
(* 1346-1351).                                                             *)
THEOREM KeysReleasedInvariant == HidSpec => []KeysReleased
<1>1. HidInit => ReleasedInv
  <2>1. HidInit => Releasing
    BY HidAssumption DEF HidInit, Releasing, HidAssumption
  <2>2. HidInit => \A d \in Devices : Coming(d) = Up
    BY DEF HidInit, Coming, InFlight, Reports, Free, Up
  <2>3. QED
    BY <2>1, <2>2 DEF ReleasedInv
<1>2. HidTypes /\ ReleasedInv /\ [HidNext]_hid => ReleasedInv'
  <2> SUFFICES ASSUME HidTypes, ReleasedInv, [HidNext]_hid PROVE ReleasedInv'
    OBVIOUS
  <2>t. /\ HidTypeOK /\ lock \in {"free", "paste", "jiggler"} \cup Sockets
        /\ socket \in [Sockets -> {"closed", "open", "ended"}]
        /\ lost \in [Devices -> BOOLEAN] /\ left \subseteq Devices
        /\ flight \in [Devices -> Reports \cup {Free, Failed}]
    BY DEF HidTypes, HidTypeOK
  <2>o. Sockets \cap {"free", "paste", "jiggler"} = {} /\ "keyboard" \in Devices
    BY HidAssumption DEF HidAssumption
  <2>1. ASSUME NEW s \in Sockets, Connect(s) \/ HeartBeat(s) \/ Disconnect(s)
        PROVE  ReleasedInv'
    <3>1. \A d \in Devices : ~Settled(d)'
      BY <2>1, <2>t DEF Settled, Connect, HeartBeat, Disconnect, ReleasedInv, Releasing
    <3>2. Releasing'
      BY <2>1, <2>t DEF Connect, HeartBeat, Disconnect, ReleasedInv, Releasing
    <3>3. QED
      BY <3>1, <3>2 DEF ReleasedInv
  <2>2. ASSUME NEW s \in Sockets, StartRelease(s) PROVE ReleasedInv'
    <3>1. \A d \in Devices : ~Settled(d)'
      BY <2>2, <2>t DEF Settled, StartRelease
    <3>2. Releasing'
      BY <2>2, <2>t DEF StartRelease, Releasing
    <3>3. QED
      BY <3>1, <3>2 DEF ReleasedInv
  <2>3. ASSUME NEW s \in Sockets, Released(s) PROVE ReleasedInv'
    <3>1. ASSUME NEW d \in Devices, Settled(d)' PROVE Settled(d) /\ Coming(d)' = Coming(d)
      BY <2>3, <2>o, <2>t, <3>1 DEF Released, Settled, Coming, InFlight, ReleasedInv, Releasing
    <3>2. Releasing'
      BY <2>3, <2>o, <2>t DEF Released, ReleasedInv, Releasing
    <3>3. QED
      BY <3>1, <3>2 DEF ReleasedInv
  <2>4. ASSUME NEW s \in Sockets, NEW d \in Devices, Release(s, d) PROVE ReleasedInv'
    <3>1. /\ lost'[d] \/ Coming(d)' = Up
          /\ \A e \in Devices \ {d} : lost'[e] = lost[e] /\ Coming(e)' = Coming(e)
      BY <2>4, <2>t, WriteUp DEF Release
    <3>2. ASSUME NEW e \in Devices \ {d}, Settled(e)' PROVE Settled(e)
      BY <2>4, <3>1, <3>2 DEF Release, Settled, paste
    <3>3. Settled(d)' => ~lost'[d]
      BY DEF Settled
    <3>4. Releasing'
      BY <2>4 DEF Release, ReleasedInv, Releasing
    <3>5. QED
      BY <3>1, <3>2, <3>3, <3>4 DEF ReleasedInv
  <2>5. ASSUME NEW s \in Sockets, NEW d \in Devices, NEW r \in Keys \cup {Up}, Send(s, d, r)
        PROVE  ReleasedInv'
    <3>1. \A e \in Devices : ~Settled(e)'
      BY <2>5 DEF Send, Settled
    <3>2. Releasing'
      BY <2>5 DEF Send, ReleasedInv, Releasing
    <3>3. QED
      BY <3>1, <3>2 DEF ReleasedInv
  <2>6. ASSUME NEW text \in Texts, NEW lang \in {"", "de", "fr"}, StartPaste(text, lang)
        PROVE  ReleasedInv'
    <3>1. ASSUME NEW d \in Devices, Settled(d)' PROVE Settled(d) /\ Coming(d)' = Coming(d)
      BY <2>6, <2>o, <2>t, <3>1 DEF StartPaste, Settled, Coming, InFlight
    <3>2. Releasing'
      BY <2>6, <2>o DEF StartPaste, Releasing
    <3>3. QED
      BY <3>1, <3>2 DEF ReleasedInv
  <2>7. CASE SkipCharacter
    <3>1. stroke % 2 = 0 /\ UNCHANGED <<flight, host, lock, socket, left, lost>> /\ lock = "paste"
      BY <2>7 DEF SkipCharacter
    <3>2. ASSUME NEW d \in Devices, Settled(d)' PROVE Settled(d) /\ Coming(d)' = Coming(d)
      BY <3>1, <3>2 DEF Settled, Coming, InFlight
    <3>3. Releasing'
      BY <3>1 DEF ReleasedInv, Releasing
    <3>4. QED
      BY <3>2, <3>3 DEF ReleasedInv
  <2>8. CASE Stroke
    <3>1. /\ lock = "paste" /\ stroke' = stroke + 1 /\ strokes[stroke + 1] # Skip
          /\ Write("keyboard", strokes[stroke + 1])
          /\ UNCHANGED <<host, lock, socket, left>>
      BY <2>8 DEF Stroke
    <3>2. stroke + 1 \in 1..Len(strokes) /\ stroke \in Nat
      BY <2>8, PairedLength DEF Stroke, HidTypes, HidTypeOK
    <3>3. strokes[stroke + 1] \in Reports
      BY <3>1, <3>2, ElementOfSeq DEF HidTypes, Paired
    <3>4. (stroke + 1) % 2 = 0 => strokes[stroke + 1] = Up
      BY <3>1, <3>2 DEF HidTypes, Paired
    <3>5. ASSUME NEW d \in Devices \ {"keyboard"}, Settled(d)'
          PROVE  Settled(d) /\ Coming(d)' = Coming(d)
      <4>1. flight'[d] = flight[d] /\ lost'[d] = lost[d]
        BY <2>o, <2>t, <3>1, <3>3, WriteEffect
      <4>2. QED
        BY <3>1, <3>5, <4>1 DEF Settled, Coming, InFlight
    <3>6. ASSUME Settled("keyboard")' PROVE Coming("keyboard")' = Up
      <4>1. (stroke + 1) % 2 # 1 /\ ~lost'["keyboard"]
        BY <3>1, <3>6 DEF Settled
      <4>2. strokes[stroke + 1] = Up
        BY <3>2, <3>4, <4>1
      <4>3. QED
        BY <2>o, <2>t, <3>1, <4>1, <4>2, WriteUp
    <3>7. Releasing'
      BY <3>1 DEF ReleasedInv, Releasing
    <3>8. QED
      BY <3>5, <3>6, <3>7 DEF ReleasedInv
  <2>9. CASE EndPaste
    <3>1. stroke % 2 = 0
      BY <2>9, PairedLength DEF EndPaste, HidTypes
    <3>2. ASSUME NEW d \in Devices, Settled(d)' PROVE Settled(d) /\ Coming(d)' = Coming(d)
      BY <2>9, <2>o, <3>1, <3>2 DEF EndPaste, PasteOver, Settled, Coming, InFlight
    <3>3. Releasing'
      BY <2>9, <2>o DEF EndPaste, PasteOver, Releasing
    <3>4. QED
      BY <3>2, <3>3 DEF ReleasedInv
  <2>10. CASE HangUp
    <3>1. /\ lost'["keyboard"] = (lost["keyboard"] \/ stroke % 2 = 1)
          /\ \A d \in Devices \ {"keyboard"} : lost'[d] = lost[d]
      BY <2>10, <2>o, <2>t DEF HangUp
    <3>2. ASSUME NEW d \in Devices, Settled(d)' PROVE Settled(d) /\ Coming(d)' = Coming(d)
      BY <2>10, <2>o, <3>1, <3>2 DEF HangUp, PasteOver, Settled, Coming, InFlight
    <3>3. Releasing'
      BY <2>10, <2>o DEF HangUp, PasteOver, Releasing
    <3>4. QED
      BY <3>2, <3>3 DEF ReleasedInv
  <2>11. CASE Quiet \/ Decide \/ \E mode \in Mice \cup {"off"} : SetJiggler(mode)
    <3>1. UNCHANGED <<flight, host, lock, socket, left, lost, stroke>>
      BY <2>11 DEF Quiet, Decide, SetJiggler, paste
    <3>2. QED
      BY <3>1 DEF ReleasedInv, Releasing, Settled, Coming, InFlight
  <2>12. CASE Jiggle
    <3>0. PICK d \in Devices \ {"keyboard"} : d = moving
      BY <2>12 DEF Jiggle, HidTypes, HidTypeOK, Mice
    <3>1. Write(d, Up) /\ UNCHANGED host
      BY <2>12, <3>0 DEF Jiggle
    <3>2. /\ lost'[d] \/ Coming(d)' = Up
          /\ \A e \in Devices \ {d} : lost'[e] = lost[e] /\ Coming(e)' = Coming(e)
      BY <2>t, <3>1, WriteUp
    <3>3. lock \in {"free", "jiggler"} /\ lock' \in {"free", "jiggler"} /\ UNCHANGED <<socket, left>>
      BY <2>12 DEF Jiggle
    <3>4. ASSUME NEW e \in Devices \ {d}, Settled(e)' PROVE Settled(e)
      BY <2>o, <3>2, <3>3, <3>4 DEF Settled
    <3>5. Settled(d)' => ~lost'[d]
      BY DEF Settled
    <3>6. Releasing'
      BY <2>o, <3>3 DEF Releasing
    <3>7. QED
      BY <3>1, <3>2, <3>4, <3>5, <3>6 DEF ReleasedInv
  <2>13. CASE ResetHid
    <3>1. \A d \in Devices : Coming(d)' = Up
      BY <2>13, <2>t DEF ResetHid, Coming, InFlight, Reports, Failed
    <3>2. Releasing'
      BY <2>13 DEF ResetHid, ReleasedInv, Releasing
    <3>3. QED
      BY <3>1, <3>2 DEF ReleasedInv
  <2>14. ASSUME NEW d \in Devices, Deliver(d) PROVE ReleasedInv'
    <3>1. host \in [Devices -> Reports]
      BY DEF HidTypes, HidTypeOK
    <3>2. \A e \in Devices : Coming(e)' = Coming(e)
      BY <2>14, <2>t, <3>1 DEF Deliver, Coming, InFlight, Reports, Free
    <3>3. UNCHANGED <<lock, socket, left, lost, stroke>>
      BY <2>14 DEF Deliver
    <3>4. QED
      BY <3>2, <3>3 DEF ReleasedInv, Releasing, Settled
  <2>15. ASSUME NEW d \in Devices, Fail(d) PROVE ReleasedInv'
    <3>1. /\ lost'[d] /\ UNCHANGED <<host, lock, socket, left, stroke>>
          /\ \A e \in Devices \ {d} : lost'[e] = lost[e] /\ flight'[e] = flight[e]
      BY <2>15, <2>t DEF Fail
    <3>2. ASSUME NEW e \in Devices, Settled(e)' PROVE Settled(e) /\ Coming(e)' = Coming(e)
      BY <3>1, <3>2 DEF Settled, Coming, InFlight
    <3>3. Releasing'
      BY <3>1 DEF ReleasedInv, Releasing
    <3>4. QED
      BY <3>2, <3>3 DEF ReleasedInv
  <2>16. CASE UNCHANGED hid
    BY <2>16 DEF hid, paste, ReleasedInv, Releasing, Settled, Coming, InFlight
  <2>17. QED
    BY <2>1, <2>2, <2>3, <2>4, <2>5, <2>6, <2>7, <2>8, <2>9, <2>10, <2>11, <2>12, <2>13, <2>14,
       <2>15, <2>16 DEF HidNext
<1>3. ReleasedInv => KeysReleased
  <2> SUFFICES ASSUME ReleasedInv, \A s \in Sockets : socket[s] = "closed", lock = "free",
                      NEW d \in Devices, ~lost[d]
               PROVE  Coming(d) = Up
    BY DEF KeysReleased
  <2>1. Settled(d)
    BY DEF Settled
  <2>2. QED
    BY <2>1 DEF ReleasedInv
<1>4. QED
  BY <1>1, <1>2, <1>3, HidTypesInvariant, PTL DEF HidSpec

(* The reports due are finitely many; each one written makes one more.     *)
LEMMA DueCount ==
    ASSUME NEW q, NEW n \in Nat
    PROVE  IsFiniteSet(Due(q, n)) /\ Cardinality(Due(q, n)) \in Nat
<1>1. IsFiniteSet(1..n)
  BY FS_Interval
<1>2. Due(q, n) \in SUBSET (1..n)
  BY DEF Due
<1>3. QED
  BY <1>1, <1>2, FS_Subset, FS_CardinalityType

LEMMA NoneDue == ASSUME NEW q PROVE Due(q, 0) = {} /\ Cardinality(Due(q, 0)) = 0
<1>1. Due(q, 0) = {}
  BY DEF Due
<1>2. QED
  BY <1>1, FS_EmptySet

LEMMA OneMoreDue ==
    ASSUME NEW q, NEW n \in Nat, q[n + 1] # Skip
    PROVE  /\ Due(q, n + 1) = Due(q, n) \cup {n + 1}
           /\ Cardinality(Due(q, n + 1)) = Cardinality(Due(q, n)) + 1
<1>1. Due(q, n + 1) = Due(q, n) \cup {n + 1}
  BY DEF Due
<1>2. n + 1 \notin Due(q, n)
  BY DEF Due
<1>3. QED
  BY <1>1, <1>2, DueCount, FS_AddElement

LEMMA LastTwo == \A n \in Nat : \A i \in 1..(n + 2) : i \in 1..n \/ i = n + 1 \/ i = n + 2
OBVIOUS

(* A character that is skipped adds none. *)
LEMMA SkippedNotDue ==
    ASSUME NEW q, NEW n \in Nat, q[n + 1] = Skip, q[n + 2] = Skip
    PROVE  Due(q, n + 2) = Due(q, n)
<1>1. \A i \in 1..(n + 2) : i \in 1..n \/ i = n + 1 \/ i = n + 2
  BY LastTwo
<1>2. 1..n \subseteq 1..(n + 2)
  OBVIOUS
<1>3. QED
  BY <1>1, <1>2 DEF Due

LEMMA FollowsNone == ASSUME NEW b \in Seq(Reports), NEW q PROVE Follows(b, b, q, 0)
<1>1. Len(b) = Len(b) + 0
  BY LenProperties
<1>2. QED
  BY <1>1, NoneDue DEF Follows

(* Reports due come in the place that Follows says. *)
LEMMA FollowsOne ==
    ASSUME NEW got \in Seq(Reports), NEW b \in Seq(Reports), NEW n \in Nat,
           NEW q, q[n + 1] \in Reports, q[n + 1] # Skip, Follows(got, b, q, n)
    PROVE  Follows(Append(got, q[n + 1]), b, q, n + 1)
<1> DEFINE more == Append(got, q[n + 1])
<1>1. /\ Len(got) \in Nat /\ Len(b) \in Nat
      /\ Len(more) = Len(got) + 1 /\ more[Len(got) + 1] = q[n + 1]
      /\ \A i \in 1..Len(got) : more[i] = got[i]
  BY AppendProperties, LenProperties
<1>2. /\ Cardinality(Due(q, n)) \in Nat
      /\ Due(q, n + 1) = Due(q, n) \cup {n + 1}
      /\ Cardinality(Due(q, n + 1)) = Cardinality(Due(q, n)) + 1
  BY DueCount, OneMoreDue
<1>3. /\ Len(got) = Len(b) + Cardinality(Due(q, n))
      /\ \A i \in 1..Len(b) : got[i] = b[i]
      /\ \A i \in Due(q, n) : got[Len(b) + Cardinality(Due(q, i))] = q[i]
  BY DEF Follows
<1>4. ASSUME NEW i \in Due(q, n)
      PROVE  Cardinality(Due(q, i)) \in 1..Cardinality(Due(q, n))
  <2>1. i \in Nat /\ i >= 1 /\ i <= n /\ i \in Due(q, i)
    BY DEF Due
  <2>2. Due(q, i) \in SUBSET Due(q, n)
    BY <2>1 DEF Due
  <2>3. Cardinality(Due(q, i)) \in Nat /\ Cardinality(Due(q, i)) <= Cardinality(Due(q, n))
    BY <2>1, <2>2, DueCount, FS_Subset
  <2>4. Cardinality(Due(q, i)) # 0
    BY <2>1, DueCount, FS_EmptySet
  <2>5. QED
    BY <1>2, <2>3, <2>4
<1> HIDE DEF more
<1>5. ASSUME NEW i \in 1..Len(b) PROVE more[i] = b[i]
  BY <1>1, <1>2, <1>3
<1>6. ASSUME NEW i \in Due(q, n + 1) PROVE more[Len(b) + Cardinality(Due(q, i))] = q[i]
  <2>1. CASE i \in Due(q, n)
    <3>1. PICK k \in 1..Cardinality(Due(q, n)) : k = Cardinality(Due(q, i))
      BY <1>4, <2>1
    <3>2. Len(b) + k \in 1..Len(got)
      BY <1>1, <1>2, <1>3
    <3>3. QED
      BY <1>1, <1>3, <2>1, <3>1, <3>2
  <2>2. CASE i = n + 1
    BY <1>1, <1>2, <1>3, <2>2
  <2>3. QED
    BY <1>2, <2>1, <2>2
<1>7. Len(more) = Len(b) + Cardinality(Due(q, n + 1))
  BY <1>1, <1>2, <1>3
<1>8. QED
  BY <1>5, <1>6, <1>7 DEF Follows, more

(* Only an open file has a report in flight: a paste that opens it once    *)
(* more overwrites none.                                                   *)
OpenInFlight == \A d \in Devices : InFlight(d) => open[d]

PasteInv == HidTypes /\ OpenInFlight /\ PasteUnmixed

(* A write of the paste that is not dropped puts its report next; what the *)
(* host will get before it stays.                                          *)
LEMMA WriteNext ==
    ASSUME HidTypeOK, OpenInFlight, NEW r \in Reports, Write("keyboard", r),
           ~lost'["keyboard"], typed' = typed
    PROVE  Got \in Seq(Reports) /\ Got' = Append(Got, r)
<1>k. "keyboard" \in Devices
  BY HidAssumption DEF HidAssumption
<1>1. ~TimedOut("keyboard")
  BY <1>k DEF TimedOut, HidTypeOK
<1>2. ~InFlight("keyboard")
  BY <1>1, <1>k DEF Write, Accepted, Reopen, OpenInFlight, InFlight, Reports, Free, Failed
<1>3. flight'["keyboard"] = r
  BY <1>k, WriteEffect
<1>4. typed \in Seq(Reports)
  BY DEF HidTypeOK
<1>5. Got = typed \o <<>>
  BY <1>2 DEF Got
<1>6. Got = typed
  BY <1>4, <1>5, ConcatProperties
<1>7. Got' = typed \o <<r>>
  BY <1>3 DEF Got, InFlight
<1>8. QED
  BY <1>4, <1>6, <1>7

LEMMA WriteOpens ==
    ASSUME HidTypeOK, OpenInFlight, NEW d \in Devices, NEW r \in Reports, Write(d, r)
    PROVE  OpenInFlight'
<1> USE DEF HidTypeOK, OpenInFlight, InFlight
<1>1. CASE Accepted(d, r)
  BY <1>1 DEF Accepted
<1>2. CASE TimedOut(d)
  BY <1>2 DEF TimedOut
<1>3. CASE Reopen(d, r)
  BY <1>3 DEF Reopen, Reports, Free
<1>4. QED
  BY <1>1, <1>2, <1>3 DEF Write

LEMMA OpenInFlightKept ==
    ASSUME HidTypes, OpenInFlight, [HidNext]_hid
    PROVE  OpenInFlight'
<1>t. HidTypeOK /\ flight \in [Devices -> Reports \cup {Free, Failed}]
  BY DEF HidTypes, HidTypeOK
<1>u. Up \in Reports /\ Keys \subseteq Reports /\ "keyboard" \in Devices
  BY HidAssumption DEF HidAssumption, Up, Reports
<1>1. ASSUME UNCHANGED <<open, flight>> PROVE OpenInFlight'
  BY <1>1 DEF OpenInFlight, InFlight
<1>2. ASSUME NEW s \in Sockets,
             \/ Connect(s) \/ HeartBeat(s) \/ Disconnect(s) \/ StartRelease(s) \/ Released(s)
      PROVE  OpenInFlight'
  BY <1>1, <1>2 DEF Connect, HeartBeat, Disconnect, StartRelease, Released
<1>3. ASSUME NEW s \in Sockets, NEW d \in Devices, Release(s, d) PROVE OpenInFlight'
  BY <1>3, <1>t, <1>u, WriteOpens DEF Release
<1>4. ASSUME NEW s \in Sockets, NEW d \in Devices, NEW r \in Keys \cup {Up}, Send(s, d, r)
      PROVE  OpenInFlight'
  <2>1. Write(d, r) /\ r \in Reports
    BY <1>4, <1>u DEF Send
  <2>2. QED
    BY <2>1, <1>t, WriteOpens
<1>5. ASSUME NEW text \in Texts, NEW lang \in {"", "de", "fr"}, StartPaste(text, lang)
      PROVE  OpenInFlight'
  BY <1>1, <1>5 DEF StartPaste
<1>6. CASE SkipCharacter \/ EndPaste \/ HangUp
  BY <1>1, <1>6 DEF SkipCharacter, EndPaste, HangUp, PasteOver
<1>7. CASE Stroke
  <2>1. stroke + 1 \in 1..Len(strokes)
    BY <1>7, PairedLength DEF Stroke, HidTypes, HidTypeOK
  <2>2. strokes[stroke + 1] \in Reports
    BY <1>7, <2>1, ElementOfSeq DEF Stroke, HidTypes, Paired
  <2>3. QED
    BY <1>7, <1>t, <1>u, <2>2, WriteOpens DEF Stroke
<1>8. CASE Quiet \/ Decide \/ \E mode \in Mice \cup {"off"} : SetJiggler(mode)
  BY <1>1, <1>8 DEF Quiet, Decide, SetJiggler
<1>9. CASE Jiggle
  <2>1. moving \in Devices /\ Write(moving, Up)
    BY <1>9, <1>t DEF Jiggle, HidTypeOK, Mice
  <2>2. QED
    BY <1>t, <1>u, <2>1, WriteOpens
<1>10. CASE ResetHid
  BY <1>10, <1>t DEF ResetHid, OpenInFlight, InFlight, Reports, Failed
<1>11. ASSUME NEW d \in Devices, Deliver(d) \/ Fail(d) PROVE OpenInFlight'
  BY <1>11, <1>t DEF Deliver, Fail, OpenInFlight, InFlight, Reports, Free, Failed
<1>12. CASE UNCHANGED hid
  BY <1>1, <1>12 DEF hid
<1>13. QED
  BY <1>2, <1>3, <1>4, <1>5, <1>6, <1>7, <1>8, <1>9, <1>10, <1>11, <1>12 DEF HidNext

(* One stroke of a paste: the report written comes next.                   *)
LEMMA StrokeUnmixed ==
    ASSUME PasteInv, Stroke
    PROVE  PasteUnmixed'
<1> SUFFICES ASSUME ~torn' PROVE Follows(Got', before', strokes', stroke')
  BY DEF PasteUnmixed
<1>1. /\ lock = "paste" /\ ~torn /\ ~lost'["keyboard"]
      /\ before' = before /\ typed' = typed /\ strokes' = strokes /\ stroke' = stroke + 1
      /\ Write("keyboard", strokes[stroke + 1]) /\ strokes[stroke + 1] # Skip
  BY DEF Stroke, Tear
<1>2. HidTypeOK /\ stroke \in Nat /\ before \in Seq(Reports)
  BY PairedLength DEF PasteInv, HidTypes, HidTypeOK
<1>3. strokes[stroke + 1] \in Reports
  <2>1. stroke + 1 \in 1..Len(strokes)
    BY PairedLength DEF Stroke, PasteInv, HidTypes, HidTypeOK
  <2>2. QED
    BY <1>1, <2>1, ElementOfSeq DEF PasteInv, HidTypes, Paired
<1>4. Got \in Seq(Reports) /\ Got' = Append(Got, strokes[stroke + 1])
  BY <1>1, <1>2, <1>3, WriteNext DEF PasteInv
<1>5. Follows(Got, before, strokes, stroke)
  BY <1>1 DEF PasteInv, PasteUnmixed
<1>6. Follows(Append(Got, strokes[stroke + 1]), before, strokes, stroke + 1)
  BY <1>1, <1>2, <1>3, <1>4, <1>5, FollowsOne
<1>7. QED
  BY <1>1, <1>4, <1>6

(* A report fetched moves from what is coming to what has come.            *)
LEMMA DeliverUnmixed ==
    ASSUME PasteInv, NEW d \in Devices, Deliver(d)
    PROVE  PasteUnmixed'
<1> SUFFICES ASSUME lock = "paste", ~torn PROVE Follows(Got', before, strokes, stroke)
  BY DEF PasteUnmixed, Deliver
<1>t. /\ flight \in [Devices -> Reports \cup {Free, Failed}] /\ typed \in Seq(Reports)
      /\ "keyboard" \in Devices
  BY HidAssumption DEF PasteInv, HidTypes, HidTypeOK, HidAssumption
<1>1. CASE d = "keyboard"
  <2>1. Got = typed \o <<flight["keyboard"]>> /\ flight["keyboard"] \in Reports
    BY <1>1 DEF Deliver, Got, InFlight
  <2>2. typed' = Append(typed, flight["keyboard"]) /\ ~InFlight("keyboard")'
    BY <1>1, <1>t DEF Deliver, InFlight, Free, Reports
  <2>3. Append(typed, flight["keyboard"]) \in Seq(Reports)
    BY <1>t, <2>1, AppendProperties
  <2>4. Got' = Append(typed, flight["keyboard"])
    <3>1. Got' = typed' \o <<>>
      BY <2>2 DEF Got
    <3>2. QED
      BY <2>2, <2>3, <3>1, ConcatEmptySeq
  <2>5. Got' = Got
    BY <1>t, <2>1, <2>4, AppendIsConcat
  <2>6. QED
    BY <2>5 DEF PasteInv, PasteUnmixed
<1>2. CASE d # "keyboard"
  <2>1. typed' = typed /\ flight'["keyboard"] = flight["keyboard"]
    BY <1>2, <1>t DEF Deliver
  <2>2. Got' = Got
    BY <2>1 DEF Got, InFlight
  <2>3. QED
    BY <2>2 DEF PasteInv, PasteUnmixed
<1>3. QED
  BY <1>1, <1>2

(* Pasted text is not mixed with what sockets send (hid.rs 75-89).  The    *)
(* lock keeps other writers out; what is left is the engine itself: a      *)
(* report in flight is never overwritten, and a dropped one is noticed.    *)
THEOREM PasteUnmixedInvariant == HidSpec => []PasteUnmixed
<1>1. HidInit => OpenInFlight /\ PasteUnmixed
  BY DEF HidInit, OpenInFlight, InFlight, Reports, Free, PasteUnmixed
<1>2. PasteInv /\ [HidNext]_hid => PasteUnmixed'
  <2> SUFFICES ASSUME PasteInv, [HidNext]_hid PROVE PasteUnmixed'
    OBVIOUS
  <2>t. /\ HidTypeOK /\ Paired(strokes) /\ stroke \in Nat
        /\ typed \in Seq(Reports) /\ before \in Seq(Reports)
        /\ "keyboard" \in Devices /\ Sockets \cap {"free", "paste", "jiggler"} = {}
    BY HidAssumption, PairedLength DEF PasteInv, HidTypes, HidTypeOK, HidAssumption
  <2>1. ASSUME UNCHANGED <<flight, lock, paste>> PROVE PasteUnmixed'
    BY <2>1 DEF PasteInv, PasteUnmixed, Got, InFlight, paste
  <2>2. ASSUME lock' # "paste" PROVE PasteUnmixed'
    BY <2>2 DEF PasteUnmixed
  <2>3. ASSUME torn' PROVE PasteUnmixed'
    BY <2>3 DEF PasteUnmixed
  <2>4. ASSUME NEW s \in Sockets, Connect(s) \/ HeartBeat(s) \/ Disconnect(s)
        PROVE  PasteUnmixed'
    BY <2>1, <2>4 DEF Connect, HeartBeat, Disconnect
  <2>5. ASSUME NEW s \in Sockets, StartRelease(s) \/ Released(s) PROVE PasteUnmixed'
    BY <2>2, <2>5, <2>t DEF StartRelease, Released
  <2>6. ASSUME NEW s \in Sockets, NEW d \in Devices, Release(s, d) PROVE PasteUnmixed'
    BY <2>2, <2>6, <2>t DEF Release
  <2>7. ASSUME NEW s \in Sockets, NEW d \in Devices, NEW r \in Keys \cup {Up}, Send(s, d, r)
        PROVE  PasteUnmixed'
    BY <2>2, <2>7 DEF Send
  <2>8. ASSUME NEW text \in Texts, NEW lang \in {"", "de", "fr"}, StartPaste(text, lang)
        PROVE  PasteUnmixed'
    <3>1. /\ before' = IF InFlight("keyboard") THEN <<flight["keyboard"]>> ELSE <<>>
          /\ typed' = <<>> /\ stroke' = 0 /\ flight' = flight
      BY <2>8 DEF StartPaste
    <3>2. before' \in Seq(Reports)
      <4>1. CASE InFlight("keyboard")
        BY <3>1, <4>1, ShortSeq DEF InFlight
      <4>2. CASE ~InFlight("keyboard")
        BY <3>1, <4>2, ShortSeq
      <4>3. QED
        BY <4>1, <4>2
    <3>3. Got' = <<>> \o before'
      BY <3>1 DEF Got, InFlight
    <3>4. Got' = before'
      BY <3>2, <3>3, ConcatEmptySeq
    <3>5. Follows(before', before', strokes', 0)
      BY <3>2, FollowsNone
    <3>6. QED
      BY <3>1, <3>4, <3>5 DEF PasteUnmixed
  <2>9. CASE SkipCharacter
    <3>1. /\ strokes[stroke + 1] = Skip /\ stroke % 2 = 0 /\ stroke < Len(strokes)
          /\ stroke' = stroke + 2
          /\ UNCHANGED <<flight, lock, strokes, before, typed, torn>>
      BY <2>9 DEF SkipCharacter
    <3>2. stroke + 1 \in 1..Len(strokes) /\ (stroke + 1) % 2 = 1
      BY <3>1, <2>t, PairedLength
    <3>3. strokes[stroke + 1 + 1] = Skip /\ stroke + 1 + 1 = stroke + 2
      BY <3>1, <3>2, <2>t DEF Paired
    <3>4. Due(strokes, stroke + 2) = Due(strokes, stroke)
      BY <3>1, <3>3, <2>t, SkippedNotDue
    <3>5. Got' = Got
      BY <3>1 DEF Got, InFlight
    <3>6. QED
      BY <3>1, <3>4, <3>5 DEF PasteInv, PasteUnmixed, Follows
  <2>10. CASE Stroke
    BY <2>10, StrokeUnmixed
  <2>11. CASE EndPaste \/ HangUp
    BY <2>2, <2>11 DEF EndPaste, HangUp, PasteOver
  <2>12. CASE Quiet \/ Decide \/ \E mode \in Mice \cup {"off"} : SetJiggler(mode)
    BY <2>1, <2>12 DEF Quiet, Decide, SetJiggler
  <2>13. CASE Jiggle
    BY <2>2, <2>13 DEF Jiggle
  <2>14. ASSUME ~torn', Tear(InFlight("keyboard")), lock' = lock, lock = "paste"
         PROVE  ~InFlight("keyboard") /\ ~torn /\ UNCHANGED <<before, typed>>
    BY <2>14 DEF Tear
  <2>15. CASE ResetHid
    <3>1. CASE lock = "paste" /\ ~torn'
      <4>1. ~InFlight("keyboard") /\ ~torn /\ UNCHANGED <<before, typed, lock, strokes, stroke>>
        BY <2>14, <2>15, <3>1 DEF ResetHid
      <4>2. ~InFlight("keyboard")'
        BY <2>15, <2>t, <4>1 DEF ResetHid, InFlight
      <4>3. Got' = Got
        BY <4>1, <4>2 DEF Got
      <4>4. QED
        BY <3>1, <4>1, <4>3 DEF PasteInv, PasteUnmixed
    <3>2. CASE lock # "paste"
      BY <2>2, <2>15, <3>2 DEF ResetHid
    <3>3. QED
      BY <2>3, <3>1, <3>2
  <2>16. ASSUME NEW d \in Devices, Deliver(d) PROVE PasteUnmixed'
    BY <2>16, DeliverUnmixed
  <2>17. ASSUME NEW d \in Devices, Fail(d) PROVE PasteUnmixed'
    <3>1. CASE lock = "paste" /\ ~torn'
      <4>1. d # "keyboard" /\ ~torn /\ UNCHANGED <<before, typed, lock, strokes, stroke>>
        BY <2>17, <3>1 DEF Fail, Tear
      <4>2. flight'["keyboard"] = flight["keyboard"]
        BY <2>17, <2>t, <4>1 DEF Fail, HidTypeOK
      <4>3. Got' = Got
        BY <4>1, <4>2 DEF Got, InFlight
      <4>4. QED
        BY <3>1, <4>1, <4>3 DEF PasteInv, PasteUnmixed
    <3>2. CASE lock # "paste"
      BY <2>2, <2>17, <3>2 DEF Fail
    <3>3. QED
      BY <2>3, <3>1, <3>2
  <2>18. CASE UNCHANGED hid
    BY <2>1, <2>18 DEF hid
  <2>19. QED
    BY <2>4, <2>5, <2>6, <2>7, <2>8, <2>9, <2>10, <2>11, <2>12, <2>13, <2>15, <2>16, <2>17, <2>18
       DEF HidNext
<1>3. HidTypes /\ OpenInFlight /\ [HidNext]_hid => OpenInFlight'
  BY OpenInFlightKept
<1>4. QED
  BY <1>1, <1>2, <1>3, HidTypesInvariant, PTL DEF HidSpec, PasteInv

-----------------------------------------------------------------------------
(* Together *)

(* The run's behaviours are behaviours of each of the six, so that what is *)
(* proved of each holds of them beside one another.                        *)
THEOREM DevicesTogether ==
    Spec => /\ HidSpec /\ MediaSpec /\ UpdaterSpec
            /\ DownloadSpec /\ TailscaleSpec /\ EthernetSpec
<1>1. Init => /\ HidInit /\ MediaInit /\ UpdaterInit
              /\ DownloadInit /\ TailscaleInit /\ EthernetInit
  BY DEF Init
<1>2. [Next]_<<part, hid, media, updater, download, tailscale, ethernet>> =>
          /\ [HidNext]_hid /\ [MediaNext]_media /\ [UpdaterNext]_updater
          /\ [DownloadNext]_download /\ [TailscaleNext]_tailscale /\ [EthernetNext]_ethernet
  BY DEF Next
<1>3. QED
  BY <1>1, <1>2, PTL DEF Spec, HidSpec, MediaSpec, UpdaterSpec, DownloadSpec, TailscaleSpec,
     EthernetSpec

(* The variables of the six have their types in every reachable state of   *)
(* the run.                                                                *)
THEOREM DevicesTypeCorrect == Spec => []DevicesTypeOK
<1>1. Init => part \in Parts
  BY DEF Init
<1>2. part \in Parts /\ [Next]_<<part, hid, media, updater, download, tailscale, ethernet>>
          => (part \in Parts)'
  BY DEF Next
<1>3. part \in Parts /\ HidTypeOK /\ MediaTypeOK /\ UpdaterTypeOK /\ DownloadTypeOK
          /\ TailscaleTypeOK /\ EthernetTypeOK => DevicesTypeOK
  BY DEF DevicesTypeOK
<1>4. QED
  BY <1>1, <1>2, <1>3, DevicesTogether, HidTypeCorrect, MediaTypeCorrect, UpdaterTypeCorrect,
     DownloadTypeCorrect, TailscaleTypeCorrect, EthernetTypeCorrect, PTL DEF Spec

(* Each of the six keeps its promise in the run of them all.               *)
COROLLARY DevicesRun ==
    Spec => []( /\ KeysReleased /\ PasteUnmixed /\ MediaConsistent /\ UpdatesApart
                /\ ProgramWhole /\ SentinelTells /\ BinariesMatch /\ EthernetApplied )
BY DevicesTogether, KeysReleasedInvariant, PasteUnmixedInvariant, MediaInvariant,
   UpdatesApartInvariant, ProgramWholeInvariant, SentinelInvariant, BinariesInvariant,
   EthernetInvariant, PTL
=============================================================================
