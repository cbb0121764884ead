----------------------------- MODULE BruteForce -----------------------------
(***************************************************************************)
(* Login throttling (server/src/auth/brute_force.rs) under the concurrent  *)
(* logins of auth.rs: the map of failed attempts, the lockout check, and   *)
(* the copy of the map that every change leaves in STATE_FILE.             *)
(*                                                                         *)
(* A login looks at the map, awaits the account, then records a failure or *)
(* clears the address; each is one step under the map's lock.  save() then *)
(* clones the map under the lock and, with no lock at all, truncates and   *)
(* writes one temporary file shared by every login and renames it over     *)
(* STATE_FILE.  A file is an inode: a writer goes on writing to the inode  *)
(* it opened, whatever name that has by then.                              *)
(*                                                                         *)
(* Time is in seconds and only moves forward, up to MaxTime.  Accounts,    *)
(* tokens, bodies, the sleeps of the handler and the audit log are left    *)
(* out; chmod changes nothing modelled here.                               *)
(***************************************************************************)
EXTENDS Naturals, FiniteSets

CONSTANTS
    Ips,          (* client addresses                                      *)
    Logins,       (* login requests that may be under way at the same time *)
    MaxFailures,  (* security.login_max_failures                           *)
    Window,       (* security.login_lockout_duration                       *)
    IdleTtl,      (* IDLE_TTL                                              *)
    MaxRecords,   (* MAX_RECORDS                                           *)
    MaxTime,      (* bound on the clock                                    *)
    Absent,       (* no such file, or no address                           *)
    Empty,        (* a file just truncated                                 *)
    Torn          (* a file with a mixture of two writes                   *)

Attempt == [failures : Nat, lastFailed : Nat, lockoutEnd : Nat]
Unreadable == {Absent, Empty, Torn}

ASSUME ThrottleAssumption ==
    /\ IsFiniteSet(Ips) /\ IsFiniteSet(Logins) /\ Logins # {}
    /\ MaxFailures \in Nat \ {0} /\ Window \in Nat \ {0}
    /\ Absent \notin Ips
    /\ \A known \in SUBSET Ips : Unreadable \cap [known -> Attempt] = {}
    /\ IdleTtl \in Nat /\ MaxRecords \in Nat \ {0} /\ MaxTime \in Nat

VARIABLES
    attempts,  (* the map: address to attempt                              *)
    now,       (* seconds                                                  *)
    login,     (* per request: its stage, and while they matter its address*)
               (* and its clone of the map                                 *)
    fd,        (* per request: what the inode it writes to is called now   *)
    tmp,       (* STATE_FILE.tmp                                           *)
    file,      (* STATE_FILE                                               *)
    saved,     (* history: since the start all saves went well one by one, *)
               (* or two were under way at once, or one failed             *)
    guesses    (* history: failures recorded during the present lockout    *)

disk == <<fd, tmp, file, saved>>
vars == <<attempts, now, login, disk, guesses>>

IsMap(m) == \E known \in SUBSET Ips : m \in [known -> Attempt]
NoRecords == [ip \in {} |-> 0]
Stages == {"idle", "checked", "changed", "cloned", "opened", "written"}

At(stage) == [stage |-> stage, ip |-> Absent, clone |-> NoRecords]

TypeOK ==
    /\ IsMap(attempts)
    /\ now \in Nat
    /\ login \in [Logins -> [stage : Stages, ip : Ips \cup {Absent},
                              clone : {login[r].clone : r \in Logins}]]
    /\ \A r \in Logins : /\ IsMap(login[r].clone)
                         /\ login[r].stage = "checked" => login[r].ip \in Ips
    /\ fd \in [Logins -> {"none", "tmp", "file", "unlinked"}]
    /\ tmp \in Unreadable \/ IsMap(tmp)
    /\ file \in Unreadable \/ IsMap(file)
    /\ saved \in {"well", "crossed", "lost"}
    /\ guesses \in [Ips -> Nat]

Init ==
    /\ attempts = NoRecords
    /\ now = 1
    /\ login = [r \in Logins |-> At("idle")]
    /\ fd = [r \in Logins |-> "none"]
    /\ tmp = Absent /\ file = Absent
    /\ saved = "well"
    /\ guesses = [ip \in Ips |-> 0]

(* What check() looks for: the lockout of ip in map m is in force at t. *)
InForce(m, t, ip) == ip \in DOMAIN m /\ t < m[ip].lockoutEnd
Locked(ip) == InForce(attempts, now, ip)

Goto(r, stage) == login' = [login EXCEPT ![r] = At(stage)]

(* The history of a step during which `failed' had a failure recorded. *)
Watch(failed) ==
    guesses' = [ip \in Ips |->
        IF Locked(ip) /\ InForce(attempts', now', ip)
        THEN guesses[ip] + (IF ip \in failed THEN 1 ELSE 0)
        ELSE 0]

-----------------------------------------------------------------------------
(* A login *)

(* What the mutants of the runs change. *)
CheckUnlocked(r, ip) ==
    /\ login[r].stage = "idle"
    /\ login' = [login EXCEPT ![r] = [At("checked") EXCEPT !.ip = ip]]
    /\ UNCHANGED <<attempts, now, disk, guesses>>

(* check; a locked address is refused and nothing changes. *)
Check(r, ip) ==
    /\ login[r].stage = "idle"
    /\ ~Locked(ip)
    /\ login' = [login EXCEPT ![r] = [At("checked") EXCEPT !.ip = ip]]
    /\ UNCHANGED <<attempts, now, disk, guesses>>

(* The entry of an address, and whether its last failure is past. *)
Entry(m, ip) ==
    IF ip \in DOMAIN m THEN m[ip] ELSE [failures |-> 0, lastFailed |-> 0, lockoutEnd |-> 0]
Stale(old) == old.lastFailed > 0 /\ now - old.lastFailed > Window

(* The count starts again once the window has passed since the last        *)
(* failure; when it reaches MaxFailures the address is locked.             *)
Count(old) == (IF Stale(old) THEN 0 ELSE old.failures) + 1

LockoutEndKept(old) == IF Count(old) >= MaxFailures THEN now + Window ELSE old.lockoutEnd

LockoutEnd(old) ==
    IF Count(old) >= MaxFailures THEN now + Window
    ELSE IF Stale(old) THEN 0 ELSE old.lockoutEnd

(* The map after a failure of ip. *)
Recorded(m, ip) ==
    [i \in DOMAIN m \cup {ip} |->
        IF i = ip
        THEN [failures |-> Count(Entry(m, ip)), lastFailed |-> now,
              lockoutEnd |-> LockoutEnd(Entry(m, ip))]
        ELSE m[i]]

Full(m) == Cardinality(DOMAIN m) >= MaxRecords

(* A wrong password.  A full map is emptied first. *)
RecordFailure(r) ==
    /\ login[r].stage = "checked"
    /\ attempts' = Recorded(IF Full(attempts) THEN NoRecords ELSE attempts, login[r].ip)
    /\ Goto(r, "changed")
    /\ UNCHANGED now
    /\ Watch({login[r].ip})
    /\ UNCHANGED disk

(* The right password. *)
Clear(r) ==
    /\ login[r].stage = "checked"
    /\ attempts' = [ip \in DOMAIN attempts \ {login[r].ip} |-> attempts[ip]]
    /\ Goto(r, "changed")
    /\ UNCHANGED now
    /\ Watch({})
    /\ UNCHANGED disk

-----------------------------------------------------------------------------
(* save *)

Saving(r) == login[r].stage \in {"cloned", "opened", "written"}

CloneMap(r) ==
    /\ login[r].stage = "changed"
    /\ login' = [login EXCEPT ![r] = [At("cloned") EXCEPT !.clone = attempts]]
    /\ saved' = IF saved = "well" /\ \E q \in Logins \ {r} : Saving(q)
                 THEN "crossed" ELSE saved
    /\ UNCHANGED <<attempts, now, fd, tmp, file, guesses>>

(* fs::write opens the temporary file, which truncates or creates it ... *)
OpenTmp(r) ==
    /\ login[r].stage = "cloned"
    /\ tmp' = Empty
    /\ fd' = [fd EXCEPT ![r] = "tmp"]
    /\ login' = [login EXCEPT ![r].stage = "opened"]
    /\ UNCHANGED <<attempts, now, file, saved, guesses>>

(* What writing m at the start of an inode that holds old leaves in it:    *)
(* the tail of a longer text stays.                                        *)
Overwritten(old, m) == IF old \in {Empty, m} THEN {m} ELSE {m, Torn}

(* ... and writes to what that file has become. *)
WriteTmp(r) ==
    /\ login[r].stage = "opened"
    /\ IF fd[r] = "tmp" THEN tmp' \in Overwritten(tmp, login[r].clone) ELSE UNCHANGED tmp
    /\ IF fd[r] = "file" THEN file' \in Overwritten(file, login[r].clone) ELSE UNCHANGED file
    /\ fd' = [fd EXCEPT ![r] = "none"]
    /\ Goto(r, "written")
    /\ UNCHANGED <<attempts, now, saved, guesses>>

(* A write that fails ends the save. *)
WriteFails(r) ==
    /\ login[r].stage = "opened"
    /\ fd' = [fd EXCEPT ![r] = "none"]
    /\ saved' = "lost"
    /\ Goto(r, "idle")
    /\ UNCHANGED <<attempts, now, tmp, file, guesses>>

RenameCopy(r) ==
    /\ login[r].stage = "written"
    /\ tmp' = Absent
    /\ Goto(r, "idle")
    /\ UNCHANGED <<attempts, now, fd, file, saved, guesses>>

(* rename moves the temporary file over STATE_FILE; if another login has   *)
(* moved it already there is a warning and no more.                        *)
Rename(r) ==
    /\ login[r].stage = "written"
    /\ IF tmp = Absent
       THEN /\ saved' = "lost"
            /\ UNCHANGED <<fd, tmp, file>>
       ELSE /\ file' = tmp /\ tmp' = Absent
            /\ fd' = [q \in Logins |-> CASE fd[q] = "tmp" -> "file"
                                         [] fd[q] = "file" -> "unlinked"
                                         [] OTHER -> fd[q]]
            /\ UNCHANGED saved
    /\ Goto(r, "idle")
    /\ UNCHANGED <<attempts, now, guesses>>

(* The client goes away while the handler awaits the account, or the write *)
(* of the temporary file, which a blocking thread finishes all the same.   *)
HangUp(r) ==
    /\ login[r].stage \in {"checked", "written"}
    /\ saved' = IF login[r].stage = "written" THEN "lost" ELSE saved
    /\ Goto(r, "idle")
    /\ UNCHANGED <<attempts, now, fd, tmp, file, guesses>>

-----------------------------------------------------------------------------
(* The clock, the cleanup task and restarts *)

Tick ==
    /\ now < MaxTime
    /\ now' = now + 1
    /\ UNCHANGED attempts
    /\ Watch({})
    /\ UNCHANGED <<login, disk>>

KeptIfLocked(ip) == now < attempts[ip].lockoutEnd

(* What retain() keeps. *)
Kept(ip) ==
    IF attempts[ip].lockoutEnd > 0
    THEN now < attempts[ip].lockoutEnd
    ELSE now - attempts[ip].lastFailed < IdleTtl

(* The result is not saved.  The record cap cannot be exceeded here.       *)
Cleanup ==
    /\ attempts' = [ip \in {i \in DOMAIN attempts : Kept(i)} |-> attempts[ip]]
    /\ UNCHANGED now
    /\ Watch({})
    /\ UNCHANGED <<login, disk>>

(* load: a missing file or one that does not parse is no records. *)
Loaded == IF file \in Unreadable THEN NoRecords ELSE file

(* The process ends at any point and starts again. *)
Restart ==
    /\ attempts' = Loaded
    /\ login' = [r \in Logins |-> At("idle")]
    /\ fd' = [r \in Logins |-> "none"]
    /\ saved' = "well"
    /\ UNCHANGED now
    /\ Watch({})
    /\ UNCHANGED <<tmp, file>>

-----------------------------------------------------------------------------
Save(r) == CloneMap(r) \/ OpenTmp(r) \/ WriteTmp(r) \/ WriteFails(r) \/ Rename(r)

Attend(r) ==
    \/ \E ip \in Ips : Check(r, ip)
    \/ RecordFailure(r) \/ Clear(r) \/ HangUp(r)

Next ==
    \/ \E r \in Logins : Attend(r) \/ Save(r)
    \/ Tick \/ Cleanup \/ Restart

Spec == Init /\ [][Next]_vars

-----------------------------------------------------------------------------
(* Properties. *)

(* Requests for ip that the check has let through. *)
Through(ip) == {r \in Logins : login[r].stage = "checked" /\ login[r].ip = ip}

(* The check is made before the account is awaited and the failure counted *)
(* after, so logins that run together may all guess once an address is     *)
(* locked - but never more often than there are others under way.          *)
GuessesBounded ==
    \A ip \in Ips : Locked(ip) => guesses[ip] + Cardinality(Through(ip)) < Cardinality(Logins)

(* A lockout, in memory, on disk or on its way there, was earned by        *)
(* MaxFailures failures and lasts Window from the last of them: no race    *)
(* and no restart locks an address out for less, or longer.                *)
Earned(m) ==
    \A ip \in DOMAIN m : m[ip].lockoutEnd > 0 =>
        m[ip].failures >= MaxFailures /\ m[ip].lockoutEnd = m[ip].lastFailed + Window

LocksAreEarned ==
    /\ Earned(attempts)
    /\ \A r \in Logins : Earned(login[r].clone)
    /\ tmp \notin Unreadable => Earned(tmp)
    /\ file \notin Unreadable => Earned(file)

(* As long as it is quick enough to matter a count of failures is only     *)
(* lowered by a login that succeeds from that address, by emptying a full  *)
(* map or by a restart.                                                    *)
Recent(ip) ==
    /\ ip \in DOMAIN attempts
    /\ \/ Locked(ip)
       \/ attempts[ip].lockoutEnd = 0 /\ now - attempts[ip].lastFailed < IdleTtl
                                      /\ now - attempts[ip].lastFailed =< Window

FailuresRemembered ==
    [][\A ip \in Ips :
          Recent(ip) =>
              \/ ip \in DOMAIN attempts' /\ attempts'[ip].failures >= attempts[ip].failures
              \/ \E r \in Logins : Clear(r) /\ login[r].ip = ip
              \/ Full(attempts) /\ \E r \in Logins : RecordFailure(r)
              \/ Restart]_vars

(* "Persisted lockout state": when no save is under way and none was lost  *)
(* since the start, an address is locked out by the file exactly when it   *)
(* is by the map, so a restart changes nothing (brute_force.rs 40).        *)
Quiet == \A r \in Logins : login[r].stage \in {"idle", "checked"}
LockoutIsOnDisk ==
    Quiet /\ saved # "lost" => \A ip \in Ips : Locked(ip) <=> InForce(Loaded, now, ip)

(* What is left of it because saves take no lock: it holds as long as no   *)
(* two saves were under way at once.                                       *)
OnDiskUnlessCrossed == saved # "crossed" => LockoutIsOnDisk
=============================================================================
