------------------------------- MODULE Updater -------------------------------
(***************************************************************************)
(* Updates of the program (application.rs): one uploaded by the operator,  *)
(* in a handler that ends where it waits when the client goes away, or one *)
(* fetched from the release server by a task of its own.  The flag         *)
(* IS_UPDATING of a server keeps them apart.  Both run the install.sh of   *)
(* the package and wait for it, then restart the service.  The install.sh  *)
(* of scripts/ stops the service itself, and starts it, whatever           *)
(* NANOKVM_SKIP_SERVICE says.  Stopping (S95nanokvm) signals the server    *)
(* and gives up after five seconds: a task that waits for install.sh keeps *)
(* the old server alive, a request under way may, and install.sh goes on   *)
(* in any case.                                                            *)
(***************************************************************************)
CONSTANT
    Updates   (* update requests that may be under way together            *)

VARIABLES
    running,     (* a server takes requests                                *)
    IS_UPDATING, (* its flag                                               *)
    update,      (* where each request is                                  *)
    script,      (* where the install.sh of each is                        *)
    strays,      (* those under way when a later server was started        *)
    program,     (* what is installed: "old", "new", or "half"             *)
    dropped,     (* history: a handler was dropped with the flag set       *)
    excuse       (* history: the last copy failed, or crossed a stray's    *)

updater == <<running, IS_UPDATING, update, script, strays, program, dropped, excuse>>

Unpacking == {"offline", "online"}
Waiting == {"offline install.sh", "online install.sh"}
(* An install.sh copies, alone or while another one copies as well. *)
Copying == {"copying", "mixing"}
(* The steps a request makes with the flag. *)
Busy == Unpacking \cup Waiting \cup {"uploading", "wiping", "fetching", "pausing"}

UpdaterTypeOK ==
    /\ running \in BOOLEAN /\ IS_UPDATING \in BOOLEAN
    /\ update \in [Updates -> Busy \cup {"idle", "restarting"}]
    /\ script \in [Updates -> Copying \cup {"none", "stop", "copy", "start", "end"}]
    /\ strays \subseteq Updates
    /\ program \in {"old", "new", "half"}
    /\ dropped \in BOOLEAN /\ excuse \in BOOLEAN

UpdaterInit ==
    /\ running = TRUE /\ IS_UPDATING = FALSE
    /\ update = [u \in Updates |-> "idle"] /\ script = [u \in Updates |-> "none"]
    /\ strays = {}
    /\ program = "old"
    /\ dropped = FALSE /\ excuse = FALSE

AtWork(u) == update[u] \in Busy \/ script[u] # "none"
Ended(u) == update[u] = "idle" /\ script[u] = "none"

UpdateTo(u, step) == update' = [update EXCEPT ![u] = step]
ScriptTo(u, step) == script' = [script EXCEPT ![u] = step]

(* The server of request u, told to stop or not, sets its flag. *)
Flag(u, value) == IS_UPDATING' = IF running /\ u \notin strays THEN value ELSE IS_UPDATING

(* Those that have ended are strays no longer. *)
StraysAmong(S) == strays' = {u \in S : ~Ended(u)'}

(* What the mutants of the runs change. *)
ClaimAlways == running /\ IS_UPDATING' = TRUE

(* IS_UPDATING.swap(true): refused when it was set. *)
Claim ==
    /\ running /\ ~IS_UPDATING
    /\ IS_UPDATING' = TRUE

-----------------------------------------------------------------------------
(* The service (scripts/S95nanokvm). *)

(* The server takes no more requests. *)
Stop == running' = FALSE /\ IS_UPDATING' = FALSE /\ dropped' = FALSE

(* Nothing is started beside a server that runs. *)
Start ==
    /\ running' = TRUE
    /\ StraysAmong(IF running THEN strays ELSE Updates)
    /\ UNCHANGED <<IS_UPDATING, dropped>>

(* Stop, and start, which may fail. *)
Restart ==
    /\ running' \in BOOLEAN
    /\ StraysAmong(IF running' THEN Updates ELSE strays)
    /\ IS_UPDATING' = FALSE /\ dropped' = FALSE

-----------------------------------------------------------------------------
(* offline_update_handler *)

StartOffline(u) ==
    /\ Ended(u)
    /\ Claim
    /\ UpdateTo(u, "uploading")
    /\ UNCHANGED <<running, script, strays, program, dropped, excuse>>

(* Nothing uploaded, a bad name, a checksum that is not known or not       *)
(* right, or an error of the file system;                                  *)
RefuseOffline(u) ==
    /\ update[u] = "uploading"
    /\ UpdateTo(u, "idle") /\ Flag(u, FALSE)
    /\ UNCHANGED <<running, script, program, dropped, excuse>>
    /\ StraysAmong(strays)

HangUpOffline(u) ==
    /\ update[u] = "uploading"
    /\ UpdateTo(u, "idle")
    /\ dropped' = (dropped \/ (running /\ u \notin strays))
    /\ UNCHANGED <<running, IS_UPDATING, script, program, excuse>>
    /\ StraysAmong(strays)

(* the package is written, and install_package runs in a task.             *)
StoreOffline(u) ==
    /\ update[u] = "uploading"
    /\ UpdateTo(u, "offline")
    /\ UNCHANGED <<running, IS_UPDATING, script, strays, program, dropped, excuse>>

-----------------------------------------------------------------------------
(* update_handler and perform_update *)

StartOnline(u) ==
    /\ Ended(u)
    /\ Claim
    /\ UpdateTo(u, "wiping")
    /\ UNCHANGED <<running, script, strays, program, dropped, excuse>>

(* CACHE_DIR is removed, whoever else uses it; *)
Wipe(u) ==
    /\ update[u] = "wiping"
    /\ UpdateTo(u, "fetching")
    /\ UNCHANGED <<running, IS_UPDATING, script, strays, program, dropped, excuse>>

(* latest.json and the package are fetched and the checksum is right,      *)
Fetch(u) ==
    /\ update[u] = "fetching"
    /\ UpdateTo(u, "online")
    /\ UNCHANGED <<running, IS_UPDATING, script, strays, program, dropped, excuse>>

(* or not.                                                                 *)
FailFetch(u) ==
    /\ update[u] \in {"wiping", "fetching"}
    /\ UpdateTo(u, "idle") /\ Flag(u, FALSE)
    /\ UNCHANGED <<running, script, program, dropped, excuse>>
    /\ StraysAmong(strays)

-----------------------------------------------------------------------------
(* install_package *)

(* What a task does when install_package has returned: the offline one     *)
(* clears the flag and restarts the service in any case, the online one    *)
(* restarts it after success, a second later, and then clears the flag.    *)
Afterwards(u, ok) ==
    IF update[u] \in {"offline", "offline install.sh"}
        THEN UpdateTo(u, "restarting") /\ Flag(u, FALSE)
    ELSE IF ok THEN UpdateTo(u, "pausing") /\ UNCHANGED IS_UPDATING
    ELSE UpdateTo(u, "idle") /\ Flag(u, FALSE)

(* What the mutants of the runs change: nobody waits for install.sh. *)
UnpackAndSpawn(u) ==
    /\ update[u] \in Unpacking
    /\ Afterwards(u, TRUE)
    /\ ScriptTo(u, "stop")
    /\ UNCHANGED <<running, strays, program, dropped, excuse>>

(* The archive is unpacked and install.sh runs; *)
Unpack(u) ==
    /\ update[u] \in Unpacking
    /\ UpdateTo(u, IF update[u] = "offline" THEN "offline install.sh" ELSE "online install.sh")
    /\ ScriptTo(u, "stop")
    /\ UNCHANGED <<running, IS_UPDATING, strays, program, dropped, excuse>>

(* an entry is unsafe, or install.sh is missing. *)
FailUnpack(u) ==
    /\ update[u] \in Unpacking
    /\ Afterwards(u, FALSE)
    /\ UNCHANGED <<running, script, program, dropped, excuse>>
    /\ StraysAmong(strays)

(* install.sh is over; its updater, if it is still there, goes on. *)
ScriptOver(u, ok) ==
    /\ ScriptTo(u, "none")
    /\ IF update[u] \in Waiting THEN Afterwards(u, ok) ELSE UNCHANGED <<update, IS_UPDATING>>
    /\ StraysAmong(strays)

-----------------------------------------------------------------------------
(* install.sh *)

(* It stops the service, if there is one and it does not skip this. *)
StopService(u) ==
    /\ script[u] = "stop"
    /\ ScriptTo(u, "copy")
    /\ Stop \/ UNCHANGED <<running, IS_UPDATING, dropped>>
    /\ UNCHANGED <<update, strays, program, excuse>>

(* Two copies at a time may be one broken program. *)
BeginCopy(u) ==
    LET others == {v \in Updates \ {u} : script[v] \in Copying}
    IN  /\ script[u] = "copy"
        /\ script' = [v \in Updates |->
                         IF v = u /\ others = {} THEN "copying"
                         ELSE IF v \in others \cup {u} THEN "mixing" ELSE script[v]]
        /\ program' = "half"
        /\ excuse' = (others # {} /\ (excuse \/ (others \cup {u}) \cap strays # {}))
        /\ UNCHANGED <<running, IS_UPDATING, update, strays, dropped>>

EndCopy(u) ==
    /\ script[u] \in Copying
    /\ ScriptTo(u, "start")
    /\ \/ program' = "new" /\ \A v \in Updates \ {u} : script[v] \notin Copying
       \/ script[u] = "mixing" /\ UNCHANGED program
    /\ UNCHANGED <<running, IS_UPDATING, update, strays, dropped, excuse>>

(* It starts the service and waits until it answers. *)
StartService(u) ==
    /\ script[u] = "start"
    /\ ScriptTo(u, "end")
    /\ UNCHANGED update
    /\ Start \/ UNCHANGED <<running, IS_UPDATING, strays, dropped>>
    /\ UNCHANGED <<program, excuse>>

Install(u) ==
    /\ script[u] = "end"
    /\ ScriptOver(u, TRUE)
    /\ UNCHANGED <<running, program, dropped, excuse>>

(* A command fails, and with it install.sh: a file is missing or the       *)
(* program is busy, or the server does not come up.                        *)
FailInstall(u) ==
    /\ script[u] \in Copying \cup {"stop", "copy", "end"}
    /\ ScriptOver(u, FALSE)
    /\ excuse' = (excuse \/ script[u] \in Copying)
    /\ UNCHANGED <<running, program, dropped>>

-----------------------------------------------------------------------------
(* Restarts *)

RestartAfter(u) ==
    /\ update[u] \in {"restarting", "pausing"}
    /\ UpdateTo(u, "idle")
    /\ UNCHANGED script
    /\ Restart
    /\ UNCHANGED <<program, excuse>>

(* The init script is not there. *)
NoRestart(u) ==
    /\ update[u] \in {"restarting", "pausing"}
    /\ UpdateTo(u, "idle")
    /\ IF update[u] = "pausing" THEN Flag(u, FALSE) ELSE UNCHANGED IS_UPDATING
    /\ UNCHANGED <<running, script, program, dropped, excuse>>
    /\ StraysAmong(strays)

(* The operator, or the TLS setting, restarts the service. *)
RestartOutside ==
    /\ UNCHANGED <<update, script>>
    /\ Restart
    /\ UNCHANGED <<program, excuse>>

(* A task of a server that was told to stop ends. *)
EndTask(u) ==
    /\ ~running \/ u \in strays
    /\ update[u] # "idle"
    /\ UpdateTo(u, "idle")
    /\ UNCHANGED script
    /\ UNCHANGED <<running, IS_UPDATING, program, dropped, excuse>>
    /\ StraysAmong(strays)

(* The board loses its power, and starts. *)
PowerCycle ==
    /\ running' = TRUE /\ IS_UPDATING' = FALSE /\ dropped' = FALSE
    /\ update' = [u \in Updates |-> "idle"] /\ script' = [u \in Updates |-> "none"]
    /\ strays' = {}
    /\ excuse' = (excuse \/ \E u \in Updates : script[u] \in Copying)
    /\ UNCHANGED program

UpdaterNext ==
    \/ \E u \in Updates :
          \/ StartOffline(u) \/ RefuseOffline(u) \/ HangUpOffline(u) \/ StoreOffline(u)
          \/ StartOnline(u) \/ Wipe(u) \/ Fetch(u) \/ FailFetch(u)
          \/ Unpack(u) \/ FailUnpack(u)
          \/ StopService(u) \/ BeginCopy(u) \/ EndCopy(u) \/ StartService(u)
          \/ Install(u) \/ FailInstall(u)
          \/ RestartAfter(u) \/ NoRestart(u) \/ EndTask(u)
    \/ RestartOutside \/ PowerCycle

UpdaterSpec == UpdaterInit /\ [][UpdaterNext]_updater

-----------------------------------------------------------------------------
(* Properties. *)

(* Two updates are under way together only when the service was started    *)
(* again under one of them: none else removes the package another installs *)
(* (application.rs 287, 354).  And the flag of the server tells that it    *)
(* has one under way (107, 258), except after a client that went away      *)
(* during its upload: then it stays set until the service is restarted.    *)
UpdatesApart ==
    /\ \A u, v \in Updates \ strays : AtWork(u) /\ AtWork(v) => u = v
    /\ running /\ (\E u \in Updates \ strays : AtWork(u)) => IS_UPDATING
    /\ IS_UPDATING => dropped \/ \E u \in Updates \ strays : update[u] \in Busy

(* The program is left half replaced only by an install.sh that failed, or *)
(* lost its power, or ran together with that of an update of an earlier    *)
(* server; stopping the server does not do it (application.rs 369-375,     *)
(* S95nanokvm 50-61), though the comment at 371-372 fears it.              *)
ProgramWhole == program = "half" => excuse \/ \E u \in Updates : script[u] \in Copying
=============================================================================
