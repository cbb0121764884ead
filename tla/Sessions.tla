------------------------------ MODULE Sessions ------------------------------
(***************************************************************************)
(* The key that signs session tokens, in memory (AppState.jwt_secret) and  *)
(* in the configuration file: logout, which replaces it (auth.rs), loading *)
(* and saving the configuration (config.rs), the TLS request, which saves  *)
(* the configuration the server started with (vm.rs), and restarts.        *)
(*                                                                         *)
(* Nothing locks the file.  fs::write truncates it in one step and writes  *)
(* in another; a text that does not parse, or none, is the default         *)
(* configuration with a key of its own.  Of a configuration the model has  *)
(* the key and whether TLS is on.  A token is accepted when its key is the *)
(* one in memory, so tokens are left out and keys stand for them.          *)
(***************************************************************************)
EXTENDS Naturals, ConfFile

CONSTANTS
    Logouts,     (* logout requests that may be under way at the same time *)
    TlsRequests, (* requests to turn TLS on or off                         *)
    MaxKeys      (* bound on the keys generated                            *)

Requests == Logouts \cup TlsRequests
Keys == 0..MaxKeys
Configuration == [key : Keys, tls : BOOLEAN]
Default(key) == [key |-> key, tls |-> FALSE]

ASSUME SessionsAssumption ==
    /\ MaxKeys \in Nat
    /\ Logouts \cap TlsRequests = {}
    /\ Unreadable \cap Configuration = {}
    /\ Absent \notin {Empty, Torn}

VARIABLES
    server,   (* down, saving (migrated settings at the start) or up       *)
    secret,   (* jwt_secret                                                *)
    boot,     (* AppState.config: the configuration at the start           *)
    config,   (* CONFIG_FILE                                               *)
    stage,    (* where each request is                                     *)
    copy,     (* the configuration each request is about to save           *)
    newKey,   (* the key each logout has generated ...                     *)
    oldKey,   (* ... and the one it replaced                               *)
    issued,   (* keys generated so far                                     *)
    retired,  (* history: keys replaced by logouts that were answered      *)
    wanted,   (* history: the TLS setting last written                     *)
    fate      (* history: requests came one at a time and every save was   *)
              (* complete and up to date (kept), or else what went wrong   *)

request == <<stage, copy, newKey, oldKey>>
memory == <<server, secret, boot>>
history == <<retired, wanted, fate>>
vars == <<memory, config, request, issued, history>>

Stages == {"idle", "rotated", "migrating", "rewriting", "loaded", "opened"}

TypeOK ==
    /\ server \in {"down", "saving", "up"}
    /\ secret \in Keys /\ boot \in Configuration
    /\ config \in Configuration \cup Unreadable
    /\ stage \in [Requests -> Stages] /\ copy \in [Requests -> Configuration]
    /\ newKey \in [Requests -> Keys] /\ oldKey \in [Requests -> Keys]
    /\ issued \in Keys /\ retired \subseteq Keys
    /\ wanted \in BOOLEAN
    /\ fate \in {"kept", "crossed", "stale", "lost"}

Init ==
    /\ server = "down" /\ secret = 0 /\ boot = Default(0)
    /\ config = Absent
    /\ stage = [r \in Requests |-> "idle"]
    /\ copy = [r \in Requests |-> Default(0)]
    /\ newKey = [r \in Requests |-> 0] /\ oldKey = [r \in Requests |-> 0]
    /\ issued = 0 /\ retired = {}
    /\ wanted = FALSE /\ fate = "kept"

(* A request that ends leaves nothing behind. *)
Done(r) ==
    /\ stage' = [stage EXCEPT ![r] = "idle"]
    /\ copy' = [copy EXCEPT ![r] = Default(0)]
    /\ newKey' = [newKey EXCEPT ![r] = 0]
    /\ oldKey' = [oldKey EXCEPT ![r] = 0]

Goto(r, s) == stage' = [stage EXCEPT ![r] = s] /\ UNCHANGED <<copy, newKey, oldKey>>

(* Something goes wrong: an old key saved is the least of it. *)
Spoil(what) == fate' = IF fate \in {"kept", "stale"} THEN what ELSE fate

Alone(r) == \A q \in Requests \ {r} : stage[q] = "idle"

-----------------------------------------------------------------------------
(* The process *)

(* main loads the configuration.  Settings of the old format are migrated  *)
(* and saved before anything is served; they may be at every start.        *)
Start ==
    /\ server = "down"
    /\ \/ /\ config \in Configuration
          /\ boot' = config /\ secret' = config.key
          /\ \/ server' = "up" /\ UNCHANGED config
             \/ server' = "saving" /\ config' = Empty
          /\ UNCHANGED issued
       \/ /\ config \in Unreadable /\ issued < MaxKeys
          /\ issued' = issued + 1
          /\ boot' = Default(issued') /\ secret' = issued'
          /\ server' = "up" /\ UNCHANGED config
    /\ UNCHANGED <<request, history>>

FinishStart ==
    /\ server = "saving"
    /\ config' = boot
    /\ server' = "up"
    /\ UNCHANGED <<secret, boot, request, issued, history>>

(* The process ends, by itself, by a crash or to be restarted for TLS. *)
Stop ==
    /\ server # "down"
    /\ server' = "down"
    /\ stage' = [r \in Requests |-> "idle"]
    /\ copy' = [r \in Requests |-> Default(0)]
    /\ newKey' = [r \in Requests |-> 0] /\ oldKey' = [r \in Requests |-> 0]
    /\ IF server = "saving" \/ \E r \in Requests : stage[r] \in {"rewriting", "opened"}
       THEN Spoil("lost") ELSE UNCHANGED fate
    /\ UNCHANGED <<secret, boot, config, issued, retired, wanted>>

-----------------------------------------------------------------------------
(* Requests *)

(* logout generates a key and replaces the one in memory ... *)
Rotate(r) ==
    /\ server = "up" /\ r \in Logouts /\ stage[r] = "idle"
    /\ issued < MaxKeys
    /\ issued' = issued + 1
    /\ secret' = issued'
    /\ stage' = [stage EXCEPT ![r] = "rotated"]
    /\ newKey' = [newKey EXCEPT ![r] = issued']
    /\ oldKey' = [oldKey EXCEPT ![r] = secret]
    /\ IF Alone(r) THEN UNCHANGED fate ELSE Spoil("crossed")
    /\ UNCHANGED <<server, boot, config, copy, retired, wanted>>

LoadConfigKeepsKey(r) ==
    /\ stage[r] = "rotated"
    /\ copy' = [copy EXCEPT ![r] = IF config \in Configuration THEN config ELSE Default(newKey[r])]
    /\ stage' = [stage EXCEPT ![r] = "loaded"]
    /\ UNCHANGED <<memory, config, newKey, oldKey, issued, history>>

LoadConfigDefault(r) ==
    /\ stage[r] = "rotated"
    /\ copy' = [copy EXCEPT ![r] = Default(newKey[r])]
    /\ stage' = [stage EXCEPT ![r] = "loaded"]
    /\ UNCHANGED <<memory, config, newKey, oldKey, issued, history>>

(* ... loads the file, which may have to be migrated and saved first ... *)
LoadConfig(r) ==
    /\ stage[r] = "rotated"
    /\ \/ /\ config \in Configuration
          /\ copy' = [copy EXCEPT ![r] = config]
          /\ stage' = [stage EXCEPT ![r] = "migrating"]
       \/ /\ copy' = [copy EXCEPT ![r] =
                        IF config \in Configuration
                        THEN [config EXCEPT !.key = newKey[r]]
                        ELSE Default(newKey[r])]
          /\ stage' = [stage EXCEPT ![r] = "loaded"]
    /\ UNCHANGED <<memory, config, newKey, oldKey, issued, history>>

OpenMigrated(r) ==
    /\ stage[r] = "migrating"
    /\ config' = Empty
    /\ Goto(r, "rewriting")
    /\ UNCHANGED <<memory, issued, history>>

(* The client may be gone by the time the blocking thread has written. *)
WriteMigrated(r) ==
    /\ stage[r] = "rewriting"
    /\ config' \in Overwritten(config, copy[r])
    /\ \/ /\ stage' = [stage EXCEPT ![r] = "loaded"]
          /\ copy' = [copy EXCEPT ![r].key = newKey[r]]
          /\ UNCHANGED <<newKey, oldKey>>
       \/ Done(r)
    /\ UNCHANGED <<memory, issued, history>>

(* A migrated file that cannot be saved is used nevertheless. *)
MigrationFails(r) ==
    /\ stage[r] \in {"migrating", "rewriting"}
    /\ stage' = [stage EXCEPT ![r] = "loaded"]
    /\ copy' = [copy EXCEPT ![r].key = newKey[r]]
    /\ IF stage[r] = "rewriting" THEN Spoil("lost") ELSE UNCHANGED fate
    /\ UNCHANGED <<memory, config, newKey, oldKey, issued, retired, wanted>>

(* The TLS request starts from the configuration of the server's start,    *)
(* whose key may have been replaced since.                                 *)
SetTls(r, on) ==
    /\ server = "up" /\ r \in TlsRequests /\ stage[r] = "idle"
    /\ stage' = [stage EXCEPT ![r] = "loaded"]
    /\ copy' = [copy EXCEPT ![r] = [boot EXCEPT !.tls = on]]
    /\ IF ~Alone(r) THEN Spoil("crossed")
       ELSE IF boot.key # secret THEN Spoil("stale") ELSE UNCHANGED fate
    /\ UNCHANGED <<memory, config, newKey, oldKey, issued, retired, wanted>>

(* Config::save *)
OpenConfig(r) ==
    /\ stage[r] = "loaded"
    /\ config' = Empty
    /\ Goto(r, "opened")
    /\ UNCHANGED <<memory, issued, history>>

WriteConfig(r) ==
    /\ stage[r] = "opened"
    /\ config' \in Overwritten(config, copy[r])
    /\ wanted' = IF r \in TlsRequests THEN copy[r].tls ELSE wanted
    /\ retired' \in {retired, IF r \in Logouts THEN retired \cup {oldKey[r]} ELSE retired}
    /\ Done(r)
    /\ UNCHANGED <<memory, issued, fate>>

(* logout answers as if all had gone well. *)
SaveFails(r) ==
    /\ stage[r] \in {"loaded", "opened"}
    /\ Spoil("lost")
    /\ retired' = IF r \in Logouts THEN retired \cup {oldKey[r]} ELSE retired
    /\ Done(r)
    /\ UNCHANGED <<memory, config, issued, wanted>>

(* The client goes away at an await and the handler is dropped. *)
HangUp(r) ==
    /\ stage[r] \in {"rotated", "migrating", "loaded"}
    /\ Done(r)
    /\ UNCHANGED <<memory, config, issued, history>>

-----------------------------------------------------------------------------
Serve(r) ==
    \/ Rotate(r) \/ LoadConfig(r) \/ OpenMigrated(r) \/ WriteMigrated(r) \/ MigrationFails(r)
    \/ \E on \in BOOLEAN : SetTls(r, on)
    \/ OpenConfig(r) \/ WriteConfig(r) \/ SaveFails(r) \/ HangUp(r)

Next ==
    \/ Start \/ FinishStart \/ Stop
    \/ \E r \in Requests : Serve(r)

Spec == Init /\ [][Next]_vars

-----------------------------------------------------------------------------
(* Properties. *)

(* The key in force was not replaced by a logout that was answered. *)
RevokedForGood == secret \notin retired

(* A session ended by a logout stays ended, also after a restart, when     *)
(* requests come one at a time and every save succeeds (revokeTokensOn-    *)
(* Logout, config.rs 141; "failed to persist rotated JWT secret", auth.rs  *)
(* 346).                                                                   *)
RevokedInOrder == fate \in {"kept", "stale"} => RevokedForGood

(* What is left of it: it holds, in memory and on disk, if besides no TLS  *)
(* request saves the configuration of the start over a newer key.          *)
RevokedUnlessOverwritten ==
    fate = "kept" => /\ RevokedForGood
                     /\ config \in Configuration => config.key \notin retired

(* Replacing the key leaves the other settings alone: as long as requests  *)
(* come one at a time and no save is cut short, the file has the TLS       *)
(* setting last asked for and is only unreadable while it is written.      *)
SettingsSurvive ==
    fate \in {"kept", "stale"} =>
        /\ config \in Configuration => config.tls = wanted
        /\ config = Absent => ~wanted
        /\ config \in {Empty, Torn} => server = "saving"
                                       \/ \E r \in Requests : stage[r] \in {"rewriting", "opened"}
=============================================================================
