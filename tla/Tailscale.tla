----------------------------- MODULE Tailscale -----------------------------
(***************************************************************************)
(* Installing, updating and removing Tailscale (tailscale.rs).  Install    *)
(* and the manual update download an archive to WORKSPACE, unpack it there *)
(* beside what is left of older ones, copy two programs out of the first   *)
(* directory that has them, and remove WORKSPACE.  They run in tasks, the  *)
(* removal in its handler, and nothing keeps them apart.  A copy, a        *)
(* download or an unpacking that fails or is cut short has spoilt what it  *)
(* wrote to already.  What `tailscale update' does by itself is taken as   *)
(* one step.                                                               *)
(***************************************************************************)
EXTENDS Naturals

CONSTANTS
    Jobs,       (* tasks and handlers that may be under way together       *)
    MaxVersion  (* bound on the versions that appear                       *)

ASSUME TailscaleAssumption == MaxVersion \in Nat \ {0}

Versions == 1..MaxVersion
None == 0
Broken == MaxVersion + 1
Programs == Versions \cup {None, Broken}

VARIABLES
    newest,    (* the version at ORIGINAL_URL                              *)
    archive,   (* tailscale.tgz in WORKSPACE                               *)
    unpacked,  (* the versions with both programs in WORKSPACE             *)
    cutShort,  (* those whose unpacking did not end                        *)
    cli,       (* TAILSCALE_PATH                                           *)
    daemon,    (* TAILSCALED_PATH                                          *)
    job,       (* where each task is                                       *)
    source,    (* the version each copies                                  *)
    met,       (* history: tasks were together since one alone began to    *)
               (* copy                                                     *)
    partial,   (* history: one did only one of its two copies or removals, *)
               (* spoilt one, or copied from such a directory              *)
    leftover   (* history: one ended without removing WORKSPACE            *)

workspace == <<archive, unpacked, cutShort>>
tailscale == <<newest, workspace, cli, daemon, job, source, met, partial, leftover>>

TailscaleTypeOK ==
    /\ newest \in Versions
    /\ archive \in Versions \cup {None}
    /\ unpacked \subseteq Versions /\ cutShort \subseteq unpacked
    /\ cli \in Programs /\ daemon \in Programs
    /\ job \in [Jobs -> {"idle", "command", "fetch", "unpack", "copy cli", "copy daemon",
                         "clean", "remove cli", "remove daemon"}]
    /\ source \in [Jobs -> Versions \cup {None}]
    /\ met \in BOOLEAN /\ partial \in BOOLEAN /\ leftover \in BOOLEAN

TailscaleInit ==
    /\ newest = 1 /\ archive = None /\ unpacked = {} /\ cutShort = {}
    /\ cli \in {None, 1} /\ daemon = cli
    /\ job = [j \in Jobs |-> "idle"] /\ source = [j \in Jobs |-> None]
    /\ met = FALSE /\ partial = FALSE /\ leftover = FALSE

JobTo(j, step) == job' = [job EXCEPT ![j] = step]
OnlyJob(j) == \A k \in Jobs \ {j} : job[k] = "idle"

-----------------------------------------------------------------------------
(* tailscale_install_handler, trigger_update_handler or the daily task     *)
(* (both only when it is installed), tailscale_uninstall_handler.          *)
StartJob(j, step) ==
    /\ job[j] = "idle"
    /\ step = "command" => cli # None
    /\ JobTo(j, step)
    /\ met' = (met \/ ~OnlyJob(j))
    /\ UNCHANGED <<newest, workspace, cli, daemon, source, partial, leftover>>

(* perform_tailscale_update asks the program to update itself; only one    *)
(* too old to know the command is updated by hand.                         *)
UpdateItself(j) ==
    /\ job[j] = "command" /\ cli \in Versions
    /\ JobTo(j, "idle")
    /\ cli' = newest /\ daemon' = newest
    /\ UNCHANGED <<newest, workspace, source, met, partial, leftover>>

UnknownCommand(j) ==
    /\ job[j] = "command" /\ cli \in Versions
    /\ JobTo(j, "fetch")
    /\ UNCHANGED <<newest, workspace, cli, daemon, source, met, partial, leftover>>

(* perform_tailscale_install and perform_manual_update *)
FetchArchive(j) ==
    /\ job[j] = "fetch"
    /\ JobTo(j, "unpack")
    /\ archive' = newest /\ source' = [source EXCEPT ![j] = newest]
    /\ UNCHANGED <<newest, unpacked, cutShort, cli, daemon, met, partial, leftover>>

UnpackArchive(j) ==
    /\ job[j] = "unpack" /\ archive # None
    /\ JobTo(j, "copy cli")
    /\ unpacked' = unpacked \cup {archive} /\ cutShort' = cutShort \ {archive}
    /\ UNCHANGED <<newest, archive, cli, daemon, source, met, partial, leftover>>

(* A copy of what directory v has. *)
CopyOf(v) == IF v \in cutShort THEN {v, Broken} ELSE {v}

CopyCli(j) ==
    /\ job[j] = "copy cli"
    /\ \E v \in unpacked :
          /\ cli' \in CopyOf(v)
          /\ source' = [source EXCEPT ![j] = v]
          /\ partial' = (v \in cutShort \/ (partial /\ ~OnlyJob(j)))
    /\ JobTo(j, "copy daemon")
    /\ met' = (met /\ ~OnlyJob(j))
    /\ UNCHANGED <<newest, workspace, daemon, leftover>>

(* No directory has both: install ends as if it had succeeded, the update  *)
(* with an error.                                                          *)
NothingToCopy(j) ==
    /\ job[j] = "copy cli" /\ unpacked = {}
    /\ JobTo(j, "clean")
    /\ UNCHANGED <<newest, workspace, cli, daemon, source, met, partial, leftover>>

(* What the mutants of the runs change. *)
CopyNewestDaemon(j) ==
    /\ job[j] = "copy daemon"
    /\ daemon' = newest
    /\ JobTo(j, "clean")
    /\ UNCHANGED <<newest, workspace, cli, source, met, partial, leftover>>

CopyDaemon(j) ==
    /\ job[j] = "copy daemon" /\ source[j] \in unpacked
    /\ daemon' \in CopyOf(source[j])
    /\ JobTo(j, "clean")
    /\ UNCHANGED <<newest, workspace, cli, source, met, partial, leftover>>

Clean(j) ==
    /\ job[j] = "clean"
    /\ archive' = None /\ unpacked' = {} /\ cutShort' = {}
    /\ leftover' = FALSE
    /\ source' = [source EXCEPT ![j] = None]
    /\ JobTo(j, "idle")
    /\ UNCHANGED <<newest, cli, daemon, met, partial>>

(* What may be left of steps that were not finished: the archive or a      *)
(* program truncated, WORKSPACE unpacked or removed in part.               *)
Interrupted(steps) ==
    LET remade == IF "unpack" \in steps THEN {archive} \ {None} ELSE {}
        removed == IF "clean" \in steps THEN unpacked ELSE {}
    IN  /\ \/ UNCHANGED archive
           \/ steps \cap {"fetch", "clean"} # {} /\ archive' = None
        /\ \E more \in SUBSET remade, short \in SUBSET remade,
              gone \in SUBSET (remade \cup removed) :
              /\ unpacked' = (unpacked \cup more) \ gone
              /\ cutShort' = ((cutShort \ more) \cup short) \cap unpacked'
        /\ UNCHANGED cli \/ ("copy cli" \in steps /\ cli' = Broken)
        /\ UNCHANGED daemon \/ ("copy daemon" \in steps /\ daemon' = Broken)
        /\ partial' = (partial \/ cli' = Broken \/ steps \cap {"copy daemon", "remove daemon"} # {})
        /\ leftover' = (leftover \/ steps \cap {"unpack", "copy cli", "copy daemon", "clean"} # {})

(* A step fails, and the task ends; a removal's client goes away.  Only    *)
(* the error of the last step is ignored.                                  *)
FailJob(j) ==
    /\ job[j] # "idle"
    /\ JobTo(j, "idle")
    /\ source' = [source EXCEPT ![j] = None]
    /\ Interrupted({job[j]})
    /\ UNCHANGED <<newest, met>>

(* The removal stops the service and ignores what it cannot remove. *)
RemoveCli(j) ==
    /\ job[j] = "remove cli"
    /\ JobTo(j, "remove daemon")
    /\ \/ cli' = None /\ UNCHANGED partial
       \/ UNCHANGED cli /\ partial' = TRUE
    /\ UNCHANGED <<newest, workspace, daemon, source, met, leftover>>

RemoveDaemon(j) ==
    /\ job[j] = "remove daemon"
    /\ JobTo(j, "idle")
    /\ \/ daemon' = None /\ UNCHANGED partial
       \/ UNCHANGED daemon /\ partial' = TRUE
    /\ UNCHANGED <<newest, workspace, cli, source, met, leftover>>

(* The process ends. *)
EndJobs ==
    /\ job' = [j \in Jobs |-> "idle"] /\ source' = [j \in Jobs |-> None]
    /\ Interrupted({job[j] : j \in Jobs})
    /\ UNCHANGED <<newest, met>>

(* A newer version appears. *)
Publish ==
    /\ newest < MaxVersion /\ newest' = newest + 1
    /\ UNCHANGED <<workspace, cli, daemon, job, source, met, partial, leftover>>

TailscaleNext ==
    \/ \E j \in Jobs :
          \/ \E step \in {"fetch", "command", "remove cli"} : StartJob(j, step)
          \/ UpdateItself(j) \/ UnknownCommand(j)
          \/ FetchArchive(j) \/ UnpackArchive(j) \/ CopyCli(j) \/ NothingToCopy(j) \/ CopyDaemon(j)
          \/ Clean(j) \/ FailJob(j) \/ RemoveCli(j) \/ RemoveDaemon(j)
    \/ EndJobs \/ Publish

TailscaleSpec == TailscaleInit /\ [][TailscaleNext]_tailscale

-----------------------------------------------------------------------------
(* Properties. *)

(* The two programs are whole and of one version unless tasks crossed or   *)
(* one spoilt or did only one of its two copies or removals (tailscale.rs  *)
(* 341-342, 700-701, 308-309), or copied what an unpacking cut short had   *)
(* left; and what a task copies is what it downloaded unless an earlier    *)
(* one left its unpacked archive (an error skips the removal at 358 and    *)
(* 727).                                                                   *)
BinariesMatch ==
    /\ ~met /\ ~partial =>
          \/ cli = daemon /\ cli # Broken
          \/ \E j \in Jobs : job[j] \in {"copy daemon", "remove daemon"}
    /\ ~met /\ ~leftover =>
          \A j \in Jobs : job[j] \in {"copy cli", "copy daemon", "clean"} =>
              unpacked \subseteq {source[j]} /\ (job[j] = "copy daemon" => cli = source[j])
=============================================================================
