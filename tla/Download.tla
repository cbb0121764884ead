------------------------------ MODULE Download ------------------------------
(***************************************************************************)
(* Uploads of images from the browser and downloads from a URL             *)
(* (download.rs 70-302).  A sentinel file says that one is under way and   *)
(* keeps the others out; the status page shows what it holds.  An upload   *)
(* runs in its handler, which ends where it waits when the client goes     *)
(* away, and a guard removes the sentinel then; a download runs in a task. *)
(* A write that is abandoned may still take effect.                        *)
(***************************************************************************)
CONSTANT
    Loads   (* requests that may be under way together                     *)

VARIABLES
    sentinel,    (* SENTINEL_PATH exists                                   *)
    load,        (* where each request is                                  *)
    unmarked,    (* history: a transfer runs whose sentinel was not        *)
                 (* written, or two were let in together                   *)
    abandoned    (* history: nobody is left who would remove the sentinel  *)

download == <<sentinel, load, unmarked, abandoned>>

Transfers == {"uploading", "downloading"}

DownloadTypeOK ==
    /\ sentinel \in BOOLEAN
    /\ load \in [Loads -> Transfers \cup {"idle", "upload", "checking", "download"}]
    /\ unmarked \in BOOLEAN /\ abandoned \in BOOLEAN

DownloadInit ==
    /\ sentinel \in BOOLEAN   (* a crash may have left it                  *)
    /\ load = [l \in Loads |-> "idle"]
    /\ unmarked = FALSE /\ abandoned = sentinel

LoadTo(l, step) == load' = [load EXCEPT ![l] = step]

Others(l) == \E k \in Loads \ {l} : load[k] # "idle"

(* Somebody removes the sentinel. *)
Unmark ==
    /\ sentinel' = FALSE
    /\ abandoned' = FALSE

-----------------------------------------------------------------------------
(* Both handlers look for the sentinel first; a download then has its URL  *)
(* resolved and checked, and both write the sentinel.                      *)
StartLoad(l, step) ==
    /\ load[l] = "idle"
    /\ ~sentinel
    /\ LoadTo(l, step)
    /\ unmarked' = (unmarked \/ Others(l))
    /\ UNCHANGED <<sentinel, abandoned>>

UrlChecked(l) ==
    /\ load[l] = "checking"
    /\ LoadTo(l, "download")
    /\ UNCHANGED <<sentinel, unmarked, abandoned>>

(* An error of the write is ignored. *)
Mark(l) ==
    /\ load[l] \in {"upload", "download"}
    /\ LoadTo(l, IF load[l] = "upload" THEN "uploading" ELSE "downloading")
    /\ \/ sentinel' = TRUE /\ UNCHANGED unmarked
       \/ UNCHANGED sentinel /\ unmarked' = (unmarked \/ ~sentinel)
    /\ UNCHANGED abandoned

(* The name of an uploaded file is known, or a second has passed.          *)
Progress(l) ==
    /\ load[l] \in Transfers
    /\ sentinel' = TRUE
    /\ UNCHANGED <<load, unmarked, abandoned>>

(* What the mutants of the runs change. *)
EndKeepsSentinel(l) ==
    /\ load[l] \in Transfers
    /\ LoadTo(l, "idle")
    /\ unmarked' = (unmarked /\ Others(l))
    /\ UNCHANGED <<sentinel, abandoned>>

(* The transfer is complete, too large, not an ISO image, or fails; the    *)
(* answer differs, the sentinel does not.                                  *)
End(l) ==
    /\ load[l] \in Transfers
    /\ LoadTo(l, "idle")
    /\ unmarked' = (unmarked /\ Others(l))
    /\ Unmark

(* A URL is refused, or the client goes away before the transfer:          *)
(* the sentinel may be written after that.                                 *)
Refuse(l) ==
    /\ load[l] = "checking"
    /\ LoadTo(l, "idle")
    /\ unmarked' = (unmarked /\ Others(l))
    /\ UNCHANGED <<sentinel, abandoned>>

HangUpMarking(l) ==
    /\ load[l] \in {"upload", "download"}
    /\ LoadTo(l, "idle")
    /\ \/ UNCHANGED <<sentinel, abandoned>>
       \/ sentinel' = TRUE /\ abandoned' = TRUE
    /\ unmarked' = (unmarked /\ Others(l))

(* The client of an upload goes away: the guard removes the sentinel, and  *)
(* a write of it under way may bring it back.                              *)
HangUpUpload(l) ==
    /\ load[l] = "uploading"
    /\ LoadTo(l, "idle")
    /\ unmarked' = (unmarked /\ Others(l))
    /\ Unmark \/ (sentinel' = TRUE /\ abandoned' = TRUE)

RestartLoads ==
    /\ load' = [l \in Loads |-> "idle"]
    /\ unmarked' = FALSE /\ abandoned' = sentinel
    /\ UNCHANGED sentinel

DownloadNext ==
    \/ \E l \in Loads :
          \/ \E step \in {"upload", "checking"} : StartLoad(l, step)
          \/ UrlChecked(l) \/ Mark(l) \/ Progress(l) \/ End(l)
          \/ Refuse(l) \/ HangUpMarking(l) \/ HangUpUpload(l)
    \/ RestartLoads

DownloadSpec == DownloadInit /\ [][DownloadNext]_download

-----------------------------------------------------------------------------
(* Properties. *)

(* A sentinel that is there has somebody who will remove it, or else no    *)
(* image could be loaded any more (download.rs 92, 200), even when         *)
(* requests cross, unless a client went away while it was written or the   *)
(* server was restarted; and while a transfer runs the sentinel is there,  *)
(* for the status page and the other requests, unless two requests were    *)
(* let in together or it could not be written.                             *)
SentinelTells ==
    /\ sentinel => abandoned \/ \E l \in Loads : load[l] \in Transfers
    /\ ~unmarked => \A l \in Loads : load[l] \in Transfers => sentinel
=============================================================================
