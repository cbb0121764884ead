---------------------------- MODULE VirtualMedia ----------------------------
(***************************************************************************)
(* Mounting an image (storage/src/lib.rs 51-96, server/storage.rs 53-80):  *)
(* a sequence of writes to the USB gadget's configfs files, each of which  *)
(* may fail, in a handler that ends where it waits when its client goes    *)
(* away.  Nothing keeps two requests apart.  The files belong to the       *)
(* kernel: a write either takes effect or fails.  The board has one UDC.   *)
(***************************************************************************)
CONSTANTS
    Mounts,   (* requests that may be under way together                   *)
    Images    (* paths of images                                           *)

(* IMAGE_NONE is the board's own partition; "empty" is no file at all.     *)
Files == Images \cup {"none"}

ASSUME MediaAssumption == "empty" \notin Files

VARIABLES
    at,        (* the next write of each request                           *)
    wants,     (* the image and cdrom flag it was asked for                *)
    file,      (* MOUNT_DEVICE                                             *)
    ro,        (* RO_FLAG                                                  *)
    cdrom,     (* CDROM_FLAG                                               *)
    inquiry,   (* INQUIRY_STRING is that of a CD-ROM                       *)
    bound,     (* UDC_PATH names the controller                            *)
    by,        (* history: the request that attached the file              *)
    mixed,     (* history: two requests met, or a detach failed, since the *)
               (* last request on its own detached the file                *)
    cut        (* history: a reset ended between its two writes            *)

gadget == <<file, ro, cdrom, inquiry, bound>>
media == <<at, wants, gadget, by, mixed, cut>>

Request == [image : Files, cdrom : BOOLEAN]

MediaTypeOK ==
    /\ at \in [Mounts -> {"idle", "detach", "ro", "cdrom", "inquiry", "attach", "unbind", "bind"}]
    /\ wants \in [Mounts -> Request]
    /\ file \in Files \cup {"empty"}
    /\ ro \in BOOLEAN /\ cdrom \in BOOLEAN /\ inquiry \in BOOLEAN /\ bound \in BOOLEAN
    /\ by \in Request
    /\ mixed \in BOOLEAN /\ cut \in BOOLEAN

NoRequest == [image |-> "none", cdrom |-> FALSE]

MediaInit ==
    /\ at = [m \in Mounts |-> "idle"]
    /\ wants = [m \in Mounts |-> NoRequest]
    /\ file = "empty" /\ bound = TRUE
    /\ ro \in BOOLEAN /\ cdrom \in BOOLEAN /\ inquiry \in BOOLEAN
    /\ by = NoRequest
    /\ mixed = FALSE /\ cut = FALSE

Alone(m) == \A n \in Mounts \ {m} : at[n] = "idle"

GoTo(m, step) == at' = [at EXCEPT ![m] = step]

-----------------------------------------------------------------------------
StartMount(m, image, cd) ==
    /\ at[m] = "idle"
    /\ GoTo(m, "detach")
    /\ wants' = [wants EXCEPT ![m] = [image |-> image, cdrom |-> cd]]
    /\ mixed' = (mixed \/ ~Alone(m))
    /\ UNCHANGED <<gadget, by, cut>>

(* What the mutants of the runs change. *)
DetachNothing(m) ==
    /\ at[m] = "detach"
    /\ GoTo(m, "ro")
    /\ mixed' = (mixed /\ ~Alone(m))
    /\ UNCHANGED <<wants, gadget, by, cut>>

(* An error of the first write is ignored. *)
Detach(m) ==
    /\ at[m] = "detach"
    /\ GoTo(m, "ro")
    /\ \/ file' = "empty" /\ mixed' = (mixed /\ ~Alone(m))
       \/ file' = file /\ mixed' = TRUE
    /\ UNCHANGED <<wants, ro, cdrom, inquiry, bound, by, cut>>

(* A CD-ROM is read-only, and so is the board's partition. *)
SetRo(m) ==
    /\ at[m] = "ro"
    /\ GoTo(m, "cdrom")
    /\ ro' = (wants[m].cdrom \/ wants[m].image = "none")
    /\ UNCHANGED <<wants, file, cdrom, inquiry, bound, by, mixed, cut>>

SetCdrom(m) ==
    /\ at[m] = "cdrom"
    /\ GoTo(m, "inquiry")
    /\ cdrom' = wants[m].cdrom
    /\ UNCHANGED <<wants, file, ro, inquiry, bound, by, mixed, cut>>

SetInquiry(m) ==
    /\ at[m] = "inquiry"
    /\ GoTo(m, "attach")
    /\ inquiry' = wants[m].cdrom
    /\ UNCHANGED <<wants, file, ro, cdrom, bound, by, mixed, cut>>

Attach(m) ==
    /\ at[m] = "attach"
    /\ GoTo(m, "unbind")
    /\ file' = wants[m].image /\ by' = wants[m]
    /\ UNCHANGED <<wants, ro, cdrom, inquiry, bound, mixed, cut>>

(* reset_usb_gadget: unbind, 100 ms, bind *)
Unbind(m) ==
    /\ at[m] = "unbind"
    /\ GoTo(m, "bind")
    /\ bound' = FALSE
    /\ UNCHANGED <<wants, file, ro, cdrom, inquiry, by, mixed, cut>>

Bind(m) ==
    /\ at[m] = "bind"
    /\ GoTo(m, "idle")
    /\ bound' = TRUE /\ cut' = FALSE
    /\ UNCHANGED <<wants, file, ro, cdrom, inquiry, by, mixed>>

(* A write but the first fails, or the client goes away.                   *)
GiveUp(m) ==
    /\ at[m] # "idle"
    /\ GoTo(m, "idle")
    /\ cut' = (cut \/ at[m] = "bind")
    /\ UNCHANGED <<wants, gadget, by, mixed>>

MediaNext ==
    \E m \in Mounts :
        \/ \E image \in Files, cd \in BOOLEAN : StartMount(m, image, cd)
        \/ Detach(m) \/ SetRo(m) \/ SetCdrom(m) \/ SetInquiry(m) \/ Attach(m)
        \/ Unbind(m) \/ Bind(m) \/ GiveUp(m)

MediaSpec == MediaInit /\ [][MediaNext]_media

-----------------------------------------------------------------------------
(* Properties. *)

(* An attached image is offered as the kind of medium its own request      *)
(* asked for, wherever that or a later request failed or was given up,     *)
(* unless requests crossed or a detach failed (an image must not be        *)
(* writable, or another kind of drive, because of an older request,        *)
(* storage/src/lib.rs 52-74).  And the gadget, with keyboard and mouse,    *)
(* stays unbound only during a reset or when one was cut short.            *)
MediaConsistent ==
    /\ ~mixed /\ file # "empty" =>
          /\ file = by.image
          /\ cdrom = by.cdrom /\ inquiry = by.cdrom
          /\ ro = (by.cdrom \/ file = "none")
    /\ ~bound => cut \/ \E m \in Mounts : at[m] = "bind"
=============================================================================
