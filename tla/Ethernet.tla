------------------------------ MODULE Ethernet ------------------------------
(***************************************************************************)
(* Changing the board's address (network/src/lib.rs 365-372, 483-607): a   *)
(* request writes what the init script reads, the name servers and what    *)
(* the page shows, each of which may fail (a write when it has emptied the *)
(* file already), and starts a task that waits and restarts the interface. *)
(* Requests may overlap, and a client that goes away, perhaps because its  *)
(* address has just changed, ends its request where it waits.              *)
(***************************************************************************)
CONSTANTS
    Changes,    (* requests, with the task each starts, that may overlap   *)
    Addresses   (* static configurations                                   *)

Modes == Addresses \cup {"dhcp"}

(* A file that is empty, or written by two at a time, is "garbled". *)
Contents == Modes \cup {"garbled"}

ASSUME EthernetAssumption == {"dhcp", "down", "garbled"} \cap Addresses = {}

VARIABLES
    change,    (* where each request is                                    *)
    asks,      (* the mode it asks for                                     *)
    nodhcp,    (* ETH_NODHCP_FILE: a static configuration, or absent,      *)
               (* which is "dhcp"                                          *)
    saved,     (* ETH_CONFIG_FILE                                          *)
    eth,       (* the interface                                            *)
    skipped,   (* history: nothing will apply the file as it is            *)
    uneven     (* history: requests overlapped or one did not do all       *)

ethernet == <<change, asks, nodhcp, saved, eth, skipped, uneven>>

EthernetTypeOK ==
    /\ change \in [Changes -> {"idle", "address", "writing", "dns", "save", "saving",
                             "waiting", "stopped"}]
    /\ asks \in [Changes -> Modes]
    /\ nodhcp \in Contents /\ saved \in Contents /\ eth \in Contents \cup {"down"}
    /\ skipped \in BOOLEAN /\ uneven \in BOOLEAN

EthernetInit ==
    /\ change = [c \in Changes |-> "idle"]
    /\ asks = [c \in Changes |-> "dhcp"]
    /\ nodhcp \in Modes /\ saved = nodhcp /\ eth = nodhcp
    /\ skipped = FALSE /\ uneven = FALSE

ChangeTo(c, step) == change' = [change EXCEPT ![c] = step]

-----------------------------------------------------------------------------
(* set_ethernet_config; an address that is missing or not valid changes    *)
(* nothing.                                                                *)
StartChange(c, mode) ==
    /\ change[c] = "idle"
    /\ ChangeTo(c, "address")
    /\ asks' = [asks EXCEPT ![c] = mode]
    /\ uneven' = (uneven \/ \E b \in Changes \ {c} : change[b] # "idle")
    /\ UNCHANGED <<nodhcp, saved, eth, skipped>>

(* The file is opened, which empties it, and written.  Another request may *)
(* have written it in between, or removed it.                              *)
OpenAddress(c) ==
    /\ change[c] = "address" /\ asks[c] # "dhcp"
    /\ ChangeTo(c, "writing")
    /\ nodhcp' = "garbled"
    /\ UNCHANGED <<asks, saved, eth, skipped, uneven>>

SetAddress(c) ==
    /\ change[c] = "writing"
    /\ ChangeTo(c, "dns")
    /\ \/ nodhcp # "dhcp" /\ nodhcp' = asks[c]
       \/ nodhcp # "dhcp" /\ nodhcp # "garbled" /\ nodhcp' = "garbled"
       \/ nodhcp = "dhcp" /\ UNCHANGED nodhcp
    /\ UNCHANGED <<asks, saved, eth, skipped, uneven>>

(* For DHCP it is removed, *)
RemoveAddress(c) ==
    /\ change[c] = "address" /\ asks[c] = "dhcp"
    /\ ChangeTo(c, "save")
    /\ nodhcp' = "dhcp"
    /\ UNCHANGED <<asks, saved, eth, skipped, uneven>>

(* where an error is ignored; *)
KeepAddress(c) ==
    /\ change[c] = "address" /\ asks[c] = "dhcp"
    /\ ChangeTo(c, "save")
    /\ uneven' = TRUE
    /\ UNCHANGED <<asks, nodhcp, saved, eth, skipped>>

(* write_dns_config; *)
SetDns(c) ==
    /\ change[c] = "dns"
    /\ ChangeTo(c, "save")
    /\ UNCHANGED <<asks, nodhcp, saved, eth, skipped, uneven>>

(* save_ethernet_config, and the task. *)
OpenConfig(c) ==
    /\ change[c] = "save"
    /\ ChangeTo(c, "saving")
    /\ saved' = "garbled"
    /\ UNCHANGED <<asks, nodhcp, eth, skipped, uneven>>

SaveConfig(c) ==
    /\ change[c] = "saving"
    /\ ChangeTo(c, "waiting")
    /\ saved' = asks[c] \/ (saved # "garbled" /\ saved' = "garbled")
    /\ UNCHANGED <<asks, nodhcp, eth, skipped, uneven>>

(* Steps that have touched a file. *)
Writing == {"writing", "dns", "save", "saving"}

(* A step fails, or the client goes away. *)
EndEarly(c) ==
    /\ change[c] \in Writing \cup {"address"}
    /\ ChangeTo(c, "idle")
    /\ skipped' = (skipped \/ change[c] # "address")
    /\ uneven' = (uneven \/ change[c] # "address")
    /\ UNCHANGED <<asks, nodhcp, saved, eth>>

(* restart_ethernet, half a second later and with half a second between;   *)
(* the script's results are only logged.                                   *)
StopEthernet(c) ==
    /\ change[c] = "waiting"
    /\ ChangeTo(c, "stopped")
    /\ eth' = "down"
    /\ UNCHANGED <<asks, nodhcp, saved, skipped, uneven>>

(* What the mutants of the runs change. *)
StartWithSaved(c) ==
    /\ change[c] = "stopped"
    /\ ChangeTo(c, "idle")
    /\ eth' = saved /\ skipped' = FALSE
    /\ UNCHANGED <<asks, nodhcp, saved, uneven>>

StartEthernet(c) ==
    /\ change[c] = "stopped"
    /\ ChangeTo(c, "idle")
    /\ eth' = nodhcp /\ skipped' = FALSE
    /\ UNCHANGED <<asks, nodhcp, saved, uneven>>

NoStart(c) ==
    /\ change[c] = "stopped"
    /\ ChangeTo(c, "idle")
    /\ skipped' = TRUE
    /\ UNCHANGED <<asks, nodhcp, saved, eth, uneven>>

(* The server ends, the board goes on. *)
EndChanges ==
    /\ change' = [c \in Changes |-> "idle"]
    /\ skipped' = (skipped \/ \E c \in Changes : change[c] \notin {"idle", "address"})
    /\ uneven' = (uneven \/ \E c \in Changes : change[c] \in Writing)
    /\ UNCHANGED <<asks, nodhcp, saved, eth>>

(* The board starts anew. *)
Reboot ==
    /\ change' = [c \in Changes |-> "idle"]
    /\ eth' = nodhcp /\ skipped' = FALSE
    /\ uneven' = (uneven \/ \E c \in Changes : change[c] \in Writing)
    /\ UNCHANGED <<asks, nodhcp, saved>>

EthernetNext ==
    \/ \E c \in Changes :
          \/ \E mode \in Modes : StartChange(c, mode)
          \/ OpenAddress(c) \/ SetAddress(c) \/ RemoveAddress(c) \/ KeepAddress(c)
          \/ SetDns(c) \/ OpenConfig(c) \/ SaveConfig(c) \/ EndEarly(c)
          \/ StopEthernet(c) \/ StartEthernet(c) \/ NoStart(c)
    \/ EndChanges \/ Reboot

EthernetSpec == EthernetInit /\ [][EthernetNext]_ethernet

-----------------------------------------------------------------------------
(* Properties. *)

(* When no request and no restart is under way the interface is what the   *)
(* file of the last change says, also after changes that overlapped, for a *)
(* restart reads the file when it starts the interface (network/src/lib.rs *)
(* 505-533, 600-603); and the page shows it (585-597).  The exceptions are *)
(* changes that ended early, which may leave the file empty while the      *)
(* interface is the old one, and for the page those that overlapped: the   *)
(* address must not stay that of an earlier change.                        *)
EthernetApplied ==
    (\A c \in Changes : change[c] \in {"idle", "address"})
        => (skipped \/ eth = nodhcp) /\ (uneven \/ saved = nodhcp)
=============================================================================
