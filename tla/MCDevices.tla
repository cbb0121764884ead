----------------------------- MODULE MCDevices -----------------------------
(* The run of what changes the board and the USB devices: HidBus,          *)
(* VirtualMedia, Updater, Download, Tailscale and Ethernet.  They share no *)
(* state, so a behaviour is one of them; the others stay in their initial  *)
(* state.                                                                  *)
EXTENDS HidBus, VirtualMedia, Updater, Download, Tailscale, Ethernet, TLC

CONSTANTS s1, s2, r1, r2

VARIABLE part

MCTexts == {<<"y", "eacute", "z">>, <<"eacute">>}
DevicesSymmetry == Permutations(Sockets) \cup Permutations(Mounts)

Parts == {"hid", "media", "updater", "download", "tailscale", "ethernet"}

Init ==
    /\ part \in Parts
    /\ HidInit /\ MediaInit /\ UpdaterInit /\ DownloadInit /\ TailscaleInit /\ EthernetInit
    /\ part # "hid" => open = [d \in Devices |-> TRUE]
    /\ part # "media" => ~ro /\ ~cdrom /\ ~inquiry
    /\ part # "download" => ~sentinel
    /\ part # "tailscale" => cli = None
    /\ part # "ethernet" => eth = "dhcp"

Next ==
    /\ UNCHANGED part
    /\ \/ part = "hid" /\ HidNext /\ UNCHANGED <<media, updater, download, tailscale, ethernet>>
       \/ part = "media" /\ MediaNext /\ UNCHANGED <<hid, updater, download, tailscale, ethernet>>
       \/ part = "updater" /\ UpdaterNext /\ UNCHANGED <<hid, media, download, tailscale, ethernet>>
       \/ part = "download" /\ DownloadNext /\ UNCHANGED <<hid, media, updater, tailscale, ethernet>>
       \/ part = "tailscale" /\ TailscaleNext /\ UNCHANGED <<hid, media, updater, download, ethernet>>
       \/ part = "ethernet" /\ EthernetNext /\ UNCHANGED <<hid, media, updater, download, tailscale>>

Spec == Init /\ [][Next]_<<part, hid, media, updater, download, tailscale, ethernet>>

(* Every variable of the six has its type. *)
DevicesTypeOK ==
    /\ part \in Parts
    /\ HidTypeOK /\ MediaTypeOK /\ UpdaterTypeOK
    /\ DownloadTypeOK /\ TailscaleTypeOK /\ EthernetTypeOK
=============================================================================
