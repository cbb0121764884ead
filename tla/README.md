# A TLA+ model of RUSTYKVM

RUSTYKVM (NanoKVM-RS) is a KVM-over-IP server: one Rust process on a small
RISC-V board that captures the HDMI input of a machine, streams it to browsers,
sends keyboard and mouse reports back over USB gadgets, and manages itself over
HTTP. This directory models its concurrent and stateful parts in TLA+, checks
them with TLC and proves some of them with TLAPS.

## The system

The server is a tokio/axum process. Every HTTP request and WebSocket is a task;
capture and file operations run on blocking threads. Tasks share state through
locks in `AppState`, atomics in the `kvm` crate, and files under `/etc/kvm`. A
handler future is dropped at an await when its client goes away.

| Component | State | Operations | Talks to | Correct when |
|---|---|---|---|---|
| Peer registry (`webrtc/transport.rs`) | `connections`, `source_connections`, SPS/PPS | offer, subscribe, remove, send | signalling, WHEP, H.264 loop | maps agree, peers bounded, slots given back |
| Signalling (`webrtc/ws_signaling.rs`) | `peer_handle`, sender and forwarder tasks | offer, candidate, close | registry, capture | a closed socket leaves no peer |
| WHEP (`transport.rs`, `main.rs`) | resource map | create, patch, delete | registry | a resource owns one peer |
| Capture handle (`kvm`, `kvm-sys`) | `KVM_STATE`, `ENCODER_MODE`, failure count, lock, buffers of the library | get frame, reset, deinit, HDMI | loops, HDMI handlers, shutdown | hardware used only when up, buffers owned |
| Login throttling (`auth/brute_force.rs`) | map of attempts, `STATE_FILE` | check, record, clear, cleanup, load, save | login | lockouts hold, and survive a restart |
| Sessions (`auth.rs`, `config.rs`) | JWT secret in memory and in the config file, account file | login, logout, change password | middleware | a revoked token stays revoked |
| Passkeys (`passkey/`) | pending challenge, credential store, recovery codes | enrol, log in, recover | sessions | a code is used once, counters grow |
| Quality (`quality.rs`) | tier, counts of results, time of the last change | frame result, switch on and off | loops | the tier moves only for a streak, and not too soon |
| Frame loops (`main.rs`, `screen.rs`) | configuration, broadcast channels, frame-detect timers | capture, fan out, subscribe | capture, registry, quality | a direct client sees no gap, slow readers do not stop the others |
| RTP packets (`transport.rs`) | sequence number | scan, fragment, send | registry, peers | a receiver puts together what was sent |
| HID bus (`hid`, `hid.rs`, jiggler) | device files, mutex, pressed keys | report, paste, release | sockets | no key stays down |
| Download, update (`download.rs`, `application.rs`, `scripts/`) | sentinel, flag, cache, program files | start, progress, replace | file system, service | one at a time, restartable |
| Tailscale (`tailscale.rs`) | workspace, two programs | install, update, remove | file system | the programs match |
| Network (`network`) | three files, the interface | change the address | init script | the interface is what the files say |
| Virtual media (`storage`) | configfs files of the USB gadget | mount | HID bus, by its reset | an image is offered as asked for |
| GPIO, EDID, serial, audio, health | devices | read, write | system | |

What is hard: tasks that check under one lock and act under another or after an
await, frames whose memory belongs to a C library, saves without a lock,
handlers that stop at an await, and restarts.

## Modules

| Module | Models | Role |
|---|---|---|
| `PeerSlots` | what the registry promises | abstract specification |
| `PeerRegistry` | registry, signalling socket, WHEP | detailed specification, implements `PeerSlots` |
| `PeerRegistryProofs` | | TLAPS proofs about `PeerRegistry` |
| `MCPeerRegistry` | | instances for TLC |
| `HardwareOwner` | what the capture handle promises of the hardware | abstract specification |
| `KvmCapture` | capture handle, its threads, HDMI handlers, shutdown | detailed specification, implements `HardwareOwner` |
| `KvmCaptureProofs` | | TLAPS proofs about `KvmCapture` |
| `MCKvmCapture` | | instances for TLC |
| `BruteForce` | login throttling, the throttled login, the saved map | specification |
| `BruteForceProofs` | | TLAPS proofs about `BruteForce` |
| `MCBruteForce` | | instances for TLC |
| `Sessions` | the signing key in memory and in the configuration file, logout, the TLS request | specification |
| `SessionsProofs` | | TLAPS proofs about `Sessions` |
| `MCSessions` | | instances for TLC |
| `ConfFile` | a small file saved with `fs::write` and no lock | definitions of the four modules below and of `Sessions` |
| `Passkeys` | the pending challenge, enrolments, passkey logins, the credential store | specification |
| `RecoveryCodes` | the codes an enrolment makes and a recovery uses | specification |
| `RateLimit` | the attempts a recovery is allowed | specification |
| `Accounts` | password changes: account file and root password | specification |
| `PasskeysProofs`, `AccessProofs` | | TLAPS proofs about `Passkeys`, and about the other three and `MCAccess` |
| `MCAccess` | | instances of the four for TLC |
| `Quality` | the adaptive quality controller | specification, part of `FrameStream` |
| `FrameFeeds` | what the loops and channels promise to a client | abstract specification |
| `FrameStream` | both capture loops, broadcast channels, MJPEG and direct H.264 clients | detailed specification, implements `FrameFeeds` |
| `H264Packets` | NAL scan, RTP packets, writes to a peer | specification |
| `StreamProofs` | | TLAPS proofs about `FrameStream`, `Quality`, `H264Packets` and `MCStream` |
| `MCStream` | | instances for TLC |
| `HidBus` | the HID engine, the sockets' reports, paste, jiggler | specification |
| `VirtualMedia` | mounting an image | specification |
| `Updater` | the two kinds of update of the program | specification |
| `Download` | uploads and downloads of images | specification |
| `Tailscale` | install, update and removal | specification |
| `Ethernet` | a change of the wired address | specification |
| `DevicesProofs` | | TLAPS proofs about the six and `MCDevices` |
| `MCDevices` | | instances of the six for TLC |

Operators that the specification does not use (`CheckOffByOne`, `DropFrameLeaks`
and so on) stand before the definition they vary. Each is a mistake that
definition could have had and that a property is known to catch.

### PeerRegistry

Actions are lock scopes. `Check` reads the count and starts a negotiation; the
awaits of the negotiation are one state, `negotiating`, in which anything else
may happen and from which `NegotiationFails` leaves. `InsertConnection` and
`PublishConnection` are the two writes at the end, which have no await between
them, so a dropped future cannot stop half way, but other tasks on other threads
run in between. `RemoveFromMap` and `UnlinkFromSource` are the two locks of
`remove_connection`. A socket's read loop handles one message at a time, so
`SocketClose` needs an idle request. `ForwarderFails` is the task that sends local
candidates and removes the peer when the socket's channel is gone. A closing handler and its
forwarder may both have called `remove_connection`; whichever takes the id out of the map
unlinks it, and the other returns at once. So `SocketEnd` may come while the id is still listed
under its source; `unlinkers` holds the sockets whose own handler is the one unlinking.

Abstractions: uuids are fresh elements of `Conns`; the `Vec` of a source is a set; SDP,
tracks and ICE are left out.

### KvmCapture

`state`, `mode` and `failures` are the atomics, `lock` is `KVM_LOCK` when it is held
across more than one step, `hw` and `live` are the library. A frame request is
`Request` (the unlocked look), `BeginInit`/`FinishInit` (with the two-second wait
between), `BeginRead`, `ReadOk`, `ReadFails` or `ReadEmpty`, and then, without the lock, `CopyFrame`
and `DropFrame`. Operators run the HDMI handlers as programs of steps, `todo`;
`HangUp` drops the reset at its sleep. The u8 failure count is capped at the only
value it is compared with. File operations of the handlers are taken to succeed.
`libLoaded` is chosen once, since the library is loaded once.

`HardwareOwner` is the same hardware seen from outside. Its users are the threads between taking
`KVM_LOCK` and giving it back, `taken` is `disturbed`. It leaves out the state variable, the
encoder modes, the frames and the panel, and says what all of them are for: one user at a time,
hardware started only when it is down, taken down only when nobody uses it, and found up
by whoever comes in, as long as it was never taken down.

Three history variables say when a promise still holds. `disturbed`: hardware that was
up has been taken down. `abandoned`: the client of the last HDMI request hung up. `lost`: the
buffers of `ReadEmpty`, which nobody frees.
`HdmiFlagTruthful` speaks of requests one at a time; two that cross may leave the
marker file and the output different.

Four things the model shows, and no run is spent on:

- a read that succeeds with a buffer of size 0 is an error that drops the pointer without
  `free_kvmv_data` (`lib.rs` 409-411): the library has one buffer less until the next reset, hence
  `lost` in `NoBufferLeak`;
- after a reset `get_mjpeg` and `get_h264` read hardware that is down, since they do
  not look at the state again after taking the lock (hence `ReadsUpUntilReset`);
- the shutdown hook takes the hardware down first and the capture loops, still
  running, start it again;
- failing initialisations are never counted (`lib.rs` 188, 237, 258), so the limit on
  retries concerns only reads.

### BruteForce

`attempts` is the map, each access one step. A save is five steps on a temporary
file that all logins share. Files are inodes: `fd` says what the inode a login has
opened is called now, so a write after another login's rename lands in
`STATE_FILE`. `Overwritten` is what a write leaves on top of another: the new map or a
mixture that does not parse. The clock moves forward only, up to `MaxTime`.

History: `guesses` counts the failures recorded during a lockout; `saved` tells
whether, since the start, two saves were under way at once or one failed.
`LockoutIsOnDisk` is what the file promises; it is refuted by saves that cross, and
`OnDiskUnlessCrossed` is what is left of it.

### Sessions

A token is accepted when it was signed with `jwt_secret`, so the model has keys and no
tokens: a session ended by a logout is a key that has been replaced. `Rotate`,
`LoadConfig`, `OpenConfig` and `WriteConfig` are the steps of a logout with
`revokeTokensOnLogout` on (off, it changes nothing), `SetTls` is the one other handler
that saves the configuration. `fs::write` is two steps on one inode, `OpenConfig`, which
truncates, and `WriteConfig`; what it leaves on top of another write is the new text
or a mixture that does not parse. Loading may have to save migrated settings first,
`OpenMigrated` and `WriteMigrated`; which settings need that is left open. `HangUp` drops a
handler at an await, `Stop` ends the process at any point, `Start` loads the file. An
empty file is taken not to parse; were it read as a document without fields, the result
would be the same defaults. Reading a file that exists is taken to succeed.

History: `retired` holds the keys whose logout was answered, `wanted` the TLS setting last
written, and `fate` tells what has gone wrong so far: nothing (`kept`), a TLS request
started from an old key (`stale`), requests overlapped (`crossed`), or a save was cut
short or failed (`lost`). When requests overlap or a save fails nothing is promised, and
the code says so in a warning only; the properties speak of the rest.

### Passkeys, RecoveryCodes, RateLimit, Accounts

Four small components that let somebody in. Each keeps one file under `/etc/kvm` that it loads
and saves without a lock, in the steps of `ConfFile` (`Open...` truncates, `Write...` writes, a
load in between finds nothing). They share no state: an enrolment takes part in two of
them, and each module has the part of it that concerns its own state. `MCAccess`
therefore puts them side by side, and a behaviour runs one (`part`), which costs the
sum of their states and not the product.

`Passkeys` has one challenge for everybody: `NewChallenge` overwrites it, `Expire` and the
end of any enrolment or login (`Finish`) drop it. A login reads the store twice, for the
check of the counter (`CheckCounter`) and for its update (`SetCounter`). Signatures are
correct; an answer that is not changes nothing here (`BruteForce` has what it counts
for). `Resubmit` is the same answer sent twice. `RecoveryCodes` numbers the batches, so a
code is a batch and a slot. `RateLimit` has the map under its lock and the save after it;
addresses never seen have zeros. In `Accounts` the user name stays what it is.

History: `accepted`, `counters`, `spent`, `twice`, `window` and `set` record what was
granted or promised, `kept`, `crossed`, `lost` and `fate` whether changes crossed or a
save failed so far. The model shows some things no run is spent on:

- two recoveries, or a recovery and an enrolment, that overlap may use one code twice
  (hence `~crossed` in `UsedOnce`), and two logins that overlap may lower a counter;
- a login that ends drops whatever challenge is pending, also a newer one of somebody else;
- an enrolment whose codes could not be saved shows them all the same
  (`handlers.rs` 553-560);
- a change of the password that fails at `passwd` removes the account file, so the
  default password is back although another was set before (`auth.rs` 463-464);
- the number of remaining codes a recovery answers counts the used ones
  (`recovery.rs` 213-214); it is an output and changes no state.

### Quality, FrameStream

A loop (`Kinds`, one for each stream type) reads the configuration (`NextRound`), waits, and works
with what it has read: `NoFrame`, or `Encode` on a blocking thread and then a publication. What
happens between the two is the hazard: subscribers and WebRTC peers come and go, the operator
changes the type. Viewers make no difference to the loops: `main` binds the first receiver of each
channel as `_rx` for its whole life (`main.rs` 245-246), so `receiver_count` is never 0, a loop
whose type is configured always captures and sends, whatever the comments at 922-925 expect, and a
client that subscribes between the encoding and the send gets that frame. A channel holds `Cap` frames for each reader; a full one
drops the oldest (`Room`, `missed`). `Lagged` is the reader that finds out: an MJPEG client
goes on, a direct H.264 client ends. `Receive` sends to the client; its failure is `Leave`.
`FrameFeeds` keeps of all this the frames encoded, what a client watches and the last it got.

Both publications report a result to `Quality` (`OnFrameResult`). For the same reason the broadcast itself
never fails, and `broadcast_frame` counts the peers that are there, not the packets
that got through, so a slow reader is never reported as a failure: the only one is a peer that was
removed between the look at the list and the send. The two counters saturate
at `MaxCount`, beyond both thresholds. `streak` is a history variable: what the last results
since the last change or reset were.

### H264Packets

The three loops a frame goes through, one round of a loop a step: `FindUnit`, `SkipOne` and
`EndScan` are `find_nal_units` with its two searches for a byte 1 (`FirstOne` is `memchr`);
`PackWhole` and `PackFragment` the packetiser; `StartSend`, `WriteOk`, `WriteFails` and `EndSend`
the writes, which count on a copy of the connection's sequence number and put it back at the end. A
write that fails uses no number. A frame grows byte by byte (`AddByte`), so a run sees every
frame up to `MaxLength`. The bytes stay in `frame`: a unit and a packet are the positions
of what they hold. A fragment's two header bytes are its kind; the receiver takes the unit's first
byte back from them, which is all they say.

`FrameSurvives` compares with a receiver written from the RTP rules: it
puts together what was written (`rebuilt`), and when no write failed that must be the units of the frame. The scan looks only at the first
byte 1 after a start code (`transport.rs` 1072-1083). If that byte does not end another
start code, the unit runs to the end of the frame and swallows the units that follow. The
property therefore compares with what the scan finds, and the scan with Annex B for frames without
such a byte.

### HidBus, VirtualMedia

A write to a HID device goes to a blocking thread (`flight`) and stays there until the host
fetches it (`Deliver`); the next write waits 5 ms and then drops its own report (`TimedOut`), or
finds the failure of the one before and reopens the device (`Reopen`). All users hold
the engine's mutex while they write, a paste from its first character to its last, a closing
socket for the release of every device. A report is the code it presses. `lost`, `before`, `typed`
and `torn` are history. A mount resets the gadget, which is `ResetHid` here.

`VirtualMedia` has the mount as its writes to configfs, each of which fails or takes effect.
Handlers are not kept apart and end at an await when the client leaves (`GiveUp`). A write that
was abandoned is taken to be done or not at once. The board has one UDC. A client that leaves
within the 100 ms of the reset leaves the gadget unbound, so keyboard and mouse are gone until
the next reset; `MediaConsistent` names this with `cut`.

### Updater, Download, Tailscale, Ethernet

Long tasks on files, each in the steps between which something else may happen: the client
leaves, a step fails, the service restarts, another request of the kind begins. Verification,
checksums and the network are outcomes. A file or a copy is opened, which empties it, before it is
written, and may stay empty or broken.

`Updater` has the tasks of `application.rs` (`update`), the install.sh each has started (`script`), the
flag of the server that runs, and the program, `half` from the first copy of install.sh to the last.
`scripts/install.sh`, which the release workflow packs, and `scripts/S95nanokvm` are part of the
model. install.sh stops the service (`StopService`), copies (`BeginCopy`, `EndCopy`) and starts it
(`StartService`) by itself; stopping signals the server only, so install.sh goes on, and a server whose
task waits for it may live on beside the next one, or end (`EndTask`). `strays` are the updates that
were under way when a later server was started: its flag is clear, and it may admit another. Whether
a stop, a start or a restart succeeds, or is there at all, is left open. Two copies at a time
are `mixing`.

`Download` has the sentinel that is looked for and then written (`StartLoad`, `Mark`).

`Tailscale` has the workspace all jobs share: the archive, what is unpacked beside what was left, the
two copies. `Interrupted` is what an error or the end of the process leaves of a step: the archive or a
program cut short (`Broken`), the workspace unpacked (`cutShort`) or removed in part. A failing
`remove_dir_all` is ignored by the code and leaves the same.

`Ethernet` has the file the init script reads, the file the page shows, and the task that restarts the
interface later. `OpenAddress` and `OpenConfig` empty the files, `SetAddress` and `SaveConfig` write
them; what two requests write at a time is `garbled` as well.

The models show some things no run is spent on:

- a client that leaves during an upload leaves `IS_UPDATING` set until a restart
  (`application.rs` 107-214);
- install.sh stops and starts the service (50-54, 166-168) although the updater sets
  `NANOKVM_SKIP_SERVICE` and says "do not stop/start the service inside the install script or it can kill the
  running updater mid-install" (`application.rs` 371-373): the script reads no such variable;
- so the server that install.sh has started may admit another update while install.sh or its updater is
  not done, remove the package under it (287, 354) or copy at the same time;
- an offline update clears the flag and then restarts, so it may end another update
  (`application.rs` 221-225);
- an update whose install.sh fails after its stop, online at least, leaves no server running: only success
  restarts it (`application.rs` 267-279);
- two downloads let in together share one sentinel, and the first to end removes it;
- Tailscale jobs that cross may copy the two programs of different versions;
- a copy of a Tailscale program, or a write of the address, that fails leaves the file empty or
  broken until a later one succeeds (`tailscale.rs` 341, 700, `network/src/lib.rs` 585).

## Runs

| Run | Bounds | Shows |
|---|---|---|
| `registry` | 2 sockets, 1 WHEP caller, 3 uuids, 2 sources, cap 1 | the maps agree, the cap is overshot by less than the requesters, who may be orphaned, `PeerSlots` is implemented, a closing socket frees its slot |
| `registry_cap` | 1 socket, 1 caller, cap 1 | finding: the cap is exceeded |
| `capture` | 2 threads, 1 operator, 2 buffers, shutdown, with and without the library | state tells hardware, no leaks but those of empty reads, `HardwareOwner` is implemented, marker file, frames owned and reads up until the first reset, every request returns |
| `capture_frame_freed` | 2 threads | finding: a reset frees a frame in use |
| `capture_free_starting` | 2 threads | finding: a buffer is freed while the hardware starts |
| `throttle` | 2 logins, 2 addresses, 2 records, 2 failures, window 1, idle time 1, 3 seconds | guesses bounded, lockouts earned, failures remembered, file right unless saves crossed |
| `throttle_disk_race` | 2 logins, 2 addresses, room for 3 | finding: a lockout is lost |
| `sessions` | 2 logouts, 1 TLS request, 5 keys, any number of restarts | ended sessions stay ended unless an old configuration is saved, other settings survive a rotation |
| `sessions_stale` | 1 logout, 1 TLS request, 4 keys | finding: an ended session is accepted again |
| `stream` | one client on a channel of 2 frames, 4 frames of a kind, 3 tiers, thresholds 2, interval 1; frames of up to 7 bytes out of 3 values, packets of 3 bytes, sequence numbers modulo 4 | `FrameFeeds` is implemented, the tier is earned, packets are put together again |
| `devices` | 2 sockets, 2 devices, 1 key, a text of three characters of which one is skipped; 2 requests of every other kind, 1 image, 2 versions, 2 addresses | keys released, pastes unmixed, media as asked for, updates of a server apart, program whole unless a copy failed, sentinel, Tailscale programs and interface right |
| `access` | 2 requests of each kind, 1 enrolment, 2 credentials, codes, addresses and passwords, 2 challenges and batches, counters up to 2, 2 attempts in a window of 1, 4 seconds | logins per challenge bounded, counters never lower, codes used once, other codes kept, attempts bounded across restarts, the last password stands |

Why this is enough. Each race here is between two sections of code, so two actors
meet all of its orders; a third in `registry` shows that a bystander does not change
that. Three uuids let a slot be taken again after it was given back while another
peer exists. Two records and two addresses fill the map and empty it. Three seconds
are a failure, a second one that locks, the end of the window and a failure after.
Five keys are the first start's and four more for logouts and starts without a file:
two logouts in a row, each followed by a restart that finds defaults.
In `access` two challenges and two batches let an old one be answered after a new one, counters
up to 2 let an authenticator sign twice, and four seconds hold a window, its end and a second one.
In `stream` the two loops and the client's coming and going are the actors; clients do not
affect each other. Four frames fill a channel of two and overrun it twice, with a client that
comes back; seven bytes hold two start codes with a unit before or between them, or one and
a unit that is fragmented into three. In `devices` the six parts share no state, so a behaviour runs one (`part`).
What holds for every number of actors is proved, see below.

Deadlock is checked in `devices`, where the service can always go on. It is not checked elsewhere:
clients may stop sending, and bounded uuids, frames and clocks run out.

Fairness. Removals that were begun and the end of a closing socket are tasks the
runtime polls again (`WF`). Threads that wait for `KVM_LOCK`, a parking_lot mutex
with eventual fairness, get it in the end (`SF` on taking it, `WF` on the rest).
Clients, operators, failures and the clock have no fairness. The parts of `stream`, `devices` and
`access` promise nothing that depends on it.

## Findings

Each is a run that ends in a counterexample.

- `registry_cap`: negotiations that overlap exceed `max_peers_per_source`.
- `capture_frame_freed`: `reset_init_state` frees the memory of frames in use.
- `capture_free_starting`: a frame dropped while the hardware restarts frees its
  buffer then, which a comment in the file says crashes.
- `throttle_disk_race`: of two saves that cross, the older map may win.
- `sessions_stale`: `set_tls_handler` saves the configuration of the server's start, so
  after a logout and a TLS request the restart brings the old key back.

## Proofs

All are for every value of the constants that satisfies the module's assumption, a named
`ASSUME` in the module that declares them.

`PeerRegistryProofs` (`RegistryAssumption`):

- `TypeCorrect`, `RegistryInvariant`, `MapsAgree`, `PeersListed`. The map invariants are not
  inductive by themselves: between the two inserts nobody else may know the id.
  `RegistryInv` adds that (`UnpublishedIdIsPrivate`), that only issued ids are in use,
  and that an id being unlinked is out of the map. Steps that touch neither map
  share the lemma `QuietStep`; publication and removal have one step each.
- `OwnersInvariant`. `HandlerInv` adds that a request without an id names none and that a socket
  whose offer is being handled is open. A step that makes no connection only has to leave
  each one its keeper (`KeepersStay`).
- `ClosedPeersInvariant`. The peer of a closed socket is `Gone` from both maps, for good, since ids are
  drawn once (`GoneStays`), or still being unlinked by the forwarder (`UnlinkingStays`). A socket's end
  makes its peer leave, and its handler returns only when the id is out of the first map and it is not
  itself the one that unlinks.
- `OvershootInvariant`. On top of `RegistryInv`: admitted requests plus peers stay
  below the cap plus the requesters. Only `Check` adds to the sum; publication moves
  one from admitted to listed, which needs the id to be new. `CapWithOneRequester`: without a second
  request that is the cap itself.
- `RegistryImplementsSlots`. `PublishConnection` is `Acquire`, `UnlinkFromSource` is
  `Release`, every other step stutters; the bound is what makes `Acquire` enabled.

`KvmCaptureProofs` (`CaptureAssumption`):

- `TypeCorrect`, with the lemma that handler programs are sequences of steps.
- `HardwareInductive`. `StateTellsHardware` speaks only of a free lock and is not
  inductive; `HardwareInv` says who holds the lock (the thread that starts, settles
  or reads) and ties the state to the library while it is held. `StateTells` and `LibraryNeeded`
  (without the library nothing is ever started, which no run checks) follow from it.
- `NoLeak`, `FramesOwned`. Only `ReadOk`, `ReadEmpty` and `DropFrame` change who has what; the lemmas
  `GrabSameFrames` and `PanelFrames` dispose of the other steps.
- `ReadsUp` and `FramesUp`, strengthened to every stage between `ensure_initialized` and the drop
  of the frame (`ReadyThreads`).
- `CaptureImplementsOwner`. With `HardwareInv` a thread inside is the only one and a free lock means that
  nobody is: `BeginInit` is `Start` or a stutter, `FinishInit` is `Started`, `BeginRead` is `Enter`, the
  ends of a read are `Leave`, a reset and the shutdown are `TakeDown` or a stutter. `ReadyThreads` is what
  makes `Enter` enabled. `StartsOnce` is a corollary.
- `FlagTruthful`, for one operator, whoever that is: requests that cross may leave the marker
  wrong. `Mends` says of what is left of a request that it brings output and marker
  together, whatever a hang-up left before.

`BruteForceProofs` (`ThrottleAssumption`):

- `TypeCorrect`.
- `LocksEarned`. Inductive as it stands because it speaks of every copy of the map
  (memory, clones, both files). The one arithmetic step is `RecordedEarned`: an entry
  that is locked and not stale has its failures already.
- `Remembered`. Uses `LocksEarned`: a lockout in force ends `Window` after the last
  failure, so the count cannot start again during it, and cleanup keeps it.
- `GuessesInvariant`. The sum of guesses and requests let through falls or stays
  during a lockout; when one begins, the request that caused it is through no more.
- `OnDiskInvariant`. `SaveInv`: as long as saves come one at a time the temporary file belongs to
  the one under way, and unless a change waits to be saved its clone, then the temporary
  file, then the file lock the same addresses as the map, now and at every later time.

`SessionsProofs` (`SessionsAssumption`):

- `TypeCorrect`, and `IssuedInvariant`: every key anywhere has been generated, so a new
  one differs from all that were replaced.
- `RevokedInvariant`. `KeptInv` adds what the requests are about to do: at most one is under
  way, the copy it will save has the key in memory, and the key a logout replaced is
  not that one. Only the TLS request could break the second, when it starts
  from an old key, and then `fate` is no longer `kept`.
- `SettingsInvariant`. `SettledInv` adds that a request that has the file open finds it empty and
  that what a logout has read has the TLS setting last written; it holds also when an old key is saved.

`PasskeysProofs` (`PasskeysAssumption`):

- `PasskeysTypeCorrect`, with the fact that a request under way has an answer.
- `ChallengeOnce`. `ChallengeBounded` is not inductive: `BoundInv` counts, for a challenge that
  is closed, the logins accepted together with those that still answer it, and says that
  nothing was accepted while it was open. Only `Finish` accepts, which takes an answer
  away (`FinishBounded`); a new challenge is not one that was closed, since ids grow; the
  rest is `QuietStep`.
- `StoreInvariant`. `KeptInv`: at most one request changes the store, the counter it has compared is
  still there, and the copy it saves is not lower anywhere. Steps that leave the store alone
  share `QuietKept`.

`AccessProofs` (`RecoveryAssumption`, `LimitAssumption`, `AccountsAssumption`):

- `RecoveryTypeCorrect`, `LimitTypeCorrect`, `AccountsTypeCorrect`.
- `CodeUsedOnce`. `UsedInv` adds that codes used belong to batches already made and, unless
  requests crossed, that no unused code of the file or of a copy about to be saved
  was used before.
- `CodesInvariant`. `ExactInv` says what a copy about to be saved is, compared with the file: the
  batch shown with exactly the codes that were used marked, or a new batch.
- `AttemptsInvariant`. `CountsKept` compares the three counts there are, in memory, in a copy to
  be saved and on disk, with the attempts let through in the window.
- `LastChangeInvariant`. `AccountKept` follows a change through the account file, passwd and
  the removal of the file when passwd fails.

`StreamProofs` (`QualityAssumption`, `StreamAssumption`, `PacketsAssumption`):

- `TierEarnedAlways`. `QualityInv`: the two counters of the code are the positive and the negative
  part of `streak`. Only one step, `OnFrameResult` or `SetAuto`, moves the tier.
- `StreamTypeCorrect`, `StreamImplementsFeeds`, and `NoGapAlways` as its corollary. `Encode` is `Produce`,
  `Receive` is `Get`, leaving and lagging are `End`. `ClientInv` describes what waits for a
  client: later than what it got, in order, and for a direct client that has missed nothing exactly the frames
  up to the last one sent. That holds because every encoded frame is sent to whoever watches then.
  `AppendRoom` says what a full channel does, `SendKeeps` that a sent frame continues the sequence,
  `ReceiveKeeps` that the first frame that waits is the next one.
- `PacketsInvariant`, for bytes and lengths of any size. `ScanInv`: the units found so far lie before `pos`,
  apart and in order, what lies behind a start code is in a unit or in the next start code, a search that has
  found one goes on where the next begins or at the end, and where no unit has a byte 1 of its own the units
  are Annex B's.
  `PackInv`: packets continue one another, cover the units packed so far and reach `offset` in
  the one under way. `SendInv`: what the receiver has put together is what the packets written
  carry. Each loop has lemmas for what a round adds (a unit, a packet, a write).
- `FramesSurvive` reads the property off the last round. Nothing is by induction over the bytes: each loop
  is steps, so the induction is over the behaviour.

`DevicesProofs` (the assumptions of the six modules):

- Type correctness of each.
- `UpdatesApartInvariant` with `UpdaterInv`: while a server runs, each install.sh that is not a stray's has
  its updater waiting for it, which is what keeps the flag set; a stray is one that has not ended. Most steps
  are a `OneStep`, which begins nothing and clears the flag only for an own update that ends; a start
  makes strays of all (`NothingBegun`).
- `ProgramWholeInvariant` with `CopyInv` uses it: of two scripts that copy together one is a stray's.
- `SentinelInvariant` with `OneLoad`: requests that were not let in together come one at a time.
- `EthernetInvariant` with `EthernetInv`: while a change is pending it will apply the file; one that is
  alone finds the files it opened empty and has written what it will save.
- `MediaInvariant` with `Done`, what the writes of a request have done so far.
- `BinariesInvariant` with `AloneInv` and `UnpackedInv`. The second counts what is unpacked: two versions
  have two jobs, so a job that is alone again copies its own archive, and without leftovers no directory is
  cut short. `InterruptedLeaves` says what a step that was not finished may have spoilt.
- `KeysReleasedInvariant` with `ReleasedInv`, which follows a closing socket device by device, and
  `Paired`: every second report of a paste is a release, so a paste leaves a key down only if
  it is dropped between the two.
- `PasteUnmixedInvariant`, inductive with `Paired` and `OpenInFlight`. `Follows` says which reports
  the host must have got after `n` strokes, by counting those that are due (`Due`); its lemmas say
  what one stroke more adds. `StrokeUnmixed` and `DeliverUnmixed` are the two steps that matter: a write puts
  its report behind what is in flight, a delivery moves that one to the host.

Together. `MCStream`, `MCAccess` and `MCDevices` put parts side by side; `StreamTogether`, `AccessTogether`
and `DevicesTogether` show that their behaviours are behaviours of each part, and `StreamRun`, `AccessRun`,
`DevicesTypeCorrect` and `DevicesRun` that what is proved of the parts holds of what the runs check.

Only model-checked: the two liveness properties, since the prover has neither fairness nor `ENABLED`.
What remains of `SlotFreedAfterClose` beyond `ClosedPeersInvariant` is that removals go on. What remains of
`RequestReturns` beyond `HardwareInductive` (the lock always has a holder that can give it back) is that
threads get the lock and run. Every other property of a run that passes is proved. The five
findings are counterexamples; two have a theorem for the other side: `CapWithOneRequester` and `FramesUp`.

## Not modelled

- Byte formats and cryptography (CBOR, QR, EDID, signatures, password hashes, tokens): functions of
  their input without state.
- Devices that are only read or written: audio, serial, GPIO, storage health. Two GPIO pulses of
  one pin may overlap; nothing keeps them apart.
- The timers of `screen.rs` that switch frame detection off and on, which may undo one another; a frame rate of zero, which
  makes the loop panic and the program abort.
- `on_remb_received` (no caller) and the statistics of the quality controller.
- Wi-Fi, the wake-on-LAN list, the Tailscale service, its funnel and settings: each request
  reads or writes one file or runs one command.
- Time stamps and parameter sets of RTP; the content of mouse reports and leds; HID modes.
- The login page, build scripts, the installer's parts that touch neither the program nor the service.
