---------------------------- MODULE PeerRegistry ----------------------------
(***************************************************************************)
(* The WebRTC peer registry (server/src/webrtc/transport.rs) with the two  *)
(* front ends that use it: the signalling WebSocket (ws_signaling.rs) and  *)
(* the WHEP resources.                                                     *)
(*                                                                         *)
(* A request that creates a peer counts the peers of its source, then      *)
(* negotiates across many awaits, then takes two locks one after the other *)
(* to enter the new id in two maps.  A removal takes the same two locks,   *)
(* also one after the other.  Every lock scope is one action.              *)
(*                                                                         *)
(* Abstractions.  Connection ids are fresh uuids: an id leaves Conns once. *)
(* A WHEP resource id is a second fresh uuid, in bijection with the        *)
(* connection it was made for, so a resource is named by its connection.   *)
(* The Vec of a source is a set: an id is pushed once and its order is     *)
(* never used.  SDP, tracks and ICE content are left out.                  *)
(***************************************************************************)
EXTENDS Naturals, FiniteSets

CONSTANTS
    Conns,     (* uuids a connection may get                              *)
    Sources,   (* video sources                                           *)
    Default,   (* the source the signalling socket always asks for        *)
    Sockets,   (* signalling WebSockets, each opened once                 *)
    Clients,   (* WHEP callers, each with one request at a time           *)
    MaxPeers,  (* config.max_peers_per_source                             *)
    NoConn     (* no connection                                           *)

ASSUME RegistryAssumption ==
    /\ IsFiniteSet(Conns)
    /\ IsFiniteSet(Sockets)
    /\ IsFiniteSet(Clients)
    /\ Default \in Sources
    /\ Sockets # {} /\ Sockets \cap Clients = {}
    /\ MaxPeers \in Nat
    /\ NoConn \notin Conns

Requesters == Sockets \cup Clients

VARIABLES
    connections,  (* ids in the connections map                            *)
    sourceOf,     (* source_id stored with each connection                 *)
    published,    (* source_connections: the ids listed under each source  *)
    issued,       (* uuids already drawn                                   *)
    request,      (* per requester: the offer it is handling               *)
    socket,       (* life of each signalling socket                        *)
    senderUp,     (* sockets whose sender task still drains the channel    *)
    peerHandle,   (* peer_handle local variable of each socket's handler   *)
    forwarder,    (* pairs <<c, s>>: candidate forwarder of c to socket s  *)
    resources,    (* WHEP resources                                        *)
    doomed,       (* ids on which remove_connection was called             *)
    unlinking,    (* ids out of the map but still listed under the source  *)
    unlinkers,    (* sockets whose closing handler is the one unlinking    *)
    replaced      (* history: ids a later offer pushed out of peer_handle  *)

maps == <<connections, sourceOf, published, issued>>
sockets == <<socket, senderUp, peerHandle, forwarder, replaced>>
removals == <<doomed, unlinking, unlinkers>>
vars == <<maps, request, sockets, resources, removals>>

Stages == {"idle", "negotiating", "inserted", "published"}
Idle == [stage |-> "idle", conn |-> NoConn, source |-> Default]

TypeOK ==
    /\ connections \in SUBSET Conns
    /\ sourceOf \in [Conns -> Sources]
    /\ published \in [Sources -> SUBSET Conns]
    /\ issued \in SUBSET Conns
    /\ request \in [Requesters -> [stage : Stages,
                                   conn : Conns \cup {NoConn},
                                   source : Sources]]
    /\ \A w \in Requesters :
          request[w].stage \in {"inserted", "published"} => request[w].conn \in Conns
    /\ socket \in [Sockets -> {"new", "open", "closing", "closed"}]
    /\ senderUp \in SUBSET Sockets
    /\ peerHandle \in [Sockets -> Conns \cup {NoConn}]
    /\ forwarder \in SUBSET (Conns \X Sockets)
    /\ resources \in SUBSET Conns
    /\ doomed \in SUBSET Conns
    /\ unlinking \in SUBSET Conns
    /\ unlinkers \in SUBSET Sockets
    /\ replaced \in SUBSET Conns

Init ==
    /\ connections = {}
    /\ sourceOf = [c \in Conns |-> Default]
    /\ published = [s \in Sources |-> {}]
    /\ issued = {}
    /\ request = [w \in Requesters |-> Idle]
    /\ socket = [s \in Sockets |-> "new"]
    /\ senderUp = {}
    /\ peerHandle = [s \in Sockets |-> NoConn]
    /\ forwarder = {}
    /\ resources = {}
    /\ doomed = {}
    /\ unlinking = {}
    /\ unlinkers = {}
    /\ replaced = {}

-----------------------------------------------------------------------------
(* Creating a peer: handle_offer and create_subscriber have the same steps. *)

(* connection_count_for_source *)
CountFor(src) == Cardinality(published[src])

(* What the mutants of the runs change. *)
CheckOffByOne(w, src) ==
    /\ request[w].stage = "idle"
    /\ CountFor(src) =< MaxPeers
    /\ request' = [request EXCEPT ![w] = [stage |-> "negotiating",
                                          conn |-> NoConn, source |-> src]]
    /\ UNCHANGED <<maps, sockets, resources, removals>>

(* The cap is checked before the first await and never again. *)
Check(w, src) ==
    /\ request[w].stage = "idle"
    /\ CountFor(src) < MaxPeers
    /\ request' = [request EXCEPT ![w] = [stage |-> "negotiating",
                                          conn |-> NoConn, source |-> src]]
    /\ UNCHANGED <<maps, sockets, resources, removals>>

(* Any await of the negotiation may fail; nothing was entered yet.  For a  *)
(* WHEP request this is also the caller hanging up, which drops the future.*)
NegotiationFails(w) ==
    /\ request[w].stage = "negotiating"
    /\ request' = [request EXCEPT ![w] = Idle]
    /\ UNCHANGED <<maps, sockets, resources, removals>>

(* connections.write().insert(..) *)
InsertConnection(w) ==
    /\ request[w].stage = "negotiating"
    /\ \E c \in Conns \ issued :
          /\ issued' = issued \cup {c}
          /\ connections' = connections \cup {c}
          /\ sourceOf' = [sourceOf EXCEPT ![c] = request[w].source]
          /\ request' = [request EXCEPT ![w].stage = "inserted",
                                        ![w].conn = c]
    /\ UNCHANGED <<published, sockets, resources, removals>>

(* source_connections.write().entry(source).or_default().push(..) *)
PublishConnection(w) ==
    /\ request[w].stage = "inserted"
    /\ published' = [published EXCEPT ![request[w].source] = @ \cup {request[w].conn}]
    /\ request' = [request EXCEPT ![w].stage = "published"]
    /\ UNCHANGED <<connections, sourceOf, issued, sockets, resources, removals>>

-----------------------------------------------------------------------------
(* Removing a peer: remove_connection. *)

RemoveWithoutUnlink(c) ==
    /\ c \in doomed
    /\ doomed' = doomed \ {c}
    /\ connections' = connections \ {c}
    /\ UNCHANGED <<sourceOf, published, issued, request, sockets, resources, unlinking, unlinkers>>

(* The handler of s has called remove_connection(c). *)
Closing(s, c) == socket[s] = "closing" /\ peerHandle[s] = c

(* First lock: take the entry out of connections.  A second remover of the *)
(* same id finds nothing and is done.  Where the handler of a socket and   *)
(* its forwarder have both called, either may be the one that takes it.    *)
RemoveFromMap(c) ==
    /\ c \in doomed
    /\ doomed' = doomed \ {c}
    /\ connections' = connections \ {c}
    /\ unlinking' = IF c \in connections THEN unlinking \cup {c} ELSE unlinking
    /\ \/ /\ c \in connections
          /\ unlinkers' = unlinkers \cup {s \in Sockets : Closing(s, c)}
       \/ /\ c \in connections =>
                \A s \in Sockets : Closing(s, c) => <<c, s>> \notin forwarder
          /\ UNCHANGED unlinkers
    /\ UNCHANGED <<sourceOf, published, issued, request, sockets, resources>>

UnlinkWholeSource(c) ==
    /\ c \in unlinking
    /\ unlinking' = unlinking \ {c}
    /\ published' = [published EXCEPT ![sourceOf[c]] = {}]
    /\ unlinkers' = {s \in unlinkers : peerHandle[s] # c}
    /\ UNCHANGED <<connections, sourceOf, issued, request, sockets, resources, doomed>>

(* Second lock: retain the other ids of the entry's source. *)
UnlinkFromSource(c) ==
    /\ c \in unlinking
    /\ unlinking' = unlinking \ {c}
    /\ published' = [published EXCEPT ![sourceOf[c]] = @ \ {c}]
    /\ unlinkers' = {s \in unlinkers : peerHandle[s] # c}
    /\ UNCHANGED <<connections, sourceOf, issued, request, sockets, resources, doomed>>

-----------------------------------------------------------------------------
(* The signalling socket: handle_ws_signaling. *)

SocketOpen(s) ==
    /\ socket[s] = "new"
    /\ socket' = [socket EXCEPT ![s] = "open"]
    /\ senderUp' = senderUp \cup {s}
    /\ UNCHANGED <<maps, request, peerHandle, forwarder, replaced, resources, removals>>

(* A "video-offer" arrives while the read loop waits.  An offer over the   *)
(* cap is answered with an error and changes nothing.                      *)
VideoOffer(s) ==
    /\ socket[s] = "open"
    /\ Check(s, Default)

(* The offer succeeded: a forwarder task is spawned for the new connection *)
(* and peer_handle is overwritten, whatever it held.                       *)
OfferDone(s) ==
    /\ request[s].stage = "published"
    /\ request' = [request EXCEPT ![s] = Idle]
    /\ peerHandle' = [peerHandle EXCEPT ![s] = request[s].conn]
    /\ replaced' = replaced \cup ({peerHandle[s]} \ {NoConn})
    /\ forwarder' = forwarder \cup {<<request[s].conn, s>>}
    /\ UNCHANGED <<maps, socket, senderUp, resources, removals>>

(* A write to the client fails and the sender task returns, which drops    *)
(* the receiving end of the channel.                                       *)
SenderBreaks(s) ==
    /\ socket[s] = "open"
    /\ s \in senderUp
    /\ senderUp' = senderUp \ {s}
    /\ UNCHANGED <<maps, request, socket, peerHandle, forwarder, replaced, resources, removals>>

(* The forwarder holds the handle, whose connection holds the sending end  *)
(* of the candidate stream, so the stream never ends by itself: the task   *)
(* returns only when a local candidate comes and the channel is gone.      *)
ForwarderFails(c, s) ==
    /\ <<c, s>> \in forwarder
    /\ s \notin senderUp
    /\ forwarder' = forwarder \ {<<c, s>>}
    /\ doomed' = doomed \cup {c}
    /\ UNCHANGED <<maps, request, socket, senderUp, peerHandle, replaced, resources, unlinking, unlinkers>>

SocketCloseKeepsPeer(s) ==
    /\ socket[s] = "open"
    /\ request[s].stage = "idle"
    /\ socket' = [socket EXCEPT ![s] = "closing"]
    /\ UNCHANGED <<maps, request, senderUp, peerHandle, forwarder, replaced, resources, removals>>

SocketCloseUnchecked(s) ==
    /\ socket[s] = "open"
    /\ request[s].stage = "idle"
    /\ socket' = [socket EXCEPT ![s] = "closing"]
    /\ doomed' = doomed \cup {peerHandle[s]}
    /\ UNCHANGED <<maps, request, senderUp, peerHandle, forwarder, replaced, resources, unlinking, unlinkers>>

(* The read loop ends: the handler removes the connection in peer_handle.  *)
SocketClose(s) ==
    /\ socket[s] = "open"
    /\ request[s].stage = "idle"
    /\ socket' = [socket EXCEPT ![s] = "closing"]
    /\ doomed' = doomed \cup ({peerHandle[s]} \ {NoConn})
    /\ UNCHANGED <<maps, request, senderUp, peerHandle, forwarder, replaced, resources, unlinking, unlinkers>>

(* remove_connection has returned, at once if the forwarder was first: the *)
(* sender task is aborted.                                                 *)
SocketEnd(s) ==
    /\ socket[s] = "closing"
    /\ peerHandle[s] \notin doomed /\ s \notin unlinkers
    /\ socket' = [socket EXCEPT ![s] = "closed"]
    /\ senderUp' = senderUp \ {s}
    /\ UNCHANGED <<maps, request, peerHandle, forwarder, replaced, resources, removals>>

-----------------------------------------------------------------------------
(* WHEP: POST and DELETE.  PATCH and GET change no state modelled here. *)

WhepCreate(k, src) == Check(k, src)

(* The new resource is entered after create_subscriber returned. *)
WhepCreated(k) ==
    /\ request[k].stage = "published"
    /\ request' = [request EXCEPT ![k] = Idle]
    /\ resources' = resources \cup {request[k].conn}
    /\ UNCHANGED <<maps, sockets, removals>>

WhepDelete(c) ==
    /\ c \in resources
    /\ resources' = resources \ {c}
    /\ doomed' = doomed \cup {c}
    /\ UNCHANGED <<maps, request, sockets, unlinking, unlinkers>>

-----------------------------------------------------------------------------
Offer(w) == NegotiationFails(w) \/ InsertConnection(w) \/ PublishConnection(w)

Signalling(s) ==
    \/ SocketOpen(s) \/ VideoOffer(s) \/ OfferDone(s)
    \/ SenderBreaks(s) \/ SocketClose(s) \/ SocketEnd(s)

Whep(k) == WhepCreated(k) \/ \E src \in Sources : WhepCreate(k, src)

Removal(c) ==
    \/ RemoveFromMap(c) \/ UnlinkFromSource(c) \/ WhepDelete(c)
    \/ \E s \in Sockets : ForwarderFails(c, s)

Next ==
    \/ \E w \in Requesters : Offer(w)
    \/ \E s \in Sockets : Signalling(s)
    \/ \E k \in Clients : Whep(k)
    \/ \E c \in Conns : Removal(c)

Spec == Init /\ [][Next]_vars

(* The runtime keeps polling tasks that are ready, so a removal that was   *)
(* started finishes.  Nothing obliges a client to send, close or delete.   *)
Fairness ==
    /\ \A c \in Conns : WF_vars(RemoveFromMap(c)) /\ WF_vars(UnlinkFromSource(c))
    /\ \A s \in Sockets : WF_vars(SocketEnd(s))

FairSpec == Spec /\ Fairness

-----------------------------------------------------------------------------
(* Properties. *)

(* A request whose cap check has passed and whose id is not yet listed. *)
Admitted(src) == {w \in Requesters : /\ request[w].stage \in {"negotiating", "inserted"}
                                     /\ request[w].source = src}

BeingPublished(c) == \E w \in Requesters : request[w].stage = "inserted" /\ request[w].conn = c

(* An id listed under a source is in the connection map, or its removal is *)
(* between its two locks: a listed id that is in neither would count       *)
(* against the cap for ever, because only an id found in the map is ever   *)
(* retained out of its source (transport.rs 700-718).                      *)
NoDanglingSlot ==
    \A src \in Sources : \A c \in published[src] :
        /\ c \in connections \/ c \in unlinking
        /\ sourceOf[c] = src

(* A connection in the map is listed under its source, where the frame     *)
(* loop looks it up, unless the request that made it is between its two    *)
(* locks: else it would be connected and never get a frame.                *)
ConnectedPeerIsListed ==
    \A c \in connections : c \in published[sourceOf[c]] \/ BeingPublished(c)

(* The cap is checked before the awaits of the negotiation, so requests    *)
(* that negotiate together all pass it; the overshoot is at most one less  *)
(* than the number of requesters.                                          *)
OvershootBounded ==
    \A src \in Sources :
        CountFor(src) + Cardinality(Admitted(src)) < MaxPeers + Cardinality(Requesters)

(* What the configuration's name and the error message say: a source never *)
(* has more than max_peers_per_source peers (transport.rs 112, 482).       *)
CapRespected == \A src \in Sources : CountFor(src) =< MaxPeers

(* Every connection has someone who will or can remove it, except those a  *)
(* second offer on the same socket pushed out of peer_handle: the socket's *)
(* close (ws_signaling.rs 216-218), a WHEP resource or a removal under way.*)
OnlyReplacedPeersAreOrphans ==
    \A c \in connections :
        \/ c \in replaced \cup resources \cup doomed
        \/ \E s \in Sockets : peerHandle[s] = c /\ socket[s] = "open"
        \/ \E w \in Requesters : request[w].conn = c

(* Why the invariants above are inductive.  An id that is in the map but   *)
(* not yet listed is known to nobody but the request that drew it, so no   *)
(* removal can slip between the two inserts.                               *)
Known(c) ==
    \/ c \in resources \cup doomed \cup unlinking
    \/ \E s \in Sockets : peerHandle[s] = c \/ <<c, s>> \in forwarder
    \/ \E w \in Requesters : request[w].stage = "published" /\ request[w].conn = c

OnlyIssuedIdsInUse ==
    /\ connections \subseteq issued
    /\ \A src \in Sources : published[src] \subseteq issued
    /\ \A c \in Conns : Known(c) => c \in issued
    /\ \A w \in Requesters :
          request[w].stage \in {"inserted", "published"} => request[w].conn \in issued

Private(w, c) ==
    /\ c \in connections /\ sourceOf[c] = request[w].source
    /\ ~Known(c)
    /\ \A src \in Sources : c \notin published[src]
    /\ \A v \in Requesters \ {w} : request[v].stage = "inserted" => request[v].conn # c

UnpublishedIdIsPrivate ==
    \A w \in Requesters : \A c \in Conns :
        request[w].stage = "inserted" /\ request[w].conn = c => Private(w, c)

UnlinkingIsOut == unlinking \cap connections = {}

(* The inductive invariant of the two maps; OvershootBounded is inductive  *)
(* on top of it.                                                           *)
RegistryInv ==
    /\ TypeOK
    /\ OnlyIssuedIdsInUse
    /\ UnpublishedIdIsPrivate
    /\ UnlinkingIsOut
    /\ NoDanglingSlot
    /\ ConnectedPeerIsListed

(* When a signalling socket closes, its current connection eventually      *)
(* leaves both maps and its slot is free.                                  *)
SlotFreedAfterClose ==
    \A s \in Sockets : \A c \in Conns :
        (socket[s] = "closing" /\ peerHandle[s] = c)
            ~> (c \notin connections /\ \A src \in Sources : c \notin published[src])

(* The registry implements PeerSlots with MaxPeers + requesters - 1 slots. *)
Slot == INSTANCE PeerSlots WITH
    held <- published,
    spent <- {c \in issued : ~BeingPublished(c)},
    Slots <- MaxPeers + Cardinality(Requesters) - 1
SlotSpec == Slot!Spec
=============================================================================
