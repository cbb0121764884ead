------------------------- MODULE PeerRegistryProofs -------------------------
(***************************************************************************)
(* Proofs about PeerRegistry: types, the inductive invariant of the two    *)
(* maps, who removes a connection, the bound on the overshoot, and that it *)
(* implements PeerSlots.                                                   *)
(***************************************************************************)
EXTENDS PeerRegistry, FiniteSetTheorems, TLAPS

(* The variables of the specification keep their types. *)
THEOREM TypeCorrect == Spec => []TypeOK
<1> USE DEF TypeOK, Requesters, Stages, Idle
<1>1. Init => TypeOK
  BY RegistryAssumption DEF Init
<1>2. TypeOK /\ [Next]_vars => TypeOK'
  <2> SUFFICES ASSUME TypeOK, [Next]_vars PROVE TypeOK'
    OBVIOUS
  <2> USE DEF maps, sockets, removals
  <2>1. ASSUME NEW w \in Requesters, NegotiationFails(w) PROVE TypeOK'
    BY <2>1, RegistryAssumption DEF NegotiationFails
  <2>2. ASSUME NEW w \in Requesters, InsertConnection(w) PROVE TypeOK'
    BY <2>2 DEF InsertConnection
  <2>3. ASSUME NEW w \in Requesters, PublishConnection(w) PROVE TypeOK'
    BY <2>3 DEF PublishConnection
  <2>4. ASSUME NEW s \in Sockets, SocketOpen(s) PROVE TypeOK'
    BY <2>4 DEF SocketOpen
  <2>5. ASSUME NEW w \in Requesters, NEW src \in Sources, Check(w, src) PROVE TypeOK'
    BY <2>5 DEF Check
  <2>6. ASSUME NEW s \in Sockets, OfferDone(s) PROVE TypeOK'
    BY <2>6, RegistryAssumption DEF OfferDone
  <2>7. ASSUME NEW s \in Sockets, SenderBreaks(s) PROVE TypeOK'
    BY <2>7 DEF SenderBreaks
  <2>8. ASSUME NEW s \in Sockets, SocketClose(s) PROVE TypeOK'
    BY <2>8 DEF SocketClose
  <2>9. ASSUME NEW s \in Sockets, SocketEnd(s) PROVE TypeOK'
    BY <2>9 DEF SocketEnd
  <2>10. ASSUME NEW k \in Clients, WhepCreated(k) PROVE TypeOK'
    BY <2>10, RegistryAssumption DEF WhepCreated
  <2>11. ASSUME NEW c \in Conns, WhepDelete(c) PROVE TypeOK'
    BY <2>11 DEF WhepDelete
  <2>12. ASSUME NEW c \in Conns, RemoveFromMap(c) PROVE TypeOK'
    BY <2>12 DEF RemoveFromMap
  <2>13. ASSUME NEW c \in Conns, UnlinkFromSource(c) PROVE TypeOK'
    BY <2>13 DEF UnlinkFromSource
  <2>14. ASSUME NEW c \in Conns, NEW s \in Sockets, ForwarderFails(c, s) PROVE TypeOK'
    BY <2>14 DEF ForwarderFails
  <2>15. CASE UNCHANGED vars
    BY <2>15 DEF vars
  <2>16. QED
    BY <2>1, <2>2, <2>3, <2>4, <2>5, <2>6, <2>7, <2>8, <2>9, <2>10, <2>11, <2>12, <2>13, <2>14, <2>15, RegistryAssumption
    DEF Next, Offer, Signalling, Whep, Removal, VideoOffer, WhepCreate
<1>3. QED
  BY <1>1, <1>2, PTL DEF Spec


(* A step is quiet when it touches neither the maps nor the removals, makes *)
(* no id known, and moves no request into or out of the two insert stages.  *)
Quiet ==
    /\ UNCHANGED <<maps, resources, removals, peerHandle, forwarder>>
    /\ \A w \in Requesters :
          \/ request'[w] = request[w]
          \/ /\ request[w].stage \in {"idle", "negotiating"}
             /\ request'[w].stage \in {"idle", "negotiating"}

(* A quiet step preserves the invariant of the maps. *)
LEMMA QuietStep == ASSUME RegistryInv, TypeOK', Quiet PROVE RegistryInv'
<1> USE DEF RegistryInv, Quiet, maps, removals
<1>1. \A c \in Conns : Known(c)' <=> Known(c)
  BY DEF Known
<1>2. \A c \in Conns : BeingPublished(c)' <=> BeingPublished(c)
  BY DEF BeingPublished
<1>3. OnlyIssuedIdsInUse'
  BY <1>1 DEF OnlyIssuedIdsInUse
<1>4. UnpublishedIdIsPrivate'
  BY <1>1 DEF UnpublishedIdIsPrivate, Private, TypeOK
<1>5. UnlinkingIsOut' /\ NoDanglingSlot'
  BY DEF UnlinkingIsOut, NoDanglingSlot
<1>6. ConnectedPeerIsListed'
  BY <1>2 DEF ConnectedPeerIsListed, TypeOK
<1>7. QED
  BY <1>3, <1>4, <1>5, <1>6

(* A step that starts no insert keeps every unpublished id private if it    *)
(* makes none of them known, listed or removed.                             *)
LEMMA PrivateStep ==
    ASSUME UnpublishedIdIsPrivate,
           \A v \in Requesters : request'[v].stage = "inserted" =>
               request[v].stage = "inserted" /\ request'[v] = request[v],
           \A v \in Requesters, d \in Conns :
               Private(v, d) /\ request'[v].stage = "inserted" /\ request[v].conn = d =>
                   /\ ~Known(d)'
                   /\ d \in connections' /\ sourceOf' = sourceOf
                   /\ \A src \in Sources : d \notin published'[src]
    PROVE  UnpublishedIdIsPrivate'
<1> SUFFICES ASSUME NEW w \in Requesters, NEW c \in Conns,
                    request'[w].stage = "inserted", request'[w].conn = c
             PROVE  Private(w, c)'
  BY DEF UnpublishedIdIsPrivate
<1>1. Private(w, c) /\ request'[w] = request[w]
  BY DEF UnpublishedIdIsPrivate
<1>2. QED
  BY <1>1 DEF Private

(* The two maps and everything that knows an id stay in step: RegistryInv  *)
(* is inductive.                                                           *)
THEOREM RegistryInvariant == Spec => []RegistryInv
<1>1. Init => RegistryInv
  BY RegistryAssumption
  DEF Init, RegistryInv, TypeOK, OnlyIssuedIdsInUse, UnpublishedIdIsPrivate, UnlinkingIsOut,
      NoDanglingSlot, ConnectedPeerIsListed, Known, Idle, Stages
<1>2. RegistryInv /\ TypeOK' /\ [Next]_vars => RegistryInv'
  <2> SUFFICES ASSUME RegistryInv, TypeOK', [Next]_vars PROVE RegistryInv'
    OBVIOUS
  <2> USE DEF RegistryInv, maps, sockets, removals
  <2>1. ASSUME NEW w \in Requesters, NegotiationFails(w) PROVE RegistryInv'
    <3>1. Quiet
      BY <2>1, RegistryAssumption DEF NegotiationFails, Quiet, TypeOK, Idle, Requesters
    <3>2. QED
      BY <3>1, QuietStep
  <2>2. ASSUME NEW w \in Requesters, InsertConnection(w) PROVE RegistryInv'
    <3>1. PICK c \in Conns \ issued :
             /\ issued' = issued \cup {c}
             /\ connections' = connections \cup {c}
             /\ sourceOf' = [sourceOf EXCEPT ![c] = request[w].source]
             /\ request' = [request EXCEPT ![w].stage = "inserted", ![w].conn = c]
      BY <2>2 DEF InsertConnection
    <3>2. UNCHANGED <<published, sockets, resources, removals>>
      BY <2>2 DEF InsertConnection
    <3>3. request[w].stage = "negotiating"
      BY <2>2 DEF InsertConnection
    <3>4. /\ request'[w].stage = "inserted" /\ request'[w].conn = c
          /\ request'[w].source = request[w].source
          /\ \A v \in Requesters \ {w} : request'[v] = request[v]
      BY <3>1 DEF TypeOK
    <3>5. c \notin connections /\ ~Known(c) /\ \A src \in Sources : c \notin published[src]
      BY <3>1 DEF OnlyIssuedIdsInUse
    <3>6. \A d \in Conns : Known(d)' <=> Known(d)
      BY <3>2, <3>3, <3>4 DEF Known, TypeOK
    <3>7. OnlyIssuedIdsInUse'
      <4>1. \A d \in Conns : Known(d)' => d \in issued'
        BY <3>1, <3>6 DEF OnlyIssuedIdsInUse
      <4>2. ASSUME NEW v \in Requesters, request'[v].stage \in {"inserted", "published"}
            PROVE  request'[v].conn \in issued'
        <5>1. CASE v = w
          BY <5>1, <3>1, <3>4
        <5>2. CASE v # w
          <6>1. request'[v] = request[v]
            BY <5>2, <3>4
          <6>2. request[v].conn \in issued
            BY <6>1, <4>2 DEF OnlyIssuedIdsInUse
          <6>3. QED
            BY <6>1, <6>2, <3>1
        <5>3. QED
          BY <5>1, <5>2
      <4>3. QED
        BY <4>1, <4>2, <3>1, <3>2 DEF OnlyIssuedIdsInUse
    <3>8. UnpublishedIdIsPrivate'
      <4> SUFFICES ASSUME NEW v \in Requesters, NEW d \in Conns,
                          request'[v].stage = "inserted", request'[v].conn = d
                   PROVE  /\ d \in connections' /\ sourceOf'[d] = request'[v].source
                          /\ ~Known(d)'
                          /\ \A src \in Sources : d \notin published'[src]
                          /\ \A u \in Requesters \ {v} :
                                request'[u].stage = "inserted" => request'[u].conn # d
        BY DEF UnpublishedIdIsPrivate, Private
      <4>1. CASE v = w
        <5>1. \A u \in Requesters \ {w} : request[u].stage = "inserted" => request[u].conn # c
          BY <3>1 DEF OnlyIssuedIdsInUse
        <5>2. QED
          BY <4>1, <5>1, <3>1, <3>2, <3>4, <3>5, <3>6 DEF TypeOK
      <4>2. CASE v # w
        <5>1. request[v].stage = "inserted" /\ request'[v] = request[v]
          BY <4>2, <3>4
        <5>2. d \in issued /\ d # c
          BY <5>1, <3>1 DEF OnlyIssuedIdsInUse
        <5>3. \A u \in Requesters \ {v} :
                 request'[u].stage = "inserted" => request'[u].conn # d
          BY <4>2, <5>1, <5>2, <3>4 DEF UnpublishedIdIsPrivate, Private
        <5>4. QED
          BY <5>1, <5>2, <5>3, <3>1, <3>2, <3>6 DEF UnpublishedIdIsPrivate, Private, TypeOK
      <4>3. QED
        BY <4>1, <4>2
    <3>9. UnlinkingIsOut'
      BY <3>1, <3>2, <3>5 DEF UnlinkingIsOut, Known
    <3>10. NoDanglingSlot'
      BY <3>1, <3>2, <3>5 DEF NoDanglingSlot, TypeOK
    <3>11. ConnectedPeerIsListed'
      <4> SUFFICES ASSUME NEW d \in connections'
                   PROVE  d \in published'[sourceOf'[d]] \/ BeingPublished(d)'
        BY DEF ConnectedPeerIsListed
      <4>1. CASE d = c
        BY <4>1, <3>4 DEF BeingPublished
      <4>2. CASE d # c
        <5>1. d \in connections /\ sourceOf'[d] = sourceOf[d]
          BY <4>2, <3>1 DEF TypeOK
        <5>2. CASE d \in published[sourceOf[d]]
          BY <5>1, <5>2, <3>2
        <5>3. CASE BeingPublished(d)
          BY <5>3, <3>3, <3>4 DEF BeingPublished
        <5>4. QED
          BY <5>1, <5>2, <5>3 DEF ConnectedPeerIsListed
      <4>3. QED
        BY <4>1, <4>2
    <3>12. QED
      BY <3>7, <3>8, <3>9, <3>10, <3>11
  <2>3. ASSUME NEW w \in Requesters, PublishConnection(w) PROVE RegistryInv'
    <3>0. /\ request[w].stage = "inserted" /\ request[w].conn \in Conns
          /\ request'[w].conn = request[w].conn
          /\ \A v \in Requesters \ {w} : request'[v] = request[v]
          /\ \A d \in Conns : Known(d)' => Known(d) \/ d = request[w].conn
      <4>1. request[w].stage = "inserted" /\ request[w].conn \in Conns
        BY <2>3 DEF PublishConnection, TypeOK
      <4>2. /\ request'[w].conn = request[w].conn
            /\ \A v \in Requesters \ {w} : request'[v] = request[v]
        BY <2>3 DEF PublishConnection, TypeOK
      <4>3. UNCHANGED <<resources, doomed, unlinking, peerHandle, forwarder>>
        BY <2>3 DEF PublishConnection
      <4>4. ASSUME NEW d \in Conns, Known(d)' PROVE Known(d) \/ d = request[w].conn
        BY <4>2, <4>3, <4>4 DEF Known
      <4>5. QED
        BY <4>1, <4>2, <4>4
    <3>1. OnlyIssuedIdsInUse'
      <4>1. request[w].conn \in issued
        BY <3>0 DEF OnlyIssuedIdsInUse
      <4>2. \A v \in Requesters :
               request'[v].stage \in {"inserted", "published"} => request'[v].conn \in issued
        BY <4>1, <3>0 DEF OnlyIssuedIdsInUse
      <4>3. \A src \in Sources : published'[src] \subseteq issued
        BY <4>1, <2>3 DEF PublishConnection, OnlyIssuedIdsInUse, TypeOK
      <4>4. QED
        BY <4>1, <4>2, <4>3, <3>0, <2>3 DEF PublishConnection, OnlyIssuedIdsInUse
    <3>2. UnpublishedIdIsPrivate'
      <4>1. ASSUME NEW v \in Requesters, request'[v].stage = "inserted"
            PROVE  request[v].stage = "inserted" /\ request'[v] = request[v]
        BY <2>3, <4>1 DEF PublishConnection, TypeOK, Requesters
      <4>2. ASSUME NEW v \in Requesters, NEW d \in Conns, Private(v, d),
                   request'[v].stage = "inserted", request[v].conn = d
            PROVE  ~Known(d)'
        <5>1. v # w /\ request[v].stage = "inserted"
          BY <2>3, <4>1, <4>2 DEF PublishConnection, TypeOK
        <5>2. QED
          BY <5>1, <4>2, <3>0 DEF Private
      <4>3. ASSUME NEW v \in Requesters, NEW d \in Conns, Private(v, d),
                   request'[v].stage = "inserted", request[v].conn = d
            PROVE  d \in connections' /\ sourceOf' = sourceOf /\ \A src \in Sources : d \notin published'[src]
        BY <2>3, <4>1, <4>3 DEF PublishConnection, Private, Known, TypeOK, Requesters
      <4>4. QED
        BY <4>1, <4>2, <4>3, PrivateStep
    <3>3. UnlinkingIsOut'
      BY <2>3 DEF UnlinkingIsOut, PublishConnection, TypeOK, OnlyIssuedIdsInUse
    <3>4. NoDanglingSlot'
      BY <2>3 DEF NoDanglingSlot, PublishConnection, TypeOK, Private, UnpublishedIdIsPrivate, OnlyIssuedIdsInUse
    <3>5. ConnectedPeerIsListed'
      BY <2>3 DEF ConnectedPeerIsListed, PublishConnection, TypeOK, BeingPublished, NoDanglingSlot, UnpublishedIdIsPrivate, Private, UnlinkingIsOut, Known, Requesters
    <3>6. QED
      BY <3>1, <3>2, <3>3, <3>4, <3>5
  <2>4. ASSUME NEW s \in Sockets, SocketOpen(s) PROVE RegistryInv'
    <3>1. Quiet
      BY <2>4, RegistryAssumption DEF SocketOpen, Quiet, TypeOK, Idle, Requesters
    <3>2. QED
      BY <3>1, QuietStep
  <2>5. ASSUME NEW w \in Requesters, NEW src \in Sources, Check(w, src) PROVE RegistryInv'
    <3>1. Quiet
      BY <2>5, RegistryAssumption DEF Check, Quiet, TypeOK, Idle, Requesters
    <3>2. QED
      BY <3>1, QuietStep
  <2>6. ASSUME NEW s \in Sockets, OfferDone(s) PROVE RegistryInv'
    <3>1. OnlyIssuedIdsInUse'
      BY <2>6 DEF OnlyIssuedIdsInUse, OfferDone, TypeOK, Known, Requesters, Idle
    <3>2. UnpublishedIdIsPrivate'
      <4>1. ASSUME NEW v \in Requesters, request'[v].stage = "inserted"
            PROVE  request[v].stage = "inserted" /\ request'[v] = request[v]
        BY <2>6, <4>1 DEF OfferDone, TypeOK, Requesters, Idle
      <4>2. ASSUME NEW v \in Requesters, NEW d \in Conns, Private(v, d),
                   request'[v].stage = "inserted", request[v].conn = d
            PROVE  ~Known(d)'
        BY <2>6, <4>1, <4>2 DEF OfferDone, Private, Known, TypeOK, Requesters, Idle
      <4>3. ASSUME NEW v \in Requesters, NEW d \in Conns, Private(v, d),
                   request'[v].stage = "inserted", request[v].conn = d
            PROVE  d \in connections' /\ sourceOf' = sourceOf /\ \A src \in Sources : d \notin published'[src]
        BY <2>6, <4>1, <4>3 DEF OfferDone, Private, Known, TypeOK, Requesters, Idle
      <4>4. QED
        BY <4>1, <4>2, <4>3, PrivateStep
    <3>3. UnlinkingIsOut'
      BY <2>6 DEF UnlinkingIsOut, OfferDone, TypeOK, OnlyIssuedIdsInUse, Idle
    <3>4. NoDanglingSlot'
      BY <2>6 DEF NoDanglingSlot, OfferDone, TypeOK, Private, UnpublishedIdIsPrivate, OnlyIssuedIdsInUse, Idle
    <3>5. ConnectedPeerIsListed'
      BY <2>6 DEF ConnectedPeerIsListed, OfferDone, TypeOK, BeingPublished, NoDanglingSlot, UnpublishedIdIsPrivate, Private, UnlinkingIsOut, Known, Requesters, Idle
    <3>6. QED
      BY <3>1, <3>2, <3>3, <3>4, <3>5
  <2>7. ASSUME NEW s \in Sockets, SenderBreaks(s) PROVE RegistryInv'
    <3>1. Quiet
      BY <2>7, RegistryAssumption DEF SenderBreaks, Quiet, TypeOK, Idle, Requesters
    <3>2. QED
      BY <3>1, QuietStep
  <2>8. ASSUME NEW s \in Sockets, SocketClose(s) PROVE RegistryInv'
    <3>1. OnlyIssuedIdsInUse'
      BY <2>8 DEF OnlyIssuedIdsInUse, SocketClose, TypeOK, Known, Requesters
    <3>2. UnpublishedIdIsPrivate'
      <4>1. ASSUME NEW v \in Requesters, request'[v].stage = "inserted"
            PROVE  request[v].stage = "inserted" /\ request'[v] = request[v]
        BY <2>8, <4>1 DEF SocketClose, TypeOK, Requesters
      <4>2. ASSUME NEW v \in Requesters, NEW d \in Conns, Private(v, d),
                   request'[v].stage = "inserted", request[v].conn = d
            PROVE  ~Known(d)'
        BY <2>8, <4>1, <4>2 DEF SocketClose, Private, Known, TypeOK, Requesters
      <4>3. ASSUME NEW v \in Requesters, NEW d \in Conns, Private(v, d),
                   request'[v].stage = "inserted", request[v].conn = d
            PROVE  d \in connections' /\ sourceOf' = sourceOf /\ \A src \in Sources : d \notin published'[src]
        BY <2>8, <4>1, <4>3 DEF SocketClose, Private, Known, TypeOK, Requesters
      <4>4. QED
        BY <4>1, <4>2, <4>3, PrivateStep
    <3>3. UnlinkingIsOut'
      BY <2>8 DEF UnlinkingIsOut, SocketClose, TypeOK, OnlyIssuedIdsInUse
    <3>4. NoDanglingSlot'
      BY <2>8 DEF NoDanglingSlot, SocketClose, TypeOK, Private, UnpublishedIdIsPrivate, OnlyIssuedIdsInUse
    <3>5. ConnectedPeerIsListed'
      BY <2>8 DEF ConnectedPeerIsListed, SocketClose, TypeOK, BeingPublished, NoDanglingSlot, UnpublishedIdIsPrivate, Private, UnlinkingIsOut, Known, Requesters
    <3>6. QED
      BY <3>1, <3>2, <3>3, <3>4, <3>5
  <2>9. ASSUME NEW s \in Sockets, SocketEnd(s) PROVE RegistryInv'
    <3>1. Quiet
      BY <2>9, RegistryAssumption DEF SocketEnd, Quiet, TypeOK, Idle, Requesters
    <3>2. QED
      BY <3>1, QuietStep
  <2>10. ASSUME NEW k \in Clients, WhepCreated(k) PROVE RegistryInv'
    <3>1. OnlyIssuedIdsInUse'
      BY <2>10 DEF OnlyIssuedIdsInUse, WhepCreated, TypeOK, Known, Requesters, Idle
    <3>2. UnpublishedIdIsPrivate'
      <4>1. ASSUME NEW v \in Requesters, request'[v].stage = "inserted"
            PROVE  request[v].stage = "inserted" /\ request'[v] = request[v]
        BY <2>10, <4>1 DEF WhepCreated, TypeOK, Requesters, Idle
      <4>2. ASSUME NEW v \in Requesters, NEW d \in Conns, Private(v, d),
                   request'[v].stage = "inserted", request[v].conn = d
            PROVE  ~Known(d)'
        BY <2>10, <4>1, <4>2 DEF WhepCreated, Private, Known, TypeOK, Requesters, Idle
      <4>3. ASSUME NEW v \in Requesters, NEW d \in Conns, Private(v, d),
                   request'[v].stage = "inserted", request[v].conn = d
            PROVE  d \in connections' /\ sourceOf' = sourceOf /\ \A src \in Sources : d \notin published'[src]
        BY <2>10, <4>1, <4>3 DEF WhepCreated, Private, Known, TypeOK, Requesters, Idle
      <4>4. QED
        BY <4>1, <4>2, <4>3, PrivateStep
    <3>3. UnlinkingIsOut'
      BY <2>10 DEF UnlinkingIsOut, WhepCreated, TypeOK, OnlyIssuedIdsInUse, Idle
    <3>4. NoDanglingSlot'
      BY <2>10 DEF NoDanglingSlot, WhepCreated, TypeOK, Private, UnpublishedIdIsPrivate, OnlyIssuedIdsInUse, Idle
    <3>5. ConnectedPeerIsListed'
      BY <2>10 DEF ConnectedPeerIsListed, WhepCreated, TypeOK, BeingPublished, NoDanglingSlot, UnpublishedIdIsPrivate, Private, UnlinkingIsOut, Known, Requesters, Idle
    <3>6. QED
      BY <3>1, <3>2, <3>3, <3>4, <3>5
  <2>11. ASSUME NEW c \in Conns, WhepDelete(c) PROVE RegistryInv'
    <3>1. OnlyIssuedIdsInUse'
      BY <2>11 DEF OnlyIssuedIdsInUse, WhepDelete, TypeOK, Known, Requesters
    <3>2. UnpublishedIdIsPrivate'
      <4>1. ASSUME NEW v \in Requesters, request'[v].stage = "inserted"
            PROVE  request[v].stage = "inserted" /\ request'[v] = request[v]
        BY <2>11, <4>1 DEF WhepDelete, TypeOK, Requesters
      <4>2. ASSUME NEW v \in Requesters, NEW d \in Conns, Private(v, d),
                   request'[v].stage = "inserted", request[v].conn = d
            PROVE  ~Known(d)'
        BY <2>11, <4>1, <4>2 DEF WhepDelete, Private, Known, TypeOK, Requesters
      <4>3. ASSUME NEW v \in Requesters, NEW d \in Conns, Private(v, d),
                   request'[v].stage = "inserted", request[v].conn = d
            PROVE  d \in connections' /\ sourceOf' = sourceOf /\ \A src \in Sources : d \notin published'[src]
        BY <2>11, <4>1, <4>3 DEF WhepDelete, Private, Known, TypeOK, Requesters
      <4>4. QED
        BY <4>1, <4>2, <4>3, PrivateStep
    <3>3. UnlinkingIsOut'
      BY <2>11 DEF UnlinkingIsOut, WhepDelete, TypeOK, OnlyIssuedIdsInUse
    <3>4. NoDanglingSlot'
      BY <2>11 DEF NoDanglingSlot, WhepDelete, TypeOK, Private, UnpublishedIdIsPrivate, OnlyIssuedIdsInUse
    <3>5. ConnectedPeerIsListed'
      BY <2>11 DEF ConnectedPeerIsListed, WhepDelete, TypeOK, BeingPublished, NoDanglingSlot, UnpublishedIdIsPrivate, Private, UnlinkingIsOut, Known, Requesters
    <3>6. QED
      BY <3>1, <3>2, <3>3, <3>4, <3>5
  <2>12. ASSUME NEW c \in Conns, RemoveFromMap(c) PROVE RegistryInv'
    <3>1. OnlyIssuedIdsInUse'
      BY <2>12 DEF OnlyIssuedIdsInUse, RemoveFromMap, TypeOK, Known, Requesters
    <3>2. UnpublishedIdIsPrivate'
      <4>1. ASSUME NEW v \in Requesters, request'[v].stage = "inserted"
            PROVE  request[v].stage = "inserted" /\ request'[v] = request[v]
        BY <2>12, <4>1 DEF RemoveFromMap, TypeOK, Requesters
      <4>2. ASSUME NEW v \in Requesters, NEW d \in Conns, Private(v, d),
                   request'[v].stage = "inserted", request[v].conn = d
            PROVE  ~Known(d)'
        BY <2>12, <4>1, <4>2 DEF RemoveFromMap, Private, Known, TypeOK, Requesters
      <4>3. ASSUME NEW v \in Requesters, NEW d \in Conns, Private(v, d),
                   request'[v].stage = "inserted", request[v].conn = d
            PROVE  d \in connections' /\ sourceOf' = sourceOf /\ \A src \in Sources : d \notin published'[src]
        BY <2>12, <4>1, <4>3 DEF RemoveFromMap, Private, Known, TypeOK, Requesters
      <4>4. QED
        BY <4>1, <4>2, <4>3, PrivateStep
    <3>3. UnlinkingIsOut'
      BY <2>12 DEF UnlinkingIsOut, RemoveFromMap, TypeOK, OnlyIssuedIdsInUse
    <3>4. NoDanglingSlot'
      BY <2>12 DEF NoDanglingSlot, RemoveFromMap, TypeOK, Private, UnpublishedIdIsPrivate, OnlyIssuedIdsInUse
    <3>5. ConnectedPeerIsListed'
      BY <2>12 DEF ConnectedPeerIsListed, RemoveFromMap, TypeOK, BeingPublished, NoDanglingSlot, UnpublishedIdIsPrivate, Private, UnlinkingIsOut, Known, Requesters
    <3>6. QED
      BY <3>1, <3>2, <3>3, <3>4, <3>5
  <2>13. ASSUME NEW c \in Conns, UnlinkFromSource(c) PROVE RegistryInv'
    <3>1. OnlyIssuedIdsInUse'
      BY <2>13 DEF OnlyIssuedIdsInUse, UnlinkFromSource, TypeOK, Known, Requesters
    <3>2. UnpublishedIdIsPrivate'
      <4>1. ASSUME NEW v \in Requesters, request'[v].stage = "inserted"
            PROVE  request[v].stage = "inserted" /\ request'[v] = request[v]
        BY <2>13, <4>1 DEF UnlinkFromSource, TypeOK, Requesters
      <4>2. ASSUME NEW v \in Requesters, NEW d \in Conns, Private(v, d),
                   request'[v].stage = "inserted", request[v].conn = d
            PROVE  ~Known(d)'
        BY <2>13, <4>1, <4>2 DEF UnlinkFromSource, Private, Known, TypeOK, Requesters
      <4>3. ASSUME NEW v \in Requesters, NEW d \in Conns, Private(v, d),
                   request'[v].stage = "inserted", request[v].conn = d
            PROVE  d \in connections' /\ sourceOf' = sourceOf /\ \A src \in Sources : d \notin published'[src]
        BY <2>13, <4>1, <4>3 DEF UnlinkFromSource, Private, Known, TypeOK, Requesters
      <4>4. QED
        BY <4>1, <4>2, <4>3, PrivateStep
    <3>3. UnlinkingIsOut'
      BY <2>13 DEF UnlinkingIsOut, UnlinkFromSource, TypeOK, OnlyIssuedIdsInUse
    <3>4. NoDanglingSlot'
      BY <2>13 DEF NoDanglingSlot, UnlinkFromSource, TypeOK, Private, UnpublishedIdIsPrivate, OnlyIssuedIdsInUse
    <3>5. ConnectedPeerIsListed'
      BY <2>13 DEF ConnectedPeerIsListed, UnlinkFromSource, TypeOK, BeingPublished, NoDanglingSlot, UnpublishedIdIsPrivate, Private, UnlinkingIsOut, Known, Requesters
    <3>6. QED
      BY <3>1, <3>2, <3>3, <3>4, <3>5
  <2>14. ASSUME NEW c \in Conns, NEW s \in Sockets, ForwarderFails(c, s) PROVE RegistryInv'
    <3>1. OnlyIssuedIdsInUse'
      BY <2>14 DEF OnlyIssuedIdsInUse, ForwarderFails, TypeOK, Known, Requesters
    <3>2. UnpublishedIdIsPrivate'
      <4>1. ASSUME NEW v \in Requesters, request'[v].stage = "inserted"
            PROVE  request[v].stage = "inserted" /\ request'[v] = request[v]
        BY <2>14, <4>1 DEF ForwarderFails, TypeOK, Requesters
      <4>2. ASSUME NEW v \in Requesters, NEW d \in Conns, Private(v, d),
                   request'[v].stage = "inserted", request[v].conn = d
            PROVE  ~Known(d)'
        BY <2>14, <4>1, <4>2 DEF ForwarderFails, Private, Known, TypeOK, Requesters
      <4>3. ASSUME NEW v \in Requesters, NEW d \in Conns, Private(v, d),
                   request'[v].stage = "inserted", request[v].conn = d
            PROVE  d \in connections' /\ sourceOf' = sourceOf /\ \A src \in Sources : d \notin published'[src]
        BY <2>14, <4>1, <4>3 DEF ForwarderFails, Private, Known, TypeOK, Requesters
      <4>4. QED
        BY <4>1, <4>2, <4>3, PrivateStep
    <3>3. UnlinkingIsOut'
      BY <2>14 DEF UnlinkingIsOut, ForwarderFails, TypeOK, OnlyIssuedIdsInUse
    <3>4. NoDanglingSlot'
      BY <2>14 DEF NoDanglingSlot, ForwarderFails, TypeOK, Private, UnpublishedIdIsPrivate, OnlyIssuedIdsInUse
    <3>5. ConnectedPeerIsListed'
      BY <2>14 DEF ConnectedPeerIsListed, ForwarderFails, TypeOK, BeingPublished, NoDanglingSlot, UnpublishedIdIsPrivate, Private, UnlinkingIsOut, Known, Requesters
    <3>6. QED
      BY <3>1, <3>2, <3>3, <3>4, <3>5
  <2>15. CASE UNCHANGED vars
    <3>1. Quiet
      BY <2>15 DEF vars, Quiet
    <3>2. QED
      BY <3>1, QuietStep
  <2>16. QED
    BY <2>1, <2>2, <2>3, <2>4, <2>5, <2>6, <2>7, <2>8, <2>9, <2>10, <2>11, <2>12, <2>13, <2>14, <2>15, RegistryAssumption
    DEF Next, Offer, Signalling, Whep, Removal, VideoOffer, WhepCreate, Requesters
<1>3. QED
  BY <1>1, <1>2, TypeCorrect, PTL DEF Spec

(* What the invariant says of the two maps: no listed id is ever stranded   *)
(* outside the connection map, and no removal can find an id between its    *)
(* two inserts ...                                                          *)
THEOREM MapsAgree == Spec => [](NoDanglingSlot /\ UnpublishedIdIsPrivate)
BY RegistryInvariant, PTL DEF RegistryInv

(* ... and the frame loop finds every connected peer under its source.      *)
THEOREM PeersListed == Spec => []ConnectedPeerIsListed
BY RegistryInvariant, PTL DEF RegistryInv

-----------------------------------------------------------------------------
(* Who removes a connection *)

(* A request has an id only once it has drawn one, and a socket is open     *)
(* as long as its offer is being handled.                                   *)
HandlerInv ==
    /\ \A w \in Requesters :
          request[w].stage \in {"idle", "negotiating"} => request[w].conn = NoConn
    /\ \A s \in Sockets : request[s].stage # "idle" => socket[s] = "open"

Keeper(c) ==
    \/ c \in replaced \cup resources \cup doomed
    \/ \E s \in Sockets : peerHandle[s] = c /\ socket[s] = "open"
    \/ \E w \in Requesters : request[w].conn = c

OwnersInv == HandlerInv /\ OnlyReplacedPeersAreOrphans

(* A step that makes no connection and takes no keeper away.                *)
LEMMA KeepersStay ==
    ASSUME OnlyReplacedPeersAreOrphans, connections' \subseteq connections,
           \A c \in Conns : c \in connections' /\ Keeper(c) => Keeper(c)', TypeOK'
    PROVE  OnlyReplacedPeersAreOrphans'
BY DEF OnlyReplacedPeersAreOrphans, Keeper, TypeOK

LEMMA OwnersInductive == Spec => []OwnersInv
<1> USE DEF Requesters
<1>1. Init => OwnersInv
  BY DEF Init, OwnersInv, HandlerInv, OnlyReplacedPeersAreOrphans, Idle
<1>2. TypeOK /\ TypeOK' /\ OwnersInv /\ [Next]_vars => OwnersInv'
  <2> SUFFICES ASSUME TypeOK, TypeOK', OwnersInv, [Next]_vars PROVE OwnersInv'
    OBVIOUS
  <2> USE DEF OwnersInv, maps, sockets, removals
  <2>0. \A c \in Conns : c # NoConn
    BY RegistryAssumption
  <2>1. ASSUME NEW w \in Requesters, NegotiationFails(w) PROVE OwnersInv'
    <3>1. HandlerInv'
      BY <2>1 DEF NegotiationFails, HandlerInv, TypeOK, Idle
    <3>2. \A c \in Conns : Keeper(c) => Keeper(c)'
      BY <2>0, <2>1 DEF NegotiationFails, HandlerInv, TypeOK, Keeper
    <3>3. QED
      BY <2>1, <3>1, <3>2, KeepersStay DEF NegotiationFails
  <2>2. ASSUME NEW w \in Requesters, InsertConnection(w) PROVE OwnersInv'
    <3>1. PICK c \in Conns \ issued :
             /\ connections' = connections \cup {c}
             /\ request' = [request EXCEPT ![w].stage = "inserted", ![w].conn = c]
      BY <2>2 DEF InsertConnection
    <3>2. UNCHANGED <<sockets, resources, removals>> /\ request[w].stage = "negotiating"
      BY <2>2 DEF InsertConnection
    <3>3. /\ request'[w].stage = "inserted" /\ request'[w].conn = c
          /\ \A v \in Requesters \ {w} : request'[v] = request[v]
      BY <3>1 DEF TypeOK
    <3>4. HandlerInv'
      BY <3>2, <3>3 DEF HandlerInv
    <3>5. \A d \in Conns : Keeper(d) => Keeper(d)'
      BY <2>0, <3>2, <3>3 DEF HandlerInv, Keeper
    <3>6. Keeper(c)'
      BY <3>3 DEF Keeper
    <3>7. OnlyReplacedPeersAreOrphans'
      BY <3>1, <3>5, <3>6 DEF OnlyReplacedPeersAreOrphans, Keeper, TypeOK
    <3>8. QED
      BY <3>4, <3>7
  <2>3. ASSUME NEW w \in Requesters, PublishConnection(w) PROVE OwnersInv'
    <3>1. \A v \in Requesters : /\ request'[v].conn = request[v].conn
                                /\ v # w => request'[v] = request[v]
      BY <2>3 DEF PublishConnection, TypeOK
    <3>2. request[w].stage = "inserted" /\ request'[w].stage = "published"
      BY <2>3 DEF PublishConnection, TypeOK
    <3>3. UNCHANGED <<connections, sockets, resources, removals>>
      BY <2>3 DEF PublishConnection
    <3>4. HandlerInv'
      BY <3>1, <3>2, <3>3 DEF HandlerInv
    <3>5. QED
      BY <3>1, <3>3, <3>4, KeepersStay DEF Keeper
  <2>4. ASSUME NEW w \in Requesters, NEW src \in Sources, Check(w, src),
               w \in Sockets => socket[w] = "open"
        PROVE  OwnersInv'
    <3>1. HandlerInv'
      BY <2>4 DEF Check, HandlerInv, TypeOK
    <3>2. \A c \in Conns : Keeper(c) => Keeper(c)'
      BY <2>0, <2>4 DEF Check, HandlerInv, TypeOK, Keeper
    <3>3. QED
      BY <2>4, <3>1, <3>2, KeepersStay DEF Check
  <2>5. ASSUME NEW s \in Sockets, OfferDone(s) PROVE OwnersInv'
    <3>1. request' = [request EXCEPT ![s] = Idle] /\ socket[s] = "open"
      BY <2>5 DEF OfferDone, HandlerInv
    <3>2. HandlerInv'
      BY <2>5, <3>1 DEF OfferDone, HandlerInv, TypeOK, Idle
    <3>3. /\ peerHandle'[s] = request[s].conn
          /\ \A q \in Sockets \ {s} : peerHandle'[q] = peerHandle[q]
          /\ peerHandle[s] # NoConn => peerHandle[s] \in replaced'
          /\ replaced \subseteq replaced'
          /\ UNCHANGED <<connections, socket, resources, doomed>>
      BY <2>5 DEF OfferDone, TypeOK
    <3>4. \A w \in Requesters \ {s} : request'[w] = request[w]
      BY <3>1 DEF TypeOK
    <3>5. \A c \in Conns : Keeper(c) => Keeper(c)'
      BY <2>0, <3>1, <3>3, <3>4 DEF Keeper
    <3>6. QED
      BY <3>2, <3>3, <3>5, KeepersStay
  <2>6. ASSUME NEW s \in Sockets, SocketClose(s) PROVE OwnersInv'
    <3>1. HandlerInv'
      BY <2>6 DEF SocketClose, HandlerInv, TypeOK
    <3>2. \A c \in Conns : Keeper(c) => Keeper(c)'
      BY <2>0, <2>6 DEF SocketClose, TypeOK, Keeper
    <3>3. QED
      BY <2>6, <3>1, <3>2, KeepersStay DEF SocketClose
  <2>7. ASSUME NEW s \in Sockets, SocketOpen(s) \/ SenderBreaks(s) \/ SocketEnd(s) PROVE OwnersInv'
    <3>1. /\ UNCHANGED <<connections, request, peerHandle, replaced, resources, doomed>>
          /\ \A q \in Sockets : socket[q] = "open" => socket'[q] = "open"
      BY <2>7 DEF SocketOpen, SenderBreaks, SocketEnd, TypeOK
    <3>2. QED
      BY <3>1, KeepersStay DEF Keeper, HandlerInv
  <2>8. ASSUME NEW k \in Clients, WhepCreated(k) PROVE OwnersInv'
    <3>1. HandlerInv'
      BY <2>8, RegistryAssumption DEF WhepCreated, HandlerInv, TypeOK, Idle
    <3>2. \A c \in Conns : Keeper(c) => Keeper(c)'
      BY <2>0, <2>8 DEF WhepCreated, TypeOK, Keeper
    <3>3. QED
      BY <2>8, <3>1, <3>2, KeepersStay DEF WhepCreated
  <2>9. ASSUME NEW c \in Conns,
               \/ RemoveFromMap(c) \/ UnlinkFromSource(c) \/ WhepDelete(c)
               \/ \E s \in Sockets : ForwarderFails(c, s)
        PROVE  OwnersInv'
    <3>1. UNCHANGED <<request, socket, peerHandle, replaced>> /\ connections' \subseteq connections
      BY <2>9 DEF RemoveFromMap, UnlinkFromSource, WhepDelete, ForwarderFails
    <3>2. \A d \in connections' :
             d \in resources \cup doomed => d \in resources' \cup doomed'
      BY <2>9 DEF RemoveFromMap, UnlinkFromSource, WhepDelete, ForwarderFails
    <3>3. QED
      BY <3>1, <3>2, KeepersStay DEF Keeper, HandlerInv
  <2>10. CASE UNCHANGED vars
    BY <2>10, KeepersStay DEF vars, Keeper, HandlerInv
  <2>11. ASSUME NEW s \in Sockets, VideoOffer(s) PROVE OwnersInv'
    BY <2>4, <2>11, RegistryAssumption DEF VideoOffer
  <2>12. ASSUME NEW k \in Clients, NEW src \in Sources, WhepCreate(k, src) PROVE OwnersInv'
    BY <2>4, <2>12, RegistryAssumption DEF WhepCreate
  <2>13. QED
    BY <2>1, <2>2, <2>3, <2>5, <2>6, <2>7, <2>8, <2>9, <2>10, <2>11, <2>12
    DEF Next, Offer, Signalling, Whep, Removal
<1>3. QED
  BY <1>1, <1>2, TypeCorrect, PTL DEF Spec

(* Every connection has a request, an open socket, a resource or a removal  *)
(* that ends it, or a second offer of its socket took that away             *)
(* (handle_ws_signaling, ws_signaling.rs 216-218).                          *)
THEOREM OwnersInvariant == Spec => []OnlyReplacedPeersAreOrphans
BY OwnersInductive, PTL DEF OwnersInv

-----------------------------------------------------------------------------
(* A socket that closes *)

(* An id that has left both maps, and one that has or is on its way out.    *)
Gone(c) ==
    /\ c \in issued /\ c \notin connections
    /\ \A src \in Sources : c \notin published[src]
Leaving(c) == Gone(c) \/ c \in doomed \cup unlinking

(* The peer of a socket whose read loop has ended is being removed.  Once   *)
(* the handler has returned it is out of the map, and it holds a slot only  *)
(* while the forwarder, if that was the first remover, is between its two   *)
(* locks.                                                                   *)
ClosedPeersLeave ==
    \A s \in Sockets : \A c \in Conns : peerHandle[s] = c =>
        /\ socket[s] = "closing" => Leaving(c)
        /\ socket[s] = "closed" => Gone(c) \/ c \in unlinking

(* An id that is gone does not come back, since ids are drawn once and only *)
(* one in the map is listed.                                                *)
LEMMA GoneStays ==
    ASSUME RegistryInv, [Next]_vars, NEW c \in Conns, Gone(c)
    PROVE  Gone(c)'
<1> USE DEF RegistryInv, Gone, maps, sockets, removals
<1>1. ASSUME NEW w \in Requesters, NegotiationFails(w) PROVE Gone(c)'
  BY <1>1 DEF NegotiationFails
<1>2. ASSUME NEW w \in Requesters, InsertConnection(w) PROVE Gone(c)'
  BY <1>2 DEF InsertConnection
<1>3. ASSUME NEW w \in Requesters, PublishConnection(w) PROVE Gone(c)'
  <2>1. request[w].conn \in connections
    BY <1>3 DEF PublishConnection, TypeOK, UnpublishedIdIsPrivate, Private
  <2>2. UNCHANGED <<connections, issued>>
    BY <1>3 DEF PublishConnection
  <2>3. \A src \in Sources : published'[src] \subseteq published[src] \cup {request[w].conn}
    BY <1>3 DEF PublishConnection, TypeOK
  <2>4. QED
    BY <2>1, <2>2, <2>3
<1>4. ASSUME NEW s \in Sockets, Signalling(s) PROVE Gone(c)'
  BY <1>4 DEF Signalling, SocketOpen, VideoOffer, Check, OfferDone, SenderBreaks, SocketClose,
     SocketEnd
<1>5. ASSUME NEW k \in Clients, Whep(k) PROVE Gone(c)'
  BY <1>5 DEF Whep, WhepCreated, WhepCreate, Check
<1>6. ASSUME NEW d \in Conns, Removal(d), ~UnlinkFromSource(d) PROVE Gone(c)'
  BY <1>6 DEF Removal, RemoveFromMap, WhepDelete, ForwarderFails
<1>7. ASSUME NEW d \in Conns, UnlinkFromSource(d) PROVE Gone(c)'
  BY <1>7 DEF UnlinkFromSource, TypeOK
<1>8. CASE UNCHANGED vars
  BY <1>8 DEF vars
<1>9. QED
  BY <1>1, <1>2, <1>3, <1>4, <1>5, <1>6, <1>7, <1>8 DEF Next, Offer

(* A removal that was begun goes from one lock to the next and is only over *)
(* when the id is gone: whoever comes second finds the id out of the map,   *)
(* and then somebody else is unlinking it.                                  *)
LEMMA LeavingStays ==
    ASSUME RegistryInv, [Next]_vars, NEW c \in Conns, Leaving(c)
    PROVE  Leaving(c)'
<1> USE DEF RegistryInv, maps, sockets, removals
<1>1. CASE Gone(c)
  BY <1>1, GoneStays DEF Leaving
<1>2. CASE c \in doomed \cup unlinking
  <2>1. CASE RemoveFromMap(c)
    <3>1. CASE c \in connections \/ c \in unlinking
      BY <2>1, <3>1 DEF RemoveFromMap, Leaving
    <3>2. CASE c \notin connections /\ c \notin unlinking
      <4>1. c \in issued
        BY <1>2 DEF OnlyIssuedIdsInUse, Known
      <4>2. Gone(c)
        BY <3>2, <4>1 DEF Gone, NoDanglingSlot
      <4>3. QED
        BY <4>2, GoneStays DEF Leaving
    <3>3. QED
      BY <3>1, <3>2
  <2>2. CASE UnlinkFromSource(c)
    <3>1. c \in issued /\ c \notin connections
      BY <2>2 DEF UnlinkFromSource, UnlinkingIsOut, OnlyIssuedIdsInUse, Known
    <3>2. \A src \in Sources : c \notin published'[src]
      BY <2>2 DEF UnlinkFromSource, NoDanglingSlot, TypeOK
    <3>3. QED
      BY <2>2, <3>1, <3>2 DEF UnlinkFromSource, Leaving, Gone
  <2>3. ASSUME NEW d \in Conns, d # c, RemoveFromMap(d) \/ UnlinkFromSource(d) PROVE Leaving(c)'
    BY <1>2, <2>3 DEF RemoveFromMap, UnlinkFromSource, Leaving
  <2>4. ASSUME doomed \subseteq doomed', unlinking' = unlinking PROVE Leaving(c)'
    BY <1>2, <2>4 DEF Leaving
  <2>5. ASSUME NEW d \in Conns, WhepDelete(d) \/ \E s \in Sockets : ForwarderFails(d, s)
        PROVE  Leaving(c)'
    BY <2>4, <2>5 DEF WhepDelete, ForwarderFails
  <2>6. ASSUME NEW w \in Requesters, Offer(w) PROVE Leaving(c)'
    BY <2>4, <2>6 DEF Offer, NegotiationFails, InsertConnection, PublishConnection
  <2>7. ASSUME NEW s \in Sockets, Signalling(s) PROVE Leaving(c)'
    BY <2>4, <2>7 DEF Signalling, SocketOpen, VideoOffer, Check, OfferDone, SenderBreaks,
       SocketClose, SocketEnd
  <2>8. ASSUME NEW k \in Clients, Whep(k) PROVE Leaving(c)'
    BY <2>4, <2>8 DEF Whep, WhepCreated, WhepCreate, Check
  <2>9. CASE UNCHANGED vars
    BY <2>4, <2>9 DEF vars
  <2>10. QED
    BY <2>1, <2>2, <2>3, <2>5, <2>6, <2>7, <2>8, <2>9 DEF Next, Removal
<1>3. QED
  BY <1>1, <1>2 DEF Leaving

(* An id whose removal has passed the first lock stays so until the second. *)
LEMMA UnlinkingStays ==
    ASSUME RegistryInv, [Next]_vars, NEW c \in Conns, Gone(c) \/ c \in unlinking
    PROVE  (Gone(c) \/ c \in unlinking)'
<1> USE DEF maps, sockets, removals
<1>1. CASE Gone(c)
  BY <1>1, GoneStays
<1>2. CASE c \in unlinking
  <2>1. CASE UnlinkFromSource(c)
    <3>1. c \in issued /\ c \notin connections
      BY <1>2 DEF RegistryInv, UnlinkingIsOut, OnlyIssuedIdsInUse, Known
    <3>2. \A src \in Sources : c \notin published'[src]
      BY <2>1 DEF RegistryInv, UnlinkFromSource, NoDanglingSlot, TypeOK
    <3>3. QED
      BY <2>1, <3>1, <3>2 DEF UnlinkFromSource, Gone
  <2>2. ASSUME NEW d \in Conns, Removal(d), ~UnlinkFromSource(c) PROVE c \in unlinking'
    BY <1>2, <2>2 DEF Removal, RemoveFromMap, UnlinkFromSource, WhepDelete, ForwarderFails
  <2>3. ASSUME \/ \E w \in Requesters : Offer(w)
               \/ \E s \in Sockets : Signalling(s)
               \/ \E k \in Clients : Whep(k)
               \/ UNCHANGED vars
        PROVE  unlinking' = unlinking
    BY <2>3 DEF Offer, NegotiationFails, InsertConnection, PublishConnection, Signalling,
       SocketOpen, VideoOffer, Check, OfferDone, SenderBreaks, SocketClose, SocketEnd, Whep,
       WhepCreated, WhepCreate, vars
  <2>4. QED
    BY <1>2, <2>1, <2>2, <2>3 DEF Next
<1>3. QED
  BY <1>1, <1>2

(* What SlotFreedAfterClose needs besides fairness: the close hands its     *)
(* peer to a removal that is never lost, and when the handler has returned, *)
(* the removal is past its first lock, whoever began it (ws_signaling.rs    *)
(* 181-188, 216-222, transport.rs 700-718).                                 *)
THEOREM ClosedPeersInvariant == Spec => []ClosedPeersLeave
<1>1. Init => ClosedPeersLeave
  BY DEF Init, ClosedPeersLeave
<1>2. TypeOK' /\ RegistryInv /\ OwnersInv /\ ClosedPeersLeave /\ [Next]_vars => ClosedPeersLeave'
  <2> SUFFICES ASSUME TypeOK', RegistryInv, OwnersInv, ClosedPeersLeave, [Next]_vars,
                      NEW s \in Sockets, NEW c \in Conns, peerHandle'[s] = c
               PROVE  /\ socket'[s] = "closing" => Leaving(c)'
                      /\ socket'[s] = "closed" => (Gone(c) \/ c \in unlinking)'
    BY DEF ClosedPeersLeave
  <2>t. TypeOK /\ c # NoConn /\ (\A w \in Requesters : request[w].stage # "idle" /\ w \in Sockets
                                                      => socket[w] = "open")
    BY RegistryAssumption DEF RegistryInv, OwnersInv, HandlerInv
  <2>1. CASE socket'[s] = socket[s] /\ peerHandle'[s] = peerHandle[s]
    <3>1. /\ socket[s] = "closing" => Leaving(c)
          /\ socket[s] = "closed" => Gone(c) \/ c \in unlinking
      BY <2>1 DEF ClosedPeersLeave
    <3>2. QED
      BY <2>1, <3>1, UnlinkingStays, LeavingStays
  <2>2. CASE SocketClose(s)
    BY <2>2, <2>t DEF SocketClose, TypeOK, Leaving
  <2>3. CASE SocketEnd(s)
    <3>1. socket[s] = "closing" /\ peerHandle[s] = c /\ c \notin doomed
      BY <2>3 DEF SocketEnd
    <3>2. Gone(c) \/ c \in unlinking
      BY <3>1 DEF ClosedPeersLeave, Leaving
    <3>3. socket'[s] = "closed"
      BY <2>3, <2>t DEF SocketEnd, TypeOK
    <3>4. QED
      BY <3>2, <3>3, UnlinkingStays
  <2>4. CASE SocketOpen(s)
    BY <2>4, <2>t DEF SocketOpen, TypeOK
  <2>5. CASE OfferDone(s)
    <3>1. socket[s] = "open"
      BY <2>5 DEF OfferDone, OwnersInv, HandlerInv
    <3>2. socket'[s] = socket[s]
      BY <2>5 DEF OfferDone
    <3>3. QED
      BY <3>1, <3>2
  <2>6. ASSUME NEW q \in Sockets, q # s, Signalling(q)
        PROVE  socket'[s] = socket[s] /\ peerHandle'[s] = peerHandle[s]
    BY <2>6, <2>t DEF Signalling, SocketOpen, VideoOffer, Check, OfferDone, SenderBreaks,
       SocketClose, SocketEnd, TypeOK, sockets
  <2>7. ASSUME VideoOffer(s) \/ SenderBreaks(s)
        PROVE  socket'[s] = socket[s] /\ peerHandle'[s] = peerHandle[s]
    BY <2>7 DEF VideoOffer, Check, SenderBreaks, sockets
  <2>8. ASSUME \/ \E w \in Requesters : Offer(w)
               \/ \E k \in Clients : Whep(k)
               \/ \E d \in Conns : Removal(d)
               \/ UNCHANGED vars
        PROVE  socket'[s] = socket[s] /\ peerHandle'[s] = peerHandle[s]
    BY <2>8 DEF Offer, NegotiationFails, InsertConnection, PublishConnection, Whep, WhepCreated,
       WhepCreate, Check, Removal, RemoveFromMap, UnlinkFromSource, WhepDelete, ForwarderFails,
       vars, sockets
  <2>9. QED
    BY <2>1, <2>2, <2>3, <2>4, <2>5, <2>6, <2>7, <2>8 DEF Next, Signalling
<1>3. QED
  BY <1>1, <1>2, TypeCorrect, RegistryInvariant, OwnersInductive, PTL DEF Spec

-----------------------------------------------------------------------------
(* Requesters are finitely many, and so are the ids listed and admitted.    *)
LEMMA FiniteCounts == ASSUME TypeOK, NEW src \in Sources
                    PROVE  /\ IsFiniteSet(Requesters)
                           /\ IsFiniteSet(Admitted(src)) /\ IsFiniteSet(published[src])
                           /\ Cardinality(Admitted(src)) =< Cardinality(Requesters)
                           /\ Cardinality(Requesters) \in Nat \ {0}
                           /\ CountFor(src) \in Nat /\ Cardinality(Admitted(src)) \in Nat
<1>1. IsFiniteSet(Requesters)
  BY RegistryAssumption, FS_Union DEF Requesters
<1>2. Admitted(src) \subseteq Requesters /\ published[src] \subseteq Conns
  BY DEF Admitted, TypeOK
<1>3. Requesters # {}
  BY RegistryAssumption DEF Requesters
<1>4. IsFiniteSet(Admitted(src)) /\ Cardinality(Admitted(src)) =< Cardinality(Requesters)
  BY <1>1, <1>2, FS_Subset
<1>5. IsFiniteSet(published[src])
  BY <1>2, RegistryAssumption, FS_Subset
<1>6. Cardinality(Requesters) \in Nat \ {0}
  BY <1>1, <1>3, FS_CardinalityType, FS_EmptySet
<1>7. QED
  BY <1>1, <1>4, <1>5, <1>6, FS_CardinalityType DEF CountFor

(* A step that lists no new id and admits no new request keeps the bound.   *)
LEMMA ShrinkingStep ==
    ASSUME TypeOK, TypeOK', OvershootBounded,
           \A src \in Sources : /\ published'[src] \subseteq published[src]
                                /\ Admitted(src)' \subseteq Admitted(src)
    PROVE  OvershootBounded'
<1> SUFFICES ASSUME NEW src \in Sources
             PROVE  (CountFor(src) + Cardinality(Admitted(src)) < MaxPeers + Cardinality(Requesters))'
  BY DEF OvershootBounded
<1>1. Cardinality(published'[src]) =< Cardinality(published[src])
  BY FiniteCounts, FS_Subset
<1>2. Cardinality(Admitted(src)') =< Cardinality(Admitted(src))
  BY FiniteCounts, FS_Subset
<1>3. Cardinality(published'[src]) \in Nat /\ Cardinality(Admitted(src)') \in Nat
  <2>1. IsFiniteSet(published'[src]) /\ IsFiniteSet(Admitted(src)')
    BY FiniteCounts, FS_Subset
  <2>2. QED
    BY <2>1, FS_CardinalityType
<1>4. CountFor(src) + Cardinality(Admitted(src)) < MaxPeers + Cardinality(Requesters)
  BY DEF OvershootBounded
<1>5. QED
  BY <1>1, <1>2, <1>3, <1>4, FiniteCounts, RegistryAssumption DEF CountFor, Requesters

(* Listing an admitted id moves one unit from the admitted to the listed.   *)
LEMMA PublishKeepsBound ==
    ASSUME TypeOK, TypeOK', OvershootBounded, NEW w \in Requesters, PublishConnection(w)
    PROVE  OvershootBounded'
<1> SUFFICES ASSUME NEW src \in Sources
             PROVE  (CountFor(src) + Cardinality(Admitted(src)) < MaxPeers + Cardinality(Requesters))'
  BY DEF OvershootBounded
<1>0. CountFor(src) + Cardinality(Admitted(src)) < MaxPeers + Cardinality(Requesters)
  BY DEF OvershootBounded
<1>1. CASE src = request[w].source
  <2>1. published'[src] = published[src] \cup {request[w].conn}
    BY <1>1 DEF PublishConnection, TypeOK
  <2>2. w \in Admitted(src) /\ Admitted(src)' = Admitted(src) \ {w}
    BY <1>1 DEF PublishConnection, Admitted, TypeOK
  <2>3. /\ Cardinality(published'[src]) \in Nat
        /\ Cardinality(published'[src]) =< Cardinality(published[src]) + 1
    <3>1. CASE request[w].conn \in published[src]
      <4>1. published'[src] = published[src]
        BY <2>1, <3>1
      <4>2. QED
        BY <4>1, FiniteCounts DEF CountFor
    <3>2. CASE request[w].conn \notin published[src]
      <4>1. Cardinality(published'[src]) = Cardinality(published[src]) + 1
        BY <2>1, <3>2, FiniteCounts, FS_AddElement
      <4>2. QED
        BY <4>1, FiniteCounts DEF CountFor
    <3>3. QED
      BY <3>1, <3>2
  <2>4. Cardinality(Admitted(src)') = Cardinality(Admitted(src)) - 1
    BY <2>2, FiniteCounts, FS_RemoveElement
  <2>5. QED
    BY <1>0, <2>3, <2>4, FiniteCounts, RegistryAssumption DEF CountFor, Requesters
<1>2. CASE src # request[w].source
  <2>1. published'[src] = published[src]
    BY <1>2 DEF PublishConnection, TypeOK
  <2>2. Admitted(src)' = Admitted(src)
    BY <1>2 DEF PublishConnection, Admitted, TypeOK
  <2>3. QED
    BY <1>0, <2>1, <2>2 DEF CountFor, Requesters
<1>3. QED
  BY <1>1, <1>2

(* The check admits a request only below the cap, and no more requests can  *)
(* be admitted than there are requesters.                                   *)
LEMMA CheckKeepsBound ==
    ASSUME TypeOK, TypeOK', OvershootBounded,
           NEW w \in Requesters, NEW s \in Sources, Check(w, s)
    PROVE  OvershootBounded'
<1> SUFFICES ASSUME NEW src \in Sources
             PROVE  (CountFor(src) + Cardinality(Admitted(src)) < MaxPeers + Cardinality(Requesters))'
  BY DEF OvershootBounded
<1>1. published' = published
  BY DEF Check, maps
<1>2. CASE src = s
  <2>1. CountFor(src) < MaxPeers
    BY <1>2 DEF Check
  <2>2. /\ Cardinality(Admitted(src)') \in Nat
        /\ Cardinality(Admitted(src)') =< Cardinality(Requesters)
    <3>1. Admitted(src)' \subseteq Requesters
      BY DEF Admitted, Requesters
    <3>2. QED
      BY <3>1, FiniteCounts, FS_Subset, FS_CardinalityType
  <2>3. QED
    BY <1>1, <2>1, <2>2, FiniteCounts, RegistryAssumption DEF CountFor, Requesters
<1>3. CASE src # s
  <2>1. Admitted(src)' = Admitted(src)
    BY <1>3 DEF Check, Admitted, TypeOK
  <2>2. QED
    BY <1>1, <2>1 DEF OvershootBounded, CountFor, Requesters
<1>4. QED
  BY <1>2, <1>3

(* However many offers negotiate at once, a source never lists more peers   *)
(* than the cap plus the requesters less one.                               *)
THEOREM OvershootInvariant == Spec => []OvershootBounded
<1>1. Init => OvershootBounded
  <2> SUFFICES ASSUME Init, NEW src \in Sources
               PROVE  CountFor(src) + Cardinality(Admitted(src)) < MaxPeers + Cardinality(Requesters)
    BY DEF OvershootBounded
  <2>1. published[src] = {} /\ Admitted(src) = {}
    BY DEF Init, Admitted, Idle
  <2>2. IsFiniteSet(Requesters) /\ Requesters # {}
    BY RegistryAssumption, FS_Union DEF Requesters
  <2>3. Cardinality(Requesters) \in Nat \ {0}
    BY <2>2, FS_CardinalityType, FS_EmptySet
  <2>4. QED
    BY <2>1, <2>3, FS_EmptySet, RegistryAssumption DEF CountFor
<1>2. TypeOK /\ TypeOK' /\ OvershootBounded /\ [Next]_vars => OvershootBounded'
  <2> SUFFICES ASSUME TypeOK, TypeOK', OvershootBounded, [Next]_vars PROVE OvershootBounded'
    OBVIOUS
  <2> DEFINE Shrinks == \A src \in Sources : /\ published'[src] \subseteq published[src]
                                             /\ Admitted(src)' \subseteq Admitted(src)
  <2>1. ASSUME NEW w \in Requesters, Offer(w) PROVE OvershootBounded'
    <3>1. CASE NegotiationFails(w)
      <4>1. Shrinks
        BY <3>1 DEF NegotiationFails, Admitted, Idle, TypeOK, maps, Requesters
      <4>2. QED
        BY <4>1, ShrinkingStep
    <3>2. CASE InsertConnection(w)
      <4>1. Shrinks
        BY <3>2 DEF InsertConnection, Admitted, TypeOK, Requesters
      <4>2. QED
        BY <4>1, ShrinkingStep
    <3>3. QED
      BY <2>1, <3>1, <3>2, PublishKeepsBound DEF Offer
  <2>2. ASSUME NEW s \in Sockets, Signalling(s) PROVE OvershootBounded'
    <3>1. CASE OfferDone(s)
      <4>1. Shrinks
        BY <3>1 DEF OfferDone, Admitted, Idle, TypeOK, maps, Requesters
      <4>2. QED
        BY <4>1, ShrinkingStep
    <3>2. CASE VideoOffer(s)
      BY <3>2, CheckKeepsBound, RegistryAssumption DEF VideoOffer, Requesters
    <3>3. CASE SocketOpen(s) \/ SenderBreaks(s) \/ SocketClose(s) \/ SocketEnd(s)
      <4>1. Shrinks
        BY <3>3 DEF SocketOpen, SenderBreaks, SocketClose, SocketEnd, Admitted, maps, Requesters
      <4>2. QED
        BY <4>1, ShrinkingStep
    <3>4. QED
      BY <2>2, <3>1, <3>2, <3>3 DEF Signalling
  <2>3. ASSUME NEW k \in Clients, Whep(k) PROVE OvershootBounded'
    <3>1. CASE WhepCreated(k)
      <4>1. Shrinks
        BY <3>1 DEF WhepCreated, Admitted, Idle, TypeOK, maps, Requesters
      <4>2. QED
        BY <4>1, ShrinkingStep
    <3>2. CASE \E src \in Sources : WhepCreate(k, src)
      BY <3>2, CheckKeepsBound DEF WhepCreate, Requesters
    <3>3. QED
      BY <2>3, <3>1, <3>2 DEF Whep
  <2>4. ASSUME NEW c \in Conns, Removal(c) PROVE OvershootBounded'
    <3>1. CASE UnlinkFromSource(c)
      <4>1. Shrinks
        BY <3>1 DEF UnlinkFromSource, Admitted, TypeOK, Requesters
      <4>2. QED
        BY <4>1, ShrinkingStep
    <3>2. CASE RemoveFromMap(c) \/ WhepDelete(c) \/ \E s \in Sockets : ForwarderFails(c, s)
      <4>1. Shrinks
        BY <3>2 DEF RemoveFromMap, WhepDelete, ForwarderFails, Admitted, maps, Requesters
      <4>2. QED
        BY <4>1, ShrinkingStep
    <3>3. QED
      BY <2>4, <3>1, <3>2 DEF Removal
  <2>5. CASE UNCHANGED vars
    <3>1. Shrinks
      BY <2>5 DEF vars, Admitted, maps, Requesters
    <3>2. QED
      BY <3>1, ShrinkingStep
  <2>6. QED
    BY <2>1, <2>2, <2>3, <2>4, <2>5 DEF Next
<1>3. QED
  BY <1>1, <1>2, TypeCorrect, PTL DEF Spec

(* When offers come one at a time the cap is what its name says             *)
(* (max_peers_per_source): the overshoot the checks find takes two requests *)
(* that negotiate together.                                                 *)
COROLLARY CapWithOneRequester ==
    ASSUME Cardinality(Requesters) = 1
    PROVE  Spec => []CapRespected
<1>1. TypeOK /\ OvershootBounded => CapRespected
  <2> SUFFICES ASSUME TypeOK, OvershootBounded, NEW src \in Sources
               PROVE  CountFor(src) =< MaxPeers
    BY DEF CapRespected
  <2>1. /\ CountFor(src) \in Nat /\ Cardinality(Admitted(src)) \in Nat
        /\ CountFor(src) + Cardinality(Admitted(src)) < MaxPeers + 1
    BY FiniteCounts DEF OvershootBounded
  <2>2. QED
    BY <2>1, RegistryAssumption
<1>2. QED
  BY <1>1, TypeCorrect, OvershootInvariant, PTL

-----------------------------------------------------------------------------
(* A step that keeps the lists, the ids drawn and the set of ids between    *)
(* their two inserts is a stutter of the abstract slots.                    *)
LEMMA SlotStutter ==
    ASSUME UNCHANGED <<published, issued>>,
           \A c \in issued : BeingPublished(c)' <=> BeingPublished(c)
    PROVE  UNCHANGED Slot!vars
BY DEF Slot!vars

(* The instance counts with the same operator.                              *)
LEMMA SameCardinality == \A S : Slot!Cardinality(S) = Cardinality(S)
BY DEF Slot!Cardinality, Cardinality

(* The registry implements PeerSlots: a slot is taken when the id is listed *)
(* and given back when it is retained out of the list, each at most once,   *)
(* and a source never holds more than MaxPeers + requesters - 1 slots.      *)
THEOREM RegistryImplementsSlots == Spec => SlotSpec
<1>1. Init => Slot!Init
  BY DEF Init, Slot!Init
<1>2. RegistryInv /\ OvershootBounded /\ TypeOK' /\ [Next]_vars => [Slot!Next]_(Slot!vars)
  <2> SUFFICES ASSUME RegistryInv, OvershootBounded, [Next]_vars, TypeOK'
               PROVE  [Slot!Next]_(Slot!vars)
    OBVIOUS
  <2> USE DEF RegistryInv
  <2>1. ASSUME NEW w \in Requesters, PublishConnection(w) PROVE [Slot!Next]_(Slot!vars)
    <3> DEFINE c == request[w].conn
               src == request[w].source
    <3>1. /\ request[w].stage = "inserted" /\ c \in Conns /\ src \in Sources
          /\ c \in issued /\ BeingPublished(c)
      BY <2>1 DEF PublishConnection, TypeOK, OnlyIssuedIdsInUse, BeingPublished
    <3>2. \A d \in issued : BeingPublished(d)' <=> BeingPublished(d) /\ d # c
      <4>1. /\ \A v \in Requesters \ {w} : request'[v] = request[v]
            /\ request'[w].stage = "published"
        BY <2>1 DEF PublishConnection, TypeOK
      <4>2. \A v \in Requesters \ {w} : request[v].stage = "inserted" => request[v].conn # c
        BY <3>1 DEF UnpublishedIdIsPrivate, Private
      <4>3. QED
        BY <4>1, <4>2, <3>1 DEF BeingPublished
    <3>3. Cardinality(published[src]) < MaxPeers + Cardinality(Requesters) - 1
      <4>1. w \in Admitted(src)
        BY <3>1 DEF Admitted
      <4>2. Cardinality(Admitted(src)) # 0
        BY <3>1, <4>1, FiniteCounts, FS_EmptySet
      <4>3. CountFor(src) + Cardinality(Admitted(src)) < MaxPeers + Cardinality(Requesters)
        BY <3>1 DEF OvershootBounded
      <4>4. QED
        BY <3>1, <4>2, <4>3, FiniteCounts, RegistryAssumption DEF CountFor
    <3>4. /\ published' = [published EXCEPT ![src] = @ \cup {c}]
          /\ issued' = issued
      BY <2>1 DEF PublishConnection
    <3>5. Slot!Acquire(src, c)
      <4>1. {d \in issued' : ~BeingPublished(d)'} = {d \in issued : ~BeingPublished(d)} \cup {c}
        BY <3>1, <3>2, <3>4
      <4>2. c \notin {d \in issued : ~BeingPublished(d)}
        BY <3>1
      <4>3. QED
        BY <3>3, <3>4, <4>1, <4>2, SameCardinality DEF Slot!Acquire
    <3>6. QED
      BY <3>1, <3>5 DEF Slot!Next
  <2>2. ASSUME NEW c \in Conns, UnlinkFromSource(c) PROVE [Slot!Next]_(Slot!vars)
    <3>1. /\ published' = [published EXCEPT ![sourceOf[c]] = @ \ {c}]
          /\ UNCHANGED <<issued, request>> /\ sourceOf[c] \in Sources
      BY <2>2 DEF UnlinkFromSource, TypeOK
    <3>2. \A d \in issued : BeingPublished(d)' <=> BeingPublished(d)
      BY <3>1 DEF BeingPublished
    <3>3. CASE c \in published[sourceOf[c]]
      <4>1. Slot!Release(sourceOf[c], c)
        BY <3>1, <3>2, <3>3 DEF Slot!Release
      <4>2. QED
        BY <3>1, <4>1 DEF Slot!Next
    <3>4. CASE c \notin published[sourceOf[c]]
      <4>1. published' = published
        BY <3>1, <3>4 DEF TypeOK
      <4>2. QED
        BY <3>1, <3>2, <4>1, SlotStutter
    <3>5. QED
      BY <3>3, <3>4
  <2>3. ASSUME NEW w \in Requesters, InsertConnection(w) PROVE UNCHANGED Slot!vars
    <3>1. PICK c \in Conns \ issued :
             /\ issued' = issued \cup {c}
             /\ request' = [request EXCEPT ![w].stage = "inserted", ![w].conn = c]
      BY <2>3 DEF InsertConnection
    <3>2. published' = published /\ request[w].stage = "negotiating"
      BY <2>3 DEF InsertConnection
    <3>3. /\ request'[w].stage = "inserted" /\ request'[w].conn = c
          /\ \A v \in Requesters \ {w} : request'[v] = request[v]
      BY <3>1 DEF TypeOK
    <3>4. \A d \in issued' : BeingPublished(d)' <=> BeingPublished(d) \/ d = c
      BY <3>2, <3>3 DEF BeingPublished
    <3>5. {d \in issued' : ~BeingPublished(d)'} = {d \in issued : ~BeingPublished(d)}
      BY <3>1, <3>4
    <3>6. QED
      BY <3>2, <3>5 DEF Slot!vars
  <2>4. ASSUME NEW w \in Requesters, NegotiationFails(w) PROVE UNCHANGED Slot!vars
    BY <2>4, SlotStutter DEF NegotiationFails, BeingPublished, Idle, maps, TypeOK
  <2>5. ASSUME NEW s \in Sockets, Signalling(s) PROVE UNCHANGED Slot!vars
    <3>1. CASE VideoOffer(s)
      BY <3>1, SlotStutter DEF VideoOffer, Check, BeingPublished, maps, TypeOK
    <3>2. CASE OfferDone(s)
      BY <3>2, SlotStutter DEF OfferDone, BeingPublished, Idle, maps, TypeOK
    <3>3. CASE SocketOpen(s) \/ SenderBreaks(s) \/ SocketClose(s) \/ SocketEnd(s)
      BY <3>3, SlotStutter
      DEF SocketOpen, SenderBreaks, SocketClose, SocketEnd, BeingPublished, maps
    <3>4. QED
      BY <2>5, <3>1, <3>2, <3>3 DEF Signalling
  <2>6. ASSUME NEW k \in Clients, Whep(k) PROVE UNCHANGED Slot!vars
    <3>1. CASE WhepCreated(k)
      BY <3>1, SlotStutter DEF WhepCreated, BeingPublished, Idle, maps, TypeOK
    <3>2. ASSUME NEW src \in Sources, WhepCreate(k, src) PROVE UNCHANGED Slot!vars
      BY <3>2, SlotStutter DEF WhepCreate, Check, BeingPublished, maps, TypeOK
    <3>3. QED
      BY <2>6, <3>1, <3>2 DEF Whep
  <2>7. ASSUME NEW c \in Conns, Removal(c), ~UnlinkFromSource(c) PROVE UNCHANGED Slot!vars
    BY <2>7, SlotStutter DEF Removal, RemoveFromMap, WhepDelete, ForwarderFails, BeingPublished, maps
  <2>8. CASE UNCHANGED vars
    BY <2>8, SlotStutter DEF vars, maps, BeingPublished
  <2>9. QED
    BY <2>1, <2>2, <2>3, <2>4, <2>5, <2>6, <2>7, <2>8 DEF Next, Offer
<1>3. QED
  BY <1>1, <1>2, TypeCorrect, RegistryInvariant, OvershootInvariant, PTL
  DEF Spec, SlotSpec, Slot!Spec
=============================================================================
