\* Two sockets and one WHEP caller, a cap of one peer, three connections.
CONSTANTS
    c1 = c1  c2 = c2  c3 = c3
    s1 = s1  s2 = s2  k1 = k1
    default = default  other = other
    Conns = {c1, c2, c3}
    Sources = {default, other}
    Default = default
    Sockets = {s1, s2}
    Clients = {k1}
    MaxPeers = 1
    NoConn = NoConn
SPECIFICATION FairSpec
CHECK_DEADLOCK FALSE
INVARIANTS
    TypeOK
    NoDanglingSlot
    ConnectedPeerIsListed
    OvershootBounded
    OnlyReplacedPeersAreOrphans
PROPERTIES
    SlotSpec
    SlotFreedAfterClose
