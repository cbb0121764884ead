\* The cap as configured, with one socket and one WHEP caller.
CONSTANTS
    c1 = c1  c2 = c2  c3 = c3  c4 = c4
    s1 = s1  s2 = s2  k1 = k1
    default = default  other = other
    Conns = {c1, c2}
    Sources = {default}
    Default = default
    Sockets = {s1}
    Clients = {k1}
    MaxPeers = 1
    NoConn = NoConn
SPECIFICATION Spec
CHECK_DEADLOCK FALSE
INVARIANT CapRespected
