\* A logout, then a TLS request.
CONSTANTS
    l1 = l1  l2 = l2  t1 = t1
    Logouts = {l1}
    TlsRequests = {t1}
    MaxKeys = 3
    Absent = Absent  Empty = Empty  Torn = Torn
SPECIFICATION Spec
CHECK_DEADLOCK FALSE
INVARIANT RevokedInOrder
