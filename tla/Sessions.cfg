\* Two logouts and a TLS request at a time.
CONSTANTS
    l1 = l1  l2 = l2  t1 = t1
    Logouts = {l1, l2}
    TlsRequests = {t1}
    MaxKeys = 4
    Absent = Absent  Empty = Empty  Torn = Torn
SPECIFICATION Spec
CHECK_DEADLOCK FALSE
SYMMETRY LogoutSymmetry
INVARIANTS
    RevokedUnlessOverwritten
    SettingsSurvive
