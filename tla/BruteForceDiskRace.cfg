\* Two logins at a time whose saves cross.
CONSTANTS
    a = a  b = b  r1 = r1  r2 = r2
    Ips = {a, b}
    Logins = {r1, r2}
    MaxFailures = 2
    Window = 1
    IdleTtl = 1
    MaxRecords = 3
    MaxTime = 3
    Absent = Absent  Empty = Empty  Torn = Torn
SPECIFICATION Spec
CHECK_DEADLOCK FALSE
INVARIANT LockoutIsOnDisk
