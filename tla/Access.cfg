\* Two requests of a kind on each part, and an enrolment.
CONSTANTS
    r1 = r1  q1 = q1  q2 = q2
    c1 = c1  c2 = c2  s1 = s1  s2 = s2  p1 = p1  p2 = p2  a1 = a1  a2 = a2
    Enrolments = {r1}
    Setups = {r1}
    Logins = {q1, q2}
    Recoveries = {q1, q2}
    Attempts = {q1, q2}
    Changes = {q1, q2}
    Credentials = {c1, c2}
    Slots = {s1, s2}
    Addresses = {a1, a2}
    Passwords = {p1, p2}
    Default = Default  Factory = Factory
    MaxChallenge = 2
    MaxCounter = 2
    MaxBatch = 2
    MaxAttempts = 2
    Window = 1
    MaxTime = 4
    Absent = Absent  Empty = Empty  Torn = Torn  None = None  NoPassword = NoPassword
SPECIFICATION Spec
CHECK_DEADLOCK FALSE
SYMMETRY AccessSymmetry
INVARIANTS
    ChallengeBounded
    StoreKept
    UsedOnce
    CodesKept
    AttemptsBounded
    LastChangeStands
