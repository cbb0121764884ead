\* One client of either kind on a channel of two frames, and frames of up to
\* seven bytes.
CONSTANTS
    c1 = c1
    Clients = {c1}
    Cap = 2
    MaxFrames = 4
    Lowest = 2
    DefaultTier = 1
    Increase = 2
    Decrease = 2
    MinChange = 1
    MaxCount = 2
    Bytes = {0, 1, 2}
    MaxLength = 7
    MaxPayload = 3
    SeqBound = 4
SPECIFICATION Spec
CHECK_DEADLOCK FALSE
INVARIANTS
    StreamTypeOK
    FrameSurvives
PROPERTIES
    TierEarned
    FeedSpec
