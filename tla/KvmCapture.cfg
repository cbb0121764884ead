\* Two capturing threads, an operator resetting HDMI and a shutdown.
CONSTANTS
    mjpegLoop = mjpegLoop  h264Loop = h264Loop
    op1 = op1  b1 = b1  b2 = b2
    Grabbers = {mjpegLoop, h264Loop}
    ModeOf <- LoopModes
    Operators = {op1}
    Requests = {"reset", "enable", "disable"}
    Bufs = {b1, b2}
    RetryLimit = 2
    MayShutDown = TRUE
    Free = Free
SPECIFICATION FairSpec
CHECK_DEADLOCK FALSE
INVARIANTS
    TypeOK
    FramesOwnedUntilReset
    ReadsUpUntilReset
    StateTellsHardware
    NoBufferLeak
    HdmiFlagTruthful
PROPERTIES
    OwnerSpec
    RequestReturns
