\* A frame being copied while HDMI is reset.
CONSTANTS
    mjpegLoop = mjpegLoop  h264Loop = h264Loop
    op1 = op1  b1 = b1  b2 = b2
    Grabbers = {mjpegLoop}
    ModeOf <- LoopModes
    Operators = {op1}
    Requests = {"reset"}
    Bufs = {b1, b2}
    RetryLimit = 2
    MayShutDown = FALSE
    Free = Free
SPECIFICATION Spec
CHECK_DEADLOCK FALSE
INVARIANT FrameOwnsBuffer
