\* A frame dropped while another thread restarts the hardware.
CONSTANTS
    mjpegLoop = mjpegLoop  h264Loop = h264Loop
    op1 = op1  b1 = b1  b2 = b2
    Grabbers = {mjpegLoop, h264Loop}
    ModeOf <- LoopModes
    Operators = {op1}
    Requests = {"reset"}
    Bufs = {b1, b2}
    RetryLimit = 2
    MayShutDown = FALSE
    Free = Free
SPECIFICATION Spec
CHECK_DEADLOCK FALSE
PROPERTY NoFreeWhileStarting
