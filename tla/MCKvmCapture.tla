---------------------------- MODULE MCKvmCapture ----------------------------
(* Instances of KvmCapture for TLC: the MJPEG loop and the H.264 loop.      *)
EXTENDS KvmCapture

CONSTANTS mjpegLoop, h264Loop, op1, b1, b2

LoopModes == [g \in Grabbers |-> IF g = mjpegLoop THEN "Mjpeg" ELSE "H264"]
=============================================================================
