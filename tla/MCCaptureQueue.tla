---------------------------- MODULE MCCaptureQueue ----------------------------
(* CaptureQueue on small instances: no symmetry, for the liveness.          *)
EXTENDS CaptureQueue
=============================================================================
