-------------------------- MODULE MCCaptureSession --------------------------
(* Small instances of the capture session for TLC. *)
EXTENDS CaptureSession
=============================================================================
