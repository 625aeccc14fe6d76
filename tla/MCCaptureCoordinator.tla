------------------------ MODULE MCCaptureCoordinator ------------------------
(* Small instances of CaptureCoordinator for TLC. *)
EXTENDS CaptureCoordinator
=============================================================================
