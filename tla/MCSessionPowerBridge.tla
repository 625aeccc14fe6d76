------------------------- MODULE MCSessionPowerBridge -------------------------
(* The bridge with a bounded channel of two, and more events than it and   *)
(* the two threads can hold.                                               *)
EXTENDS SessionPowerBridge
=============================================================================
