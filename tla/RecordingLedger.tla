--------------------------- MODULE RecordingLedger ---------------------------
(***************************************************************************)
(* What the capture pipeline as a whole promises to the activity ledger.   *)
(* Seen from outside there is a gate, a durable ledger whose last event is *)
(* a sample or a boundary, and a permanent fault.  A boundary is only      *)
(* committed while the gate is closed, and after it no sample is recorded  *)
(* before the gate has been opened again, whatever was still in flight.    *)
(***************************************************************************)
VARIABLES
    gate,     \* is Running published?
    faulted,  \* has the pipeline failed for good?
    armed,    \* has the gate been open since the last boundary?
    ledger    \* the last event the engine committed

vars == <<gate, faulted, armed, ledger>>

Init ==
    /\ gate \in BOOLEAN
    /\ armed = gate
    /\ faulted = FALSE
    /\ ledger = "boundary"

Open   == /\ ~gate /\ ~faulted
          /\ gate' = TRUE /\ armed' = TRUE
          /\ UNCHANGED <<faulted, ledger>>

Close  == /\ gate /\ gate' = FALSE
          /\ UNCHANGED <<faulted, armed, ledger>>

Record == /\ armed
          /\ ledger' = "sample"
          /\ UNCHANGED <<gate, faulted, armed>>

Commit == /\ ~gate
          /\ ledger' = "boundary" /\ armed' = FALSE
          /\ UNCHANGED <<gate, faulted>>

Fail   == /\ faulted' = TRUE /\ gate' = FALSE
          /\ UNCHANGED <<armed, ledger>>

Next == Open \/ Close \/ Record \/ Commit \/ Fail

Spec == Init /\ [][Next]_vars
=============================================================================
