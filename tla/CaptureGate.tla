------------------------------ MODULE CaptureGate ------------------------------
(***************************************************************************)
(* The pure part of the capture coordinator: which capture state a command *)
(* asks for, and what the gate publishes for a desired state under a set   *)
(* of suppressions.  Nothing here reads or writes a variable; the module   *)
(* CaptureCoordinator applies these operators under its transition lock.   *)
(***************************************************************************)

CaptureStates == {"Stopped", "Running", "Paused"}

Commands == {"start", "resume", "ensure", "pause", "stop"}

(* Commands without an engine boundary, and commands that commit one. *)
OpeningCommands == {"start", "resume", "ensure"}
ClosingCommands == {"pause", "stop"}

(* Lock and Sleep each keep an independent suppression. *)
Sources == {"lock", "sleep"}

(* The three production tasks whose life gates the publication of Running. *)
Tasks == {"capture", "processor", "writer"}

WriterStates == {"Healthy", "Degraded", "Faulted"}

-----------------------------------------------------------------------------
(* capture_transition: the 5 x 3 table of the baseline, by exception. *)

Target(command) ==
    CASE command \in OpeningCommands -> "Running"
      [] command = "pause"           -> "Paused"
      [] command = "stop"            -> "Stopped"

InvalidPairs ==
    {<<"start", "Paused">>, <<"pause", "Stopped">>, <<"resume", "Stopped">>}

Invalid(command, desired)    == <<command, desired>> \in InvalidPairs
Idempotent(command, desired) == desired = Target(command)
Proceeds(command, desired)   == ~Invalid(command, desired) /\ ~Idempotent(command, desired)

-----------------------------------------------------------------------------
(* LockSleepState.  "first" is the time of the event that activated it.    *)

Released(noTime)   == [active |-> FALSE, committed |-> FALSE, first |-> noTime]
Activated(at)      == [active |-> TRUE,  committed |-> FALSE, first |-> at]

(* Suppressions and CoordinatorState, in one record.                       *)

GateOpen(c) ==
    /\ c.desired = "Running"
    /\ ~c.transition
    /\ ~c.fault
    /\ ~c.writerFault
    /\ ~c.monitorFault
    /\ \A s \in Sources : ~c.source[s].active

(* What watch and SharedState show: a suppressed Running reads as Paused.  *)
Effective(c) ==
    IF GateOpen(c)              THEN "Running"
    ELSE IF c.desired = "Running" THEN "Paused"
    ELSE c.desired
=============================================================================
