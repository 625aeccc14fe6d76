------------------------ MODULE CapturePipelineProofs ------------------------
(***************************************************************************)
(* Proofs about the capture coordinator on its own, for every bound on     *)
(* operations and revisions and every set of event times, and then about   *)
(* the whole pipeline around it, for every capacity of its queues.         *)
(***************************************************************************)
EXTENDS CapturePipeline, SequenceTheorems, TLAPS

(***************************************************************************)
(* Part one: the capture coordinator.                                      *)
(***************************************************************************)
-----------------------------------------------------------------------------
(* The gate: what the state transformers return and write.                 *)

GateTyped == co' \in CoordinatorStates /\ published' \in CaptureStates /\ bounded' \in BOOLEAN

(* sync_external keeps the coordinator's state well formed. *)
LEMMA SyncType ==
    ASSUME NEW c \in CoordinatorStates, published \in CaptureStates
    PROVE  SyncExternal(c) \in CoordinatorStates
  BY DEF SyncExternal, CoordinatorStates, CaptureStates

(* The effective state is a capture state, and Running exactly when the    *)
(* gate is open: effective() of the coordinator state.                     *)
LEMMA EffectiveType ==
    ASSUME NEW c \in CoordinatorStates
    PROVE  /\ Effective(c) \in CaptureStates
           /\ Effective(c) = "Running" <=> GateOpen(c)
           /\ c.desired = "Stopped" => Effective(c) = "Stopped"
  BY DEF Effective, GateOpen, CoordinatorStates, CaptureStates

(* Recording what was published does not open the gate. *)
LEMMA LastPublishedGate ==
    ASSUME NEW c \in CoordinatorStates, NEW state \in CaptureStates
    PROVE  /\ [c EXCEPT !.lastPublished = state] \in CoordinatorStates
           /\ GateOpen([c EXCEPT !.lastPublished = state]) <=> GateOpen(c)
  BY DEF GateOpen, CoordinatorStates, CaptureStates

(* publish(): watch, SharedState and last_published get one value. *)
LEMMA PublishGate ==
    ASSUME NEW c \in CoordinatorStates, bounded \in BOOLEAN, Publish(c)
    PROVE  /\ GateTyped
           /\ co' = [c EXCEPT !.lastPublished = Effective(c)]
           /\ published' = Effective(c)
           /\ co'.lastPublished = published'
           /\ published' = "Running" <=> GateOpen(c)
           /\ GateOpen(co') <=> GateOpen(c)
  <1>1. Effective(c) \in CaptureStates /\ (Effective(c) = "Running" <=> GateOpen(c))
    BY EffectiveType
  <1>2. /\ [c EXCEPT !.lastPublished = Effective(c)] \in CoordinatorStates
        /\ GateOpen([c EXCEPT !.lastPublished = Effective(c)]) <=> GateOpen(c)
    BY <1>1, LastPublishedGate
  <1>3. co' = [c EXCEPT !.lastPublished = Effective(c)] /\ published' = Effective(c)
    BY DEF Publish, ShowState
  <1>4. [c EXCEPT !.lastPublished = Effective(c)].lastPublished = Effective(c)
    BY <1>1 DEF CoordinatorStates
  <1>5. bounded' \in BOOLEAN
    BY DEF Publish, ShowState
  <1> QED
    BY <1>1, <1>2, <1>3, <1>4, <1>5 DEF GateTyped

(* The fallbacks write Stopped and nothing but the frozen flags. *)
LEMMA ForceStoppedGate ==
    ASSUME NEW c \in CoordinatorStates, bounded \in BOOLEAN, ForceStopped(c)
    PROVE  /\ GateTyped
           /\ co'.desired = "Stopped" /\ co'.lastPublished = "Stopped"
           /\ published' = "Stopped"
           /\ co'.writerFault = c.writerFault
  BY DEF ForceStopped, ShowState, GateTyped, CoordinatorStates, CaptureStates

LEMMA KeepSuppressionGate ==
    ASSUME NEW c \in CoordinatorStates, bounded \in BOOLEAN, ForceStoppedKeepSuppression(c)
    PROVE  /\ GateTyped
           /\ co'.desired = "Stopped" /\ co'.lastPublished = "Stopped"
           /\ published' = "Stopped"
           /\ co'.writerFault = c.writerFault
  BY DEF ForceStoppedKeepSuppression, ShowState, GateTyped, CoordinatorStates, CaptureStates

LEMMA KeepGate ==
    ASSUME NEW c \in CoordinatorStates, bounded \in BOOLEAN, published \in CaptureStates,
           KeepUnpublished(c)
    PROVE  GateTyped /\ co' = c /\ published' = published
  BY DEF KeepUnpublished, ShowState, GateTyped

(* latch_writer_fault stops the gate for good. *)
LEMMA LatchGate ==
    ASSUME co \in CoordinatorStates, bounded \in BOOLEAN, LatchWriterFault
    PROVE  /\ GateTyped
           /\ co'.desired = "Stopped" /\ co'.lastPublished = "Stopped"
           /\ co'.writerFault /\ published' = "Stopped" /\ writerState' = "Faulted"
  BY DEF LatchWriterFault, ShowState, GateTyped, CoordinatorStates, CaptureStates

-----------------------------------------------------------------------------
(* Type correctness.                                                       *)

(* Every way to publish with a fallback leaves a well-formed gate. *)
LEMMA PublishOrType ==
    ASSUME NEW c \in CoordinatorStates, bounded \in BOOLEAN, published \in CaptureStates,
           \/ PublishOrStop(c)
           \/ PublishOrStopSuppressed(c)
           \/ PublishOrKeep(c)
    PROVE  GateTyped
  <1>1. Publish(c) \/ ForceStopped(c) \/ ForceStoppedKeepSuppression(c) \/ KeepUnpublished(c)
    BY DEF PublishOrStop, PublishOrStopSuppressed, PublishOrKeep
  <1> QED
    BY <1>1, PublishGate, ForceStoppedGate, KeepSuppressionGate, KeepGate

(* end_transition works on a well-formed state. *)
LEMMA EndedType ==
    ASSUME NEW c \in CoordinatorStates, NEW fault \in BOOLEAN, published \in CaptureStates
    PROVE  Ended(c, fault) \in CoordinatorStates
  <1>1. [c EXCEPT !.transition = FALSE, !.fault = @ \/ fault] \in CoordinatorStates
    BY DEF CoordinatorStates
  <1> QED
    BY <1>1, SyncType DEF Ended

(* A lock or sleep source may be activated, committed or released. *)
LEMMA SourceType ==
    ASSUME NEW c \in CoordinatorStates, NEW s \in Sources
    PROVE  /\ \A v \in SourceStates : [c EXCEPT !.source[s] = v] \in CoordinatorStates
           /\ [c EXCEPT !.source[s].committed = TRUE] \in CoordinatorStates
  <1>1. c.source \in [Sources -> SourceStates]
    BY DEF CoordinatorStates
  <1>2. ASSUME NEW f \in [Sources -> SourceStates]
        PROVE  [c EXCEPT !.source = f] \in CoordinatorStates
    BY DEF CoordinatorStates
  <1>3. ASSUME NEW v \in SourceStates
        PROVE  [c EXCEPT !.source[s] = v] \in CoordinatorStates
    <2>1. [c.source EXCEPT ![s] = v] \in [Sources -> SourceStates]
      BY <1>1
    <2>2. [c EXCEPT !.source[s] = v] = [c EXCEPT !.source = [c.source EXCEPT ![s] = v]]
      BY <1>1 DEF CoordinatorStates
    <2> QED  BY <1>2, <2>1, <2>2
  <1>4. [c.source[s] EXCEPT !.committed = TRUE] \in SourceStates
    BY <1>1 DEF SourceStates
  <1>5. [c EXCEPT !.source[s].committed = TRUE]
          = [c EXCEPT !.source[s] = [c.source[s] EXCEPT !.committed = TRUE]]
    BY <1>1 DEF CoordinatorStates
  <1> QED
    BY <1>3, <1>4, <1>5

(* However an operation ends, its gate is well formed. *)
LEMMA EndType ==
    ASSUME TypeOK, op.kind \in OpKinds,
           EndUncommitted(op.kind) \/ EndRefused(op.kind) \/ EndCommitted(op.kind)
    PROVE  GateTyped
  <1> USE DEF TypeOK
  <1>1. Ended(co, TRUE) \in CoordinatorStates /\ Ended(co, FALSE) \in CoordinatorStates
    BY EndedType
  <1>2. op.kind \in Sources =>
          Ended([co EXCEPT !.source[op.kind].committed = TRUE], FALSE) \in CoordinatorStates
    BY SourceType, EndedType
  <1>3. CASE EndUncommitted(op.kind)
    BY <1>1, <1>3, PublishOrType DEF EndUncommitted, OpKinds, ClosingCommands, Sources
  <1>4. CASE EndRefused(op.kind)
    BY <1>1, <1>3, <1>4, PublishOrType DEF EndRefused
  <1>5. CASE EndCommitted(op.kind)
    <2>1. PublishOrStop(Ended(co, FALSE)) => GateTyped
      BY <1>1, PublishOrType
    <2>2. ForceStopped(co) => GateTyped
      BY ForceStoppedGate
    <2>3. op.kind \in Sources /\
          PublishOrStopSuppressed(Ended([co EXCEPT !.source[op.kind].committed = TRUE], FALSE))
           => GateTyped
      BY <1>2, PublishOrType
    <2> QED  BY <1>5, <2>1, <2>2, <2>3 DEF EndCommitted
  <1> QED
    BY <1>3, <1>4, <1>5

(* A begun transition leaves a well-formed state, whichever fallback its   *)
(* publication has. *)
LEMMA BeginTransitionType ==
    ASSUME TypeOK, NEW kind \in OpKinds, NEW c \in CoordinatorStates, NEW target \in Revisions,
           commits' = commits,
           BeginTransition(kind, c, target)
    PROVE  TypeOK'
  <1> DEFINE frozen == [c EXCEPT !.transition = TRUE]
  <1>1. frozen \in CoordinatorStates
    BY DEF CoordinatorStates
  <1>2. PublishOrStop(frozen) \/ PublishOrStopSuppressed(frozen)
    BY DEF BeginTransition
  <1>3. GateTyped
    BY <1>1, <1>2, PublishOrType DEF TypeOK
  <1>4. /\ UNCHANGED opVars
           \/ /\ nextId < MaxOps /\ nextId' = nextId + 1
              /\ op' = [kind |-> kind, pc |-> "inject", id |-> nextId,
                        expected |-> applied, target |-> target]
        /\ ack' = "none"
        /\ UNCHANGED <<writerState, applied, outstanding, taskVars, settings, blocked>>
    BY DEF BeginTransition
  <1>5. nextId' \in Ids /\ op' \in Operations \cup {NoOp}
    BY <1>4, CoordinatorAssumption DEF TypeOK, Ids, opVars, Operations
  <1> QED
    BY <1>3, <1>4, <1>5 DEF TypeOK, GateTyped, taskVars

(* The Agent starts in the domains. *)
LEMMA InitTypes == Init => TypeOK
  <1> SUFFICES ASSUME Init PROVE TypeOK
    OBVIOUS
  <1> USE CoordinatorAssumption DEF Init
  <1>1. published \in CaptureStates
    BY DEF CaptureStates
  <1>2. co \in CoordinatorStates
    <2>1. [s \in Sources |-> Released(NoTime)] \in [Sources -> SourceStates]
      BY DEF Released, SourceStates
    <2> QED  BY <1>1, <2>1 DEF CoordinatorStates
  <1>3. applied \in Revisions /\ settings \in Revisions
    BY DEF Revisions
  <1> QED
    BY <1>1, <1>2, <1>3 DEF TypeOK, WriterStates, Ids

(* Every step of the callers, the operation in progress, the Writer, the   *)
(* tasks and the supervisor stays in them. *)
LEMMA StepTypes == TypeOK /\ [Next]_vars => TypeOK'
  <1> SUFFICES ASSUME TypeOK, [Next]_vars PROVE TypeOK'
    OBVIOUS
  <1> DEFINE c == SyncExternal(co)
  <1>0. c \in CoordinatorStates
    BY SyncType DEF TypeOK
  <1> HIDE DEF c
  <1>1. ASSUME NEW command \in Commands, AnswerCommand(command) PROVE TypeOK'
    <2>1. GateTyped
      BY <1>0, <1>1, KeepGate DEF AnswerCommand, c, TypeOK
    <2> QED  BY <1>1, <2>1 DEF AnswerCommand, GateTyped, TypeOK, taskVars, opVars
  <1>2. ASSUME NEW command \in OpeningCommands, OpenGate(command) PROVE TypeOK'
    <2>1. [c EXCEPT !.desired = "Running", !.fault = FALSE] \in CoordinatorStates
      BY <1>0 DEF CoordinatorStates, CaptureStates
    <2>2. GateTyped
      BY <1>2, <2>1, PublishOrType DEF OpenGate, c, TypeOK
    <2> QED  BY <1>2, <2>2 DEF OpenGate, GateTyped, TypeOK, taskVars, opVars
  <1>3. ASSUME NEW command \in ClosingCommands, BeginClose(command) PROVE TypeOK'
    <2>1. [c EXCEPT !.desired = Target(command)] \in CoordinatorStates
      BY <1>0 DEF CoordinatorStates, CaptureStates, Target, ClosingCommands, OpeningCommands
    <2>2. command \in OpKinds /\ applied \in Revisions
      BY DEF OpKinds, TypeOK
    <2> QED  BY <1>3, <2>1, <2>2, BeginTransitionType DEF BeginClose, c
  <1>4. ASSUME NEW target \in Revisions, BeginSettings(target) PROVE TypeOK'
    <2>1. CASE c.writerFault \/ target < applied
      <3>1. GateTyped
        BY <1>0, <1>4, <2>1, KeepGate DEF BeginSettings, c, TypeOK
      <3> QED  BY <1>4, <2>1, <3>1 DEF BeginSettings, c, GateTyped, TypeOK, taskVars, opVars
    <2>2. CASE ~(c.writerFault \/ target < applied)
      <3>1. BeginTransition("settings", c, target) /\ commits' = commits
        BY <1>4, <2>2 DEF BeginSettings, c
      <3> QED  BY <1>0, <3>1, BeginTransitionType DEF OpKinds
    <2> QED  BY <2>1, <2>2
  <1>5. ASSUME NEW s \in Sources, NEW t \in Times, BeginEnter(s, t) PROVE TypeOK'
    <2> DEFINE fenced == c.writerFault \/ c.monitorFault
                           \/ (c.source[s].active /\ c.source[s].committed)
               active == IF c.source[s].active THEN c
                         ELSE [c EXCEPT !.source[s] = Activated(t)]
    <2>1. active \in CoordinatorStates
      <3>1. Activated(t) \in SourceStates
        BY DEF Activated, SourceStates
      <3> QED  BY <1>0, <3>1, SourceType
    <2> HIDE DEF active
    <2>2. CASE fenced
      <3>1. GateTyped
        BY <1>0, <1>5, <2>2, KeepGate DEF BeginEnter, c, TypeOK
      <3> QED  BY <1>5, <2>2, <3>1 DEF BeginEnter, c, GateTyped, TypeOK, taskVars, opVars
    <2>3. CASE ~fenced
      <3>1. BeginTransition(s, active, applied)
            /\ commits' = commits
        BY <1>5, <2>3 DEF BeginEnter, c, active
      <3> QED  BY <2>1, <3>1, BeginTransitionType DEF OpKinds, TypeOK
    <2> QED  BY <2>2, <2>3
  <1>6. ASSUME NEW s \in Sources, Release(s) PROVE TypeOK'
    <2>1. [c EXCEPT !.source[s] = Released(NoTime)] \in CoordinatorStates
      <3>1. Released(NoTime) \in SourceStates
        BY DEF Released, SourceStates
      <3> QED  BY <1>0, <3>1, SourceType
    <2>2. \/ KeepUnpublished(c)
          \/ PublishOrStop([c EXCEPT !.source[s] = Released(NoTime)])
      BY <1>6 DEF Release, c
    <2>3. GateTyped
      BY <1>0, <2>1, <2>2, KeepGate, PublishOrType DEF TypeOK
    <2>4. commits' \in [Sources -> 0 .. 2]
      BY <1>6 DEF Release, TypeOK
    <2> QED  BY <1>6, <2>3, <2>4 DEF Release, GateTyped, TypeOK, taskVars, opVars
  <1>7. ASSUME LatchMonitorFault PROVE TypeOK'
    BY <1>7 DEF LatchMonitorFault, ShowState, TypeOK, CoordinatorStates, CaptureStates,
                taskVars, opVars
  <1>8. ASSUME Injected PROVE TypeOK'
    <2>1. op' \in Operations
      BY <1>8 DEF Injected, TypeOK, Operations, NoOp
    <2> QED  BY <1>8, <2>1 DEF Injected, TypeOK, gateVars, writerVars, taskVars
  <1>9. ASSUME op.kind \in OpKinds,
               EndUncommitted(op.kind) \/ EndRefused(op.kind) \/ EndCommitted(op.kind),
               settings' \in Revisions, Finish,
               UNCHANGED <<writerState, applied, outstanding, ack, commits, taskVars, blocked>>
        PROVE  TypeOK'
    <2>1. GateTyped
      BY <1>9, EndType
    <2> QED  BY <1>9, <2>1 DEF GateTyped, TypeOK, Finish, taskVars
  <1>10. op.pc # "idle" => op \in Operations /\ op.kind \in OpKinds
    BY DEF TypeOK, NoOp, Operations
  <1>11. CASE InjectFailed \/ ControlNotQueued \/ AckRefused
    BY <1>9, <1>10, <1>11 DEF InjectFailed, ControlNotQueued, AckRefused, TypeOK
  <1>12. CASE SendControl
    <2> DEFINE control == [kind |-> op.kind, id |-> op.id, target |-> op.target,
                           expected |-> op.expected,
                           at |-> IF op.kind \in Sources THEN co.source[op.kind].first
                                  ELSE NoTime]
    <2>1. op \in Operations
      BY <1>10, <1>12 DEF SendControl
    <2>2. op.kind \in Sources => co.source[op.kind].first \in Times \cup {NoTime}
      BY DEF TypeOK, CoordinatorStates, SourceStates
    <2>3. control \in Controls
      BY <2>1, <2>2 DEF Controls, Operations
    <2>4. op' \in Operations
      BY <1>12, <2>1 DEF SendControl, Operations
    <2> QED  BY <1>12, <2>3, <2>4 DEF SendControl, TypeOK, gateVars, taskVars
  <1>13. CASE AckCommitted
    <2>1. settings' \in Revisions
      BY <1>10, <1>13 DEF AckCommitted, TypeOK, Operations
    <2> QED  BY <1>9, <1>10, <1>13, <2>1 DEF AckCommitted
  <1>14. CASE AckUnknown \/ Cancel \/ \E t \in Tasks : ReportExit(t)
    <2>1. \/ LatchWriterFault
          \/ UNCHANGED <<gateVars, bounded, writerState>>
      BY <1>14 DEF AckUnknown, Cancel, ReportExit
    <2>2. GateTyped /\ writerState' \in WriterStates
      BY <2>1, LatchGate DEF TypeOK, GateTyped, gateVars, WriterStates
    <2> QED  BY <1>14, <2>2 DEF AckUnknown, Cancel, ReportExit, Finish, GateTyped, TypeOK,
                                taskVars, opVars
  <1>15. ASSUME NEW t \in Tasks, TaskExits(t) PROVE TypeOK'
    BY <1>15 DEF TaskExits, TypeOK, gateVars, opVars
  <1>16. ASSUME NEW control \in outstanding, WriterCommits(control) PROVE TypeOK'
    <2>1. commits' \in [Sources -> 0 .. 2]
      BY <1>16 DEF WriterCommits, TypeOK
    <2>2. applied' \in Revisions /\ bounded' \in BOOLEAN
      BY <1>16 DEF WriterCommits, TypeOK, Controls
    <2> QED  BY <1>16, <2>1, <2>2 DEF WriterCommits, Answered, TypeOK, gateVars, taskVars, opVars
  <1>17. ASSUME NEW control \in outstanding, WriterRefuses(control) \/ WriterBreaks(control)
         PROVE  TypeOK'
    BY <1>17 DEF WriterRefuses, WriterBreaks, MarkFatal, Answered, TypeOK, WriterStates,
                 CaptureStates, gateVars, taskVars, opVars
  <1>18. CASE WriterFails \/ WriterRetries
    BY <1>18 DEF WriterFails, WriterRetries, MarkFatal, TypeOK, WriterStates, CaptureStates,
                 gateVars, taskVars, opVars
  <1>19. CASE UNCHANGED vars
    BY <1>19 DEF vars, gateVars, writerVars, taskVars, opVars, TypeOK
  <1> QED
    BY <1>1, <1>2, <1>3, <1>4, <1>5, <1>6, <1>7, <1>8, <1>11, <1>12, <1>13, <1>14, <1>15,
       <1>16, <1>17, <1>18, <1>19
       DEF Next, Caller, Operation, Environment, Supervisor

(* Everything the code keeps stays in its domain, under every step of the  *)
(* callers, the operation in progress, the Writer, the tasks and the       *)
(* supervisor. *)
THEOREM TypeInvariant == Spec => []TypeOK
  BY InitTypes, StepTypes, PTL DEF Spec

-----------------------------------------------------------------------------
(* The inductive invariant.                                                *)

(* The part of GateInv that does not mention the operation. *)
GateCore ==
    /\ writerState = "Faulted" => published = "Stopped"
    /\ writerState # "Faulted" => published = co.lastPublished
    /\ published = "Running" => GateOpen(co)
    /\ co.writerFault => writerState = "Faulted"
    /\ co.fault => co.desired # "Running"
    /\ blocked => co.desired = "Stopped"

(* A coordinator state that may be published: it knows of a Writer fault,  *)
(* and neither a freeze nor a blocked start hides behind a wanted Running. *)
Publishable(c) ==
    /\ c \in CoordinatorStates
    /\ c.writerFault <=> writerState = "Faulted"
    /\ writerState = "Faulted" => c.desired = "Stopped" /\ published = "Stopped"
    /\ c.fault => c.desired # "Running"
    /\ blocked => c.desired = "Stopped"

(* sync_external makes the state publishable, and changes it only to adopt *)
(* a fault. *)
LEMMA SyncPublishable ==
    ASSUME TypeOK, GateInv
    PROVE  /\ Publishable(SyncExternal(co))
           /\ writerState # "Faulted" => SyncExternal(co) = co
           /\ SyncExternal(co).source = co.source
           /\ SyncExternal(co).monitorFault = co.monitorFault
  <1>1. SyncExternal(co) \in CoordinatorStates
    BY SyncType DEF TypeOK
  <1>2. CASE writerState = "Faulted"
    BY <1>1, <1>2 DEF SyncExternal, Publishable, GateInv, TypeOK, CoordinatorStates, CaptureStates
  <1>3. CASE writerState # "Faulted"
    <2>1. SyncExternal(co) = co
      BY <1>3 DEF SyncExternal, GateInv
    <2> QED  BY <1>1, <1>3, <2>1 DEF Publishable, GateInv, TypeOK, CoordinatorStates
  <1> QED
    BY <1>2, <1>3

(* Publishing a publishable state, or falling back to a stop, keeps watch, *)
(* gate and faults consistent; Running needs a living capture task. *)
LEMMA PublishCore ==
    ASSUME TypeOK, NEW c, Publishable(c), UNCHANGED <<writerState, blocked>>,
           \/ PublishOrStop(c)
           \/ PublishOrStopSuppressed(c)
           \/ /\ PublishOrKeep(c)
              /\ writerState # "Faulted" => published = c.lastPublished
              /\ published # "Running"
    PROVE  /\ GateCore'
           /\ co'.desired \in {c.desired, "Stopped"}
           /\ co'.writerFault = c.writerFault
           /\ published' = "Running" => GateOpen(c) /\ "capture" \in alive
  <1> USE DEF TypeOK
  <1>0. c \in CoordinatorStates
    BY DEF Publishable
  <1>1. CASE CanPublish(c) /\ Publish(c)
    <2>1. /\ co' = [c EXCEPT !.lastPublished = Effective(c)]
          /\ published' = Effective(c) /\ co'.lastPublished = published'
          /\ published' = "Running" <=> GateOpen(c)
          /\ GateOpen(co') <=> GateOpen(c)
      BY <1>0, <1>1, PublishGate
    <2>2. /\ co'.desired = c.desired /\ co'.fault = c.fault /\ co'.writerFault = c.writerFault
      BY <1>0, <2>1 DEF CoordinatorStates
    <2>3. writerState = "Faulted" => published' = "Stopped"
      BY <1>0, <2>1, EffectiveType DEF Publishable
    <2>4. published' = "Running" => "capture" \in alive
      BY <1>1, <2>1 DEF CanPublish
    <2> QED  BY <2>1, <2>2, <2>3, <2>4 DEF GateCore, Publishable
  <1>2. CASE ForceStopped(c) \/ ForceStoppedKeepSuppression(c)
    <2>1. /\ co'.desired = "Stopped" /\ co'.lastPublished = "Stopped"
          /\ published' = "Stopped" /\ co'.writerFault = c.writerFault
      BY <1>0, <1>2, ForceStoppedGate, KeepSuppressionGate
    <2> QED  BY <2>1 DEF GateCore, Publishable
  <1>3. CASE /\ KeepUnpublished(c) /\ published # "Running"
             /\ writerState # "Faulted" => published = c.lastPublished
    <2>1. co' = c /\ published' = published
      BY <1>0, <1>3, KeepGate
    <2> QED  BY <1>3, <2>1 DEF GateCore, Publishable
  <1> QED
    BY <1>1, <1>2, <1>3 DEF PublishOrStop, PublishOrStopSuppressed, PublishOrKeep

(* end_transition on the state of the operation, or on that state with its *)
(* source marked committed, gives a publishable state. *)
LEMMA EndedPublishable ==
    ASSUME TypeOK, GateInv, NEW fault \in BOOLEAN, NEW d \in CoordinatorStates,
           d.desired = co.desired, d.lastPublished = co.lastPublished,
           d.fault = co.fault, d.writerFault = co.writerFault,
           fault => co.desired # "Running"
    PROVE  /\ Publishable(Ended(d, fault))
           /\ writerState # "Faulted" => Ended(d, fault).lastPublished = published
  <1> DEFINE e == [d EXCEPT !.transition = FALSE, !.fault = @ \/ fault]
  <1>1. /\ e \in CoordinatorStates
        /\ e.desired = co.desired /\ e.lastPublished = co.lastPublished
        /\ e.fault = (co.fault \/ fault) /\ e.writerFault = co.writerFault
    BY DEF CoordinatorStates
  <1>2. Ended(d, fault) = SyncExternal(e)
    BY DEF Ended
  <1>3. SyncExternal(e) \in CoordinatorStates
    BY <1>1, SyncType DEF TypeOK
  <1> HIDE DEF e
  <1>4. CASE writerState = "Faulted"
    <2>1. SyncExternal(e) = [e EXCEPT !.writerFault = TRUE, !.desired = "Stopped",
                                      !.lastPublished = "Stopped"]
      BY <1>4 DEF SyncExternal
    <2>2. SyncExternal(e).writerFault /\ SyncExternal(e).desired = "Stopped"
      BY <1>1, <2>1 DEF CoordinatorStates
    <2> QED  BY <1>2, <1>3, <1>4, <2>2 DEF Publishable, GateInv
  <1>5. CASE writerState # "Faulted"
    <2>1. SyncExternal(e) = e
      BY <1>1, <1>5 DEF SyncExternal, GateInv
    <2> QED  BY <1>1, <1>2, <1>5, <2>1 DEF Publishable, GateInv
  <1> QED
    BY <1>4, <1>5

(* A fenced, invalid or idempotent request keeps the invariant: it changes *)
(* nothing but to adopt a fault. *)
LEMMA AnsweredInv ==
    ASSUME TypeOK, CoordinatorInv, LockFree, KeepUnpublished(SyncExternal(co)),
           UNCHANGED <<writerState, applied, outstanding, ack, taskVars, opVars,
                       settings, blocked>>
    PROVE  CoordinatorInv'
  <1> DEFINE c == SyncExternal(co)
  <1>1. Publishable(c) /\ (writerState # "Faulted" => c = co)
    BY SyncPublishable DEF CoordinatorInv
  <1>2. co' = c /\ published' = published
    BY DEF KeepUnpublished, ShowState
  <1> HIDE DEF c
  <1>3. op.kind = "none"
    BY DEF LockFree, TypeOK, NoOp, Operations
  <1>4. GateInv'
    BY <1>1, <1>2, <1>3 DEF GateInv, Publishable, CoordinatorInv, LockFree, opVars, ClosingCommands
  <1>5. ControlInv'
    BY <1>1, <1>2 DEF ControlInv, OneControlAtATime, CoordinatorInv, GateInv, Publishable,
                      LockFree, opVars
  <1>6. SettingsInv'
    BY <1>1, <1>2, <1>3 DEF SettingsInv, AnsweredSettings, CoordinatorInv, GateInv, Publishable,
                      LockFree, opVars, taskVars
  <1> QED
    BY <1>4, <1>5, <1>6 DEF CoordinatorInv

(* An opened gate and a released source: published at once, no operation.  *)
LEMMA PublishedInv ==
    ASSUME TypeOK, CoordinatorInv, LockFree, NEW d, Publishable(d), ~d.writerFault,
           PublishOrStop(d),
           UNCHANGED <<writerState, applied, outstanding, ack, taskVars, opVars,
                       settings, blocked>>
    PROVE  CoordinatorInv'
  <1>1. /\ GateCore' /\ co'.writerFault = d.writerFault
        /\ published' = "Running" => "capture" \in alive
    BY PublishCore
  <1>2. op.kind = "none"
    BY DEF LockFree, TypeOK, NoOp, Operations
  <1>3. ~co.writerFault
    BY DEF Publishable, CoordinatorInv, GateInv
  <1>4. GateInv'
    BY <1>1, <1>2 DEF GateInv, GateCore, LockFree, opVars, ClosingCommands
  <1>5. ControlInv'
    BY <1>1, <1>3 DEF ControlInv, OneControlAtATime, CoordinatorInv, LockFree, opVars
  <1>6. SettingsInv'
    BY <1>1, <1>2, <1>3 DEF SettingsInv, AnsweredSettings, CoordinatorInv, LockFree, opVars,
                            taskVars
  <1> QED
    BY <1>4, <1>5, <1>6 DEF CoordinatorInv

(* A begun transition is never Running, and the Writer holds no control.   *)
LEMMA BegunInv ==
    ASSUME TypeOK, CoordinatorInv, LockFree, NEW kind \in OpKinds, NEW d, Publishable(d),
           ~d.writerFault, NEW target \in Revisions,
           kind \in ClosingCommands => d.desired # "Running",
           BeginTransition(kind, d, target)
    PROVE  CoordinatorInv'
  <1> DEFINE frozen == [d EXCEPT !.transition = TRUE]
  <1>1. /\ frozen.desired = d.desired /\ frozen.writerFault = d.writerFault
        /\ Publishable(frozen) /\ ~GateOpen(frozen)
    BY DEF Publishable, CoordinatorStates, GateOpen
  <1>2. /\ PublishOrStop(frozen) \/ PublishOrStopSuppressed(frozen)
        /\ ack' = "none"
        /\ UNCHANGED <<writerState, applied, outstanding, taskVars, settings, blocked>>
        /\ \/ op' = [kind |-> kind, pc |-> "inject", id |-> nextId,
                     expected |-> applied, target |-> target]
           \/ UNCHANGED opVars
    BY DEF BeginTransition
  <1> HIDE DEF frozen
  <1>3. /\ GateCore' /\ co'.desired \in {d.desired, "Stopped"} /\ ~co'.writerFault
        /\ published' # "Running"
    BY <1>1, <1>2, PublishCore
  <1>4. op.kind = "none" /\ ~co.writerFault /\ outstanding = {}
    BY DEF LockFree, TypeOK, NoOp, Operations, Publishable, CoordinatorInv, GateInv, ControlInv
  <1>5. GateInv'
    BY <1>2, <1>3, <1>4 DEF GateInv, GateCore, opVars, ClosingCommands
  <1>6. ControlInv'
    BY <1>2, <1>3, <1>4 DEF ControlInv, OneControlAtATime, LockFree, opVars
  <1>7. SettingsInv'
    BY <1>2, <1>3, <1>4 DEF SettingsInv, AnsweredSettings, CoordinatorInv, LockFree, opVars,
                            taskVars
  <1> QED
    BY <1>5, <1>6, <1>7 DEF CoordinatorInv

(* An operation that ends keeps the invariant if the settings watch agrees *)
(* with the Writer afterwards, or nothing can resume recording. *)
LEMMA EndedInv ==
    ASSUME TypeOK, CoordinatorInv, op.pc # "idle", op.pc # "ack" \/ ack # "none",
           EndUncommitted(op.kind) \/ EndRefused(op.kind) \/ EndCommitted(op.kind),
           Finish,
           UNCHANGED <<writerState, applied, outstanding, ack, taskVars, blocked>>,
           \/ settings' = applied
           \/ settings' = settings /\ (AnsweredSettings => "capture" \notin alive)
    PROVE  CoordinatorInv'
  <1> DEFINE marked == [co EXCEPT !.source[op.kind].committed = TRUE]
  <1>1. op.kind \in OpKinds
    BY DEF TypeOK, NoOp, Operations
  <1>2. op.kind \in Sources =>
          /\ marked \in CoordinatorStates
          /\ marked.desired = co.desired /\ marked.lastPublished = co.lastPublished
          /\ marked.fault = co.fault /\ marked.writerFault = co.writerFault
    <2>1. op.kind \in Sources => marked \in CoordinatorStates
      BY SourceType DEF TypeOK
    <2> QED  BY <2>1 DEF TypeOK, CoordinatorStates
  <1>3. /\ op.kind \in ClosingCommands =>
              Publishable(Ended(co, TRUE)) /\
              (writerState # "Faulted" => Ended(co, TRUE).lastPublished = published)
        /\ Publishable(Ended(co, FALSE)) /\
              (writerState # "Faulted" => Ended(co, FALSE).lastPublished = published)
        /\ op.kind \in Sources => Publishable(Ended(marked, FALSE))
    BY <1>2, EndedPublishable DEF CoordinatorInv, GateInv, TypeOK
  <1> HIDE DEF marked
  <1>4. published # "Running"
    BY DEF CoordinatorInv, GateInv
  <1>5. \/ ForceStopped(co)
        \/ op.kind \in ClosingCommands /\ PublishOrKeep(Ended(co, TRUE))
        \/ PublishOrStop(Ended(co, FALSE))
        \/ PublishOrStopSuppressed(Ended(co, FALSE))
        \/ PublishOrKeep(Ended(co, FALSE))
        \/ op.kind \in Sources /\ PublishOrStopSuppressed(Ended(marked, FALSE))
    BY DEF EndUncommitted, EndRefused, EndCommitted, marked
  <1>6. GateCore' /\ (published' = "Running" => "capture" \in alive)
    <2>1. CASE ForceStopped(co)
      BY <2>1, ForceStoppedGate DEF GateCore, CoordinatorInv, GateInv, TypeOK
    <2> QED  BY <1>3, <1>4, <1>5, <2>1, PublishCore
  <1>7. ~co.writerFault /\ outstanding = {}
    BY DEF CoordinatorInv, ControlInv
  <1>8. op' = NoOp
    BY DEF Finish
  <1>9. GateInv'
    BY <1>6, <1>8 DEF GateInv, GateCore, NoOp, ClosingCommands
  <1>10. ControlInv'
    BY <1>7, <1>8 DEF ControlInv, OneControlAtATime, NoOp
  <1>11. SettingsInv'
    BY <1>4, <1>6, <1>7, <1>8 DEF SettingsInv, AnsweredSettings, CoordinatorInv, NoOp, taskVars
  <1> QED
    BY <1>9, <1>10, <1>11 DEF CoordinatorInv

(* A latched Writer fault keeps the invariant, whoever latches it.         *)
LEMMA LatchedInv ==
    ASSUME TypeOK, CoordinatorInv, LatchWriterFault, op' = NoOp,
           UNCHANGED <<applied, outstanding, ack, alive, settings, blocked>>
    PROVE  CoordinatorInv'
  <1>1. /\ co'.desired = "Stopped" /\ co'.writerFault
        /\ published' = "Stopped" /\ writerState' = "Faulted"
    BY LatchGate DEF TypeOK
  <1>2. GateInv'
    BY <1>1 DEF GateInv, NoOp, ClosingCommands
  <1>3. ControlInv'
    BY <1>1 DEF ControlInv, CoordinatorInv, OneControlAtATime, NoOp
  <1>4. SettingsInv'
    BY <1>1 DEF SettingsInv, AnsweredSettings, NoOp
  <1> QED
    BY <1>2, <1>3, <1>4 DEF CoordinatorInv

(* The Writer's and the tasks' own steps keep the invariant.               *)
LEMMA EnvironmentInv ==
    ASSUME TypeOK, CoordinatorInv,
           \/ \E t \in Tasks : TaskExits(t)
           \/ \E c \in outstanding : WriterCommits(c) \/ WriterRefuses(c) \/ WriterBreaks(c)
           \/ WriterFails \/ WriterRetries
    PROVE  CoordinatorInv'
  <1> USE DEF CoordinatorInv
  <1>1. ASSUME NEW t \in Tasks, TaskExits(t) PROVE CoordinatorInv'
    <2>1. /\ outstanding' \subseteq outstanding /\ alive' \subseteq alive
          /\ UNCHANGED <<gateVars, writerState, applied, ack, opVars, settings, blocked>>
      BY <1>1 DEF TaskExits
    <2> QED  BY <2>1 DEF GateInv, ControlInv, OneControlAtATime, SettingsInv, AnsweredSettings,
                         GateOpen, gateVars, opVars
  <1>2. ASSUME NEW c \in outstanding,
               WriterCommits(c) \/ WriterRefuses(c) \/ WriterBreaks(c)
        PROVE  CoordinatorInv'
    <2>1. /\ outstanding' \subseteq outstanding /\ ~(c \in outstanding')
          /\ ack' \in {ack, "ok", "err"}
          /\ op.pc # "ack" => ack' = ack
          /\ UNCHANGED <<co, taskVars, opVars, settings, blocked>>
      BY <1>2 DEF WriterCommits, WriterRefuses, WriterBreaks, Answered, MarkFatal, gateVars
    <2>2. outstanding' = {} \/ co.writerFault
      BY <2>1 DEF ControlInv, OneControlAtATime
    <2>3. \/ UNCHANGED <<published, writerState>>
          \/ published' = "Stopped" /\ writerState' = "Faulted"
      BY <1>2 DEF WriterCommits, WriterRefuses, WriterBreaks, MarkFatal, gateVars
    <2>4. GateInv'
      BY <2>1, <2>3 DEF GateInv, GateOpen, opVars
    <2>5. ControlInv'
      BY <2>1, <2>2 DEF ControlInv, OneControlAtATime, opVars
    <2>6. SettingsInv'
      <3>1. CASE co.writerFault
        BY <2>1, <3>1 DEF SettingsInv, AnsweredSettings, ControlInv, opVars
      <3>2. CASE ~co.writerFault /\ WriterCommits(c)
        <4>1. c.kind = op.kind /\ c.id = op.id /\ c.target = op.target /\ op.pc = "ack"
              /\ ack = "none"
          BY <3>2 DEF ControlInv
        <4>2. ack' = "ok" /\ applied' = IF op.kind = "settings" THEN op.target ELSE applied
          BY <3>2, <4>1 DEF WriterCommits, Answered
        <4> QED  BY <2>1, <2>3, <4>1, <4>2 DEF SettingsInv, AnsweredSettings, opVars, taskVars
      <3>3. CASE ~co.writerFault /\ (WriterRefuses(c) \/ WriterBreaks(c))
        <4>1. c.id = op.id /\ op.pc = "ack" /\ ack = "none"
          BY <3>3 DEF ControlInv
        <4>2. ack' = "err" /\ applied' = applied
          BY <3>3, <4>1 DEF WriterRefuses, WriterBreaks, Answered
        <4> QED  BY <2>1, <2>3, <4>1, <4>2 DEF SettingsInv, AnsweredSettings, opVars, taskVars
      <3> QED  BY <1>2, <3>1, <3>2, <3>3
    <2> QED  BY <2>4, <2>5, <2>6
  <1>3. CASE WriterFails
    BY <1>3 DEF WriterFails, MarkFatal, GateInv, GateOpen, ControlInv, OneControlAtATime,
                SettingsInv, AnsweredSettings, taskVars, opVars
  <1>4. CASE WriterRetries
    BY <1>4 DEF WriterRetries, GateInv, GateOpen, ControlInv, OneControlAtATime, SettingsInv,
                AnsweredSettings, gateVars, taskVars, opVars
  <1> QED
    BY <1>1, <1>2, <1>3, <1>4

(* Every step keeps the invariant.                                         *)
LEMMA StepInv == TypeOK /\ CoordinatorInv /\ [Next]_vars => CoordinatorInv'
  <1> SUFFICES ASSUME TypeOK, CoordinatorInv, [Next]_vars PROVE CoordinatorInv'
    OBVIOUS
  <1> DEFINE c == SyncExternal(co)
  <1>0. /\ Publishable(c) /\ c \in CoordinatorStates
        /\ ~c.writerFault => c = co
    BY SyncPublishable DEF CoordinatorInv, Publishable
  <1> HIDE DEF c
  <1>1. ASSUME NEW command \in Commands, AnswerCommand(command) PROVE CoordinatorInv'
    BY <1>1, AnsweredInv DEF AnswerCommand
  <1>2. ASSUME NEW command \in OpeningCommands, OpenGate(command) PROVE CoordinatorInv'
    <2> DEFINE d == [c EXCEPT !.desired = "Running", !.fault = FALSE]
    <2>0. Target(command) = "Running"
      BY DEF Target, OpeningCommands
    <2>1. ~c.writerFault /\ c.desired # "Running"
          /\ ~Invalid(command, c.desired) /\ ~(command \in {"start", "ensure"} /\ blocked)
      <3>1. ~Fenced(c, command) /\ Proceeds(command, c.desired)
        BY <1>2 DEF OpenGate, c
      <3> QED  BY <2>0, <3>1 DEF Fenced, Proceeds, Idempotent
    <2>2. ~blocked
      BY <1>0, <2>1 DEF Publishable, Invalid, InvalidPairs, OpeningCommands
    <2>3. d.desired = "Running" /\ ~d.fault /\ ~d.writerFault /\ d \in CoordinatorStates
      BY <1>0, <2>1 DEF CoordinatorStates, CaptureStates
    <2>4. Publishable(d)
      BY <1>0, <2>1, <2>2, <2>3 DEF Publishable
    <2> HIDE DEF d
    <2>5. PublishOrStop(d) /\ LockFree
          /\ UNCHANGED <<writerState, applied, outstanding, ack, taskVars, opVars,
                         settings, blocked>>
      BY <1>2 DEF OpenGate, c, d
    <2> QED  BY <2>3, <2>4, <2>5, PublishedInv
  <1>3. ASSUME NEW command \in ClosingCommands, BeginClose(command) PROVE CoordinatorInv'
    <2> DEFINE d == [c EXCEPT !.desired = Target(command)]
    <2>1. /\ Target(command) \in {"Paused", "Stopped"}
          /\ Target(command) = "Stopped" <=> command = "stop"
      BY DEF Target, ClosingCommands, OpeningCommands
    <2>2. c.desired # "Stopped"
      BY <1>3 DEF BeginClose, c, Proceeds, Invalid, InvalidPairs, Idempotent, Target,
                  ClosingCommands, OpeningCommands
    <2>3. ~c.writerFault /\ ~blocked
      BY <1>0, <2>2 DEF Publishable
    <2>4. d.desired = Target(command) /\ d.fault = c.fault /\ ~d.writerFault
          /\ d \in CoordinatorStates
      BY <1>0, <2>1, <2>3 DEF CoordinatorStates, CaptureStates
    <2>5. Publishable(d) /\ d.desired # "Running"
      BY <1>0, <2>1, <2>3, <2>4 DEF Publishable
    <2> HIDE DEF d
    <2>6. BeginTransition(command, d, applied) /\ LockFree
      BY <1>3 DEF BeginClose, c, d
    <2> QED  BY <2>4, <2>5, <2>6, BegunInv DEF TypeOK, OpKinds
  <1>4. ASSUME NEW target \in Revisions, BeginSettings(target) PROVE CoordinatorInv'
    <2>1. CASE c.writerFault \/ target < applied
      BY <1>4, <2>1, AnsweredInv DEF BeginSettings, c
    <2>2. CASE ~(c.writerFault \/ target < applied)
      <3>1. BeginTransition("settings", c, target) /\ LockFree
        BY <1>4, <2>2 DEF BeginSettings, c
      <3> QED  BY <1>0, <2>2, <3>1, BegunInv DEF OpKinds, ClosingCommands
    <2> QED  BY <2>1, <2>2
  <1>5. ASSUME NEW s \in Sources, NEW t \in Times, BeginEnter(s, t) PROVE CoordinatorInv'
    <2> DEFINE fenced == c.writerFault \/ c.monitorFault
                           \/ (c.source[s].active /\ c.source[s].committed)
               d == IF c.source[s].active THEN c ELSE [c EXCEPT !.source[s] = Activated(t)]
    <2>1. CASE fenced
      BY <1>5, <2>1, AnsweredInv DEF BeginEnter, c
    <2>2. CASE ~fenced
      <3>1. Activated(t) \in SourceStates
        BY DEF Activated, SourceStates
      <3>2. d \in CoordinatorStates
        BY <1>0, <3>1, SourceType
      <3>3. d.desired = c.desired /\ d.fault = c.fault /\ d.writerFault = c.writerFault
        BY <1>0 DEF CoordinatorStates
      <3>4. Publishable(d) /\ ~d.writerFault
        BY <1>0, <2>2, <3>2, <3>3 DEF Publishable
      <3> HIDE DEF d
      <3>5. BeginTransition(s, d, applied) /\ LockFree
        BY <1>5, <2>2 DEF BeginEnter, c, d
      <3> QED  BY <3>4, <3>5, BegunInv DEF TypeOK, OpKinds, Sources, ClosingCommands
    <2> QED  BY <2>1, <2>2
  <1>6. ASSUME NEW s \in Sources, Release(s) PROVE CoordinatorInv'
    <2> DEFINE fenced == c.writerFault \/ c.monitorFault \/ ~c.source[s].active
               d == [c EXCEPT !.source[s] = Released(NoTime)]
    <2>1. CASE fenced
      BY <1>6, <2>1, AnsweredInv DEF Release, c
    <2>2. CASE ~fenced
      <3>1. Released(NoTime) \in SourceStates
        BY DEF Released, SourceStates
      <3>2. d \in CoordinatorStates
        BY <1>0, <3>1, SourceType
      <3>3. d.desired = c.desired /\ d.fault = c.fault /\ d.writerFault = c.writerFault
        BY <1>0 DEF CoordinatorStates
      <3>4. Publishable(d) /\ ~d.writerFault
        BY <1>0, <2>2, <3>2, <3>3 DEF Publishable
      <3> HIDE DEF d
      <3>5. PublishOrStop(d) /\ LockFree
            /\ UNCHANGED <<writerState, applied, outstanding, ack, taskVars, opVars,
                           settings, blocked>>
        BY <1>6, <2>2 DEF Release, c, d
      <3> QED  BY <3>4, <3>5, PublishedInv
    <2> QED  BY <2>1, <2>2
  <1>7. CASE LatchMonitorFault
    <2>1. /\ co'.desired = "Stopped" /\ co'.lastPublished = "Stopped" /\ published' = "Stopped"
          /\ co'.fault = co.fault /\ co'.writerFault = co.writerFault
          /\ UNCHANGED <<writerState, applied, outstanding, ack, taskVars, opVars,
                         settings, blocked>>
      BY <1>7 DEF LatchMonitorFault, ShowState, TypeOK, CoordinatorStates
    <2> QED  BY <2>1 DEF CoordinatorInv, GateInv, ControlInv, OneControlAtATime, SettingsInv,
                         AnsweredSettings, taskVars, opVars
  <1>8. CASE Injected
    <2>1. /\ op.pc = "inject" /\ op'.pc = "control" /\ op'.kind = op.kind
          /\ UNCHANGED <<gateVars, writerVars, taskVars, settings, blocked>>
      BY <1>8 DEF Injected, TypeOK, Operations, NoOp
    <2> QED  BY <2>1 DEF CoordinatorInv, GateInv, GateOpen, ControlInv, OneControlAtATime,
                         SettingsInv, AnsweredSettings, gateVars, writerVars, taskVars
  <1>9. CASE InjectFailed \/ ControlNotQueued \/ AckRefused
    <2>1. /\ op.pc # "idle" /\ ~AnsweredSettings
          /\ op.pc # "ack" \/ ack # "none"
          /\ EndUncommitted(op.kind) \/ EndRefused(op.kind)
          /\ Finish
          /\ UNCHANGED <<writerState, applied, outstanding, ack, taskVars, settings, blocked>>
      BY <1>9 DEF InjectFailed, ControlNotQueued, AckRefused, AnsweredSettings
    <2> QED  BY <2>1, EndedInv
  <1>10. CASE SendControl
    <2> DEFINE control == [kind |-> op.kind, id |-> op.id, target |-> op.target,
                           expected |-> op.expected,
                           at |-> IF op.kind \in Sources THEN co.source[op.kind].first ELSE NoTime]
    <2>1. /\ op.pc = "control" /\ op'.pc = "ack"
          /\ op'.kind = op.kind /\ op'.id = op.id /\ op'.target = op.target
          /\ UNCHANGED <<gateVars, writerState, applied, ack, taskVars, settings, blocked>>
      BY <1>10 DEF SendControl, TypeOK, Operations, NoOp
    <2>2. outstanding = {} /\ ack = "none"
      BY <2>1 DEF CoordinatorInv, ControlInv
    <2>3. outstanding' = {control}
      BY <1>10, <2>2 DEF SendControl
    <2>4. control.kind = op.kind /\ control.id = op.id /\ control.target = op.target
      OBVIOUS
    <2> HIDE DEF control
    <2>5. ControlInv'
      BY <2>1, <2>2, <2>3, <2>4 DEF CoordinatorInv, ControlInv, OneControlAtATime, gateVars
    <2> QED  BY <2>1, <2>2, <2>5 DEF CoordinatorInv, GateInv, GateOpen, SettingsInv,
                                     AnsweredSettings, gateVars, taskVars
  <1>11. CASE AckCommitted
    <2>1. /\ op.pc # "idle" /\ ack # "none" /\ EndCommitted(op.kind) /\ Finish
          /\ UNCHANGED <<writerState, applied, outstanding, ack, taskVars, blocked>>
      BY <1>11 DEF AckCommitted
    <2>2. \/ settings' = applied
          \/ settings' = settings /\ (AnsweredSettings => "capture" \notin alive)
      BY <1>11 DEF AckCommitted, SettingsConsumed, CoordinatorInv, SettingsInv, AnsweredSettings
    <2> QED  BY <2>1, <2>2, EndedInv
  <1>12. CASE AckUnknown \/ \E t \in Tasks : ReportExit(t)
    <2>1. LatchWriterFault /\ op' = NoOp
          /\ UNCHANGED <<applied, outstanding, ack, alive, settings, blocked>>
      BY <1>12 DEF AckUnknown, ReportExit, Finish, LockFree, TypeOK, Operations, opVars, taskVars
    <2> QED  BY <2>1, LatchedInv
  <1>13. CASE Cancel
    <2>1. op' = NoOp /\ UNCHANGED <<applied, outstanding, ack, alive, settings, blocked>>
      BY <1>13 DEF Cancel, Finish, taskVars
    <2>2. CASE op.pc = "ack"
      BY <1>13, <2>1, <2>2, LatchedInv DEF Cancel
    <2>3. CASE op.pc # "ack"
      <3>1. UNCHANGED <<gateVars, writerState>> /\ op.kind \in Sources
        BY <1>13, <2>3 DEF Cancel
      <3>2. op.pc # "idle"
        BY <3>1 DEF TypeOK, NoOp, Operations, Sources
      <3>3. outstanding = {}
        BY <2>3, <3>2 DEF CoordinatorInv, ControlInv
      <3> QED  BY <2>1, <2>3, <3>1, <3>3 DEF CoordinatorInv, GateInv, GateOpen, ControlInv,
                  OneControlAtATime, SettingsInv, AnsweredSettings, NoOp, ClosingCommands, gateVars
    <2> QED  BY <2>2, <2>3
  <1>14. CASE UNCHANGED vars
    BY <1>14 DEF CoordinatorInv, GateInv, GateOpen, ControlInv, OneControlAtATime, SettingsInv,
                 AnsweredSettings, vars, gateVars, writerVars, taskVars, opVars
  <1> QED
    BY <1>1, <1>2, <1>3, <1>4, <1>5, <1>6, <1>7, <1>8, <1>9, <1>10, <1>11, <1>12, <1>13, <1>14,
       EnvironmentInv
       DEF Next, Caller, Operation, Environment, Supervisor

(* At the start nothing is suppressed and no control is under way. *)
LEMMA InitInv == Init => CoordinatorInv
  <1> SUFFICES ASSUME Init PROVE CoordinatorInv
    OBVIOUS
  <1>1. co.source = [s \in Sources |-> Released(NoTime)]
    BY DEF Init
  <1>2. \A s \in Sources : ~co.source[s].active
    BY <1>1 DEF Released
  <1> QED
    BY <1>2 DEF Init, CoordinatorInv, GateInv, GateOpen, ControlInv, OneControlAtATime,
                SettingsInv, AnsweredSettings, NoOp, ClosingCommands

(* The published gate is consistent with the coordinator's state and with  *)
(* every fault; the Writer holds at most the control of the running        *)
(* operation; the settings watch follows the Writer's revision.  This is   *)
(* the strengthening the theorems below rest on. *)
THEOREM CoordinatorInvariant == Spec => []CoordinatorInv
  BY InitInv, StepInv, TypeInvariant, PTL DEF Spec

(* Samples are taken only while the user wants them and nothing suppresses *)
(* them: no lock, sleep, transition, freeze or fault, and no Writer that   *)
(* failed behind the coordinator's back. *)
THEOREM GateSafety == Spec => []RunningMeansGateOpen
  <1>1. CoordinatorInv => RunningMeansGateOpen
    BY DEF CoordinatorInv, GateInv, RunningMeansGateOpen
  <1> QED
    BY <1>1, CoordinatorInvariant, PTL

(* No step of any actor takes a fault of the Writer back. *)
LEMMA FaultStays ==
    ASSUME [Next]_vars, writerState = "Faulted"
    PROVE  writerState' = "Faulted"
  BY DEF Next, Caller, Operation, Environment, Supervisor, AnswerCommand, OpenGate,
         BeginClose, BeginSettings, BeginEnter, BeginTransition, Release, LatchMonitorFault,
         Injected, InjectFailed, SendControl, ControlNotQueued, AckCommitted, AckRefused,
         AckUnknown, Cancel, ReportExit, LatchWriterFault, TaskExits, WriterCommits,
         WriterRefuses, WriterBreaks, WriterFails, WriterRetries, MarkFatal,
         vars, gateVars, writerVars, taskVars, opVars

(* A Writer or pipeline fault is final: no later step of any actor brings  *)
(* the Writer or the gate back in this process. *)
THEOREM FaultFinality == Spec => FaultIsFinal
  <1>1. TypeOK /\ CoordinatorInv /\ CoordinatorInv' /\ [Next]_vars
          => [writerState = "Faulted" => writerState' = "Faulted" /\ published' = "Stopped"]_vars
    BY FaultStays DEF CoordinatorInv, GateInv
  <1> QED
    BY <1>1, TypeInvariant, CoordinatorInvariant, PTL DEF Spec, FaultIsFinal

(* Sampling never resumes under a settings revision the Writer does not    *)
(* have: the watch is switched before the gate is released, and an unknown *)
(* outcome is fenced for good. *)
THEOREM SettingsAgreement == Spec => []RunningUsesAppliedSettings
  <1>1. TypeOK /\ CoordinatorInv => RunningUsesAppliedSettings
    BY DEF CoordinatorInv, GateInv, SettingsInv, AnsweredSettings, GateOpen,
           RunningUsesAppliedSettings
  <1> QED
    BY <1>1, TypeInvariant, CoordinatorInvariant, PTL

(* The Writer never holds two controls of the coordinator. *)
THEOREM ControlExclusion == Spec => []OneControlAtATime
  <1>1. CoordinatorInv => OneControlAtATime
    BY DEF CoordinatorInv, ControlInv
  <1> QED
    BY <1>1, CoordinatorInvariant, PTL

(* A start or resume is never answered as already running while a freeze   *)
(* of a failed pause or stop holds. *)
THEOREM FreezeVisible == Spec => []FreezeIsNotIdempotent
  <1>1. CoordinatorInv => FreezeIsNotIdempotent
    BY DEF CoordinatorInv, GateInv, FreezeIsNotIdempotent
  <1> QED
    BY <1>1, CoordinatorInvariant, PTL

-----------------------------------------------------------------------------
(* Lock and sleep: one boundary per activation.                            *)

(* Publishing a state, or any fallback, leaves its sources and the faults  *)
(* behind the coordinator alone; it may only give up a wanted recording    *)
(* when a task is gone. *)
LEMMA ShownState ==
    ASSUME TypeOK, NEW d \in CoordinatorStates,
           \/ PublishOrStop(d) \/ PublishOrStopSuppressed(d) \/ PublishOrKeep(d)
           \/ KeepUnpublished(d)
    PROVE  /\ co'.source = d.source
           /\ co'.writerFault = d.writerFault /\ co'.monitorFault = d.monitorFault
           /\ bounded' = (bounded /\ published' # "Running")
           /\ \/ co'.desired = d.desired /\ co'.fault = d.fault /\ co'.transition = d.transition
              \/ /\ alive # Tasks /\ co'.desired = "Stopped" /\ published' = "Stopped"
                 /\ ~co'.transition
  <1>1. CASE Publish(d)
    BY <1>1 DEF Publish, ShowState, CoordinatorStates
  <1>2. CASE ~CanPublish(d) /\ (ForceStopped(d) \/ ForceStoppedKeepSuppression(d))
    <2>1. alive # Tasks
      BY <1>2 DEF CanPublish, Tasks
    <2> QED  BY <1>2, <2>1 DEF ForceStopped, ForceStoppedKeepSuppression, ShowState,
                               CoordinatorStates
  <1>3. CASE KeepUnpublished(d)
    BY <1>3 DEF KeepUnpublished, ShowState
  <1> QED
    BY <1>1, <1>2, <1>3 DEF PublishOrStop, PublishOrStopSuppressed, PublishOrKeep

(* end_transition touches neither the sources nor the monitor fault. *)
LEMMA EndedState ==
    ASSUME TypeOK, GateInv, NEW d \in CoordinatorStates, NEW fault \in BOOLEAN,
           d.lastPublished = co.lastPublished
    PROVE  /\ Ended(d, fault) \in CoordinatorStates
           /\ Ended(d, fault).source = d.source
           /\ Ended(d, fault).monitorFault = d.monitorFault
           /\ d.writerFault => Ended(d, fault).writerFault
           /\ ~Ended(d, fault).transition
           /\ writerState # "Faulted" =>
                /\ Ended(d, fault).desired = d.desired
                /\ Ended(d, fault).fault = (d.fault \/ fault)
                /\ Ended(d, fault).writerFault = d.writerFault
  <1> DEFINE e == [d EXCEPT !.transition = FALSE, !.fault = @ \/ fault]
  <1>1. /\ e \in CoordinatorStates /\ e.source = d.source /\ e.monitorFault = d.monitorFault
        /\ e.writerFault = d.writerFault /\ e.lastPublished = co.lastPublished
        /\ ~e.transition /\ e.desired = d.desired /\ e.fault = (d.fault \/ fault)
    BY DEF CoordinatorStates
  <1>2. Ended(d, fault) = SyncExternal(e)
    BY DEF Ended
  <1>3. SyncExternal(e) \in CoordinatorStates
    BY <1>1, SyncType DEF TypeOK
  <1> HIDE DEF e
  <1>4. CASE writerState = "Faulted"
    <2>1. SyncExternal(e) = [e EXCEPT !.writerFault = TRUE, !.desired = "Stopped",
                                      !.lastPublished = "Stopped"]
      BY <1>4 DEF SyncExternal
    <2>2. /\ SyncExternal(e).source = e.source /\ SyncExternal(e).monitorFault = e.monitorFault
          /\ SyncExternal(e).writerFault /\ ~SyncExternal(e).transition
      BY <1>1, <2>1 DEF CoordinatorStates
    <2> QED  BY <1>1, <1>2, <1>3, <1>4, <2>2
  <1>5. CASE writerState # "Faulted"
    <2>1. SyncExternal(e) = e
      BY <1>1, <1>5 DEF SyncExternal, GateInv
    <2> QED  BY <1>1, <1>2, <1>5, <2>1
  <1> QED
    BY <1>4, <1>5

(* What the end of an operation leaves of the state it ends in: a wanted   *)
(* recording is only given up when a task is gone or the Writer failed. *)
EndedAs(d) ==
    /\ co'.source = d.source
    /\ co.writerFault => co'.writerFault
    /\ co'.monitorFault = co.monitorFault
    /\ bounded' = (bounded /\ published' # "Running")
    /\ ~co'.transition
    /\ writerState # "Faulted" /\ alive = Tasks =>
         co'.desired = co.desired /\ (co.fault => co'.fault)

LEMMA EndedShown ==
    ASSUME TypeOK, GateInv, NEW d \in CoordinatorStates, NEW fault \in BOOLEAN,
           d.lastPublished = co.lastPublished, d.desired = co.desired, d.fault = co.fault,
           d.writerFault = co.writerFault, d.monitorFault = co.monitorFault,
           \/ PublishOrStop(Ended(d, fault)) \/ PublishOrStopSuppressed(Ended(d, fault))
           \/ PublishOrKeep(Ended(d, fault))
    PROVE  /\ EndedAs(d)
           /\ writerState # "Faulted" /\ alive = Tasks /\ fault => co'.fault
  <1> DEFINE e == Ended(d, fault)
  <1>1. /\ e \in CoordinatorStates /\ e.source = d.source /\ e.monitorFault = d.monitorFault
        /\ d.writerFault => e.writerFault
        /\ ~e.transition
        /\ writerState # "Faulted" => e.desired = d.desired /\ e.fault = (d.fault \/ fault)
    BY EndedState
  <1>2. PublishOrStop(e) \/ PublishOrStopSuppressed(e) \/ PublishOrKeep(e)
    OBVIOUS
  <1> HIDE DEF e
  <1>3. /\ co'.source = e.source
        /\ co'.writerFault = e.writerFault /\ co'.monitorFault = e.monitorFault
        /\ bounded' = (bounded /\ published' # "Running")
        /\ \/ co'.desired = e.desired /\ co'.fault = e.fault /\ co'.transition = e.transition
           \/ alive # Tasks /\ ~co'.transition
    BY <1>1, <1>2, ShownState
  <1> QED
    BY <1>1, <1>3 DEF EndedAs

(* Without a commit the sources stay, and a close is frozen by its fault. *)
LEMMA UncommittedShape ==
    ASSUME TypeOK, GateInv, op.kind \in OpKinds, EndUncommitted(op.kind) \/ EndRefused(op.kind)
    PROVE  /\ EndedAs(co)
           /\ writerState # "Faulted" /\ alive = Tasks /\ op.kind \in ClosingCommands
                => co'.fault
  <1>1. \/ /\ op.kind \notin ClosingCommands
           /\ \/ PublishOrStop(Ended(co, FALSE)) \/ PublishOrStopSuppressed(Ended(co, FALSE))
              \/ PublishOrKeep(Ended(co, FALSE))
        \/ PublishOrKeep(Ended(co, TRUE))
    BY DEF EndUncommitted, EndRefused, Sources, ClosingCommands
  <1>2. co \in CoordinatorStates
    BY DEF TypeOK
  <1>3. CASE PublishOrKeep(Ended(co, TRUE))
    BY <1>2, <1>3, EndedShown
  <1>4. CASE ~PublishOrKeep(Ended(co, TRUE))
    <2>1. EndedAs(co)
      BY <1>1, <1>2, <1>4, EndedShown
    <2> QED  BY <1>1, <1>4, <2>1
  <1> QED
    BY <1>3, <1>4

(* The state of the running operation with its source committed. *)
Marked == [co EXCEPT !.source[op.kind].committed = TRUE]

LEMMA MarkedState ==
    ASSUME TypeOK, op.kind \in Sources
    PROVE  /\ Marked \in CoordinatorStates
           /\ Marked.source = [co.source EXCEPT ![op.kind].committed = TRUE]
           /\ Marked.lastPublished = co.lastPublished /\ Marked.desired = co.desired
           /\ Marked.fault = co.fault /\ Marked.writerFault = co.writerFault
           /\ Marked.monitorFault = co.monitorFault
  <1>1. Marked \in CoordinatorStates
    BY SourceType DEF TypeOK, Marked
  <1> QED
    BY <1>1 DEF TypeOK, CoordinatorStates, Marked

(* With a commit the source of the operation, if it has one, is committed. *)
LEMMA CommittedShape ==
    ASSUME TypeOK, GateInv, op.kind \in OpKinds, EndCommitted(op.kind)
    PROVE  EndedAs(IF op.kind \in Sources THEN Marked ELSE co)
  <1>1. CASE op.kind \in Sources
    <2>1. PublishOrStopSuppressed(Ended(Marked, FALSE))
      BY <1>1 DEF EndCommitted, Sources, ClosingCommands, Marked
    <2> QED  BY <1>1, <2>1, MarkedState, EndedShown
  <1>2. CASE op.kind \notin Sources
    <2>1. co \in CoordinatorStates
      BY DEF TypeOK
    <2>2. CASE PublishOrStop(Ended(co, FALSE))
      BY <1>2, <2>1, <2>2, EndedShown
    <2>3. CASE ForceStopped(co) /\ ~SettingsConsumed
      <3>1. alive # Tasks
        BY <2>3 DEF SettingsConsumed, Tasks
      <3> QED  BY <1>2, <2>1, <2>3, <3>1 DEF ForceStopped, ShowState, CoordinatorStates, EndedAs
    <2> QED  BY <1>2, <2>2, <2>3 DEF EndCommitted
  <1> QED
    BY <1>1, <1>2

(* An operation for a lock or sleep works on an activation whose boundary  *)
(* is not committed; its control carries the time of that activation; and  *)
(* after the commit nothing asks for another one: the source is committed, *)
(* the answer is waiting, or the coordinator has given up for good.        *)
ActivationInv ==
    /\ op.pc # "idle" /\ op.kind \in Sources =>
          co.source[op.kind].active /\ ~co.source[op.kind].committed
    /\ \A c \in outstanding : c.kind \in Sources =>
          /\ co.source[c.kind].active /\ commits[c.kind] = 0
          /\ c.at = co.source[c.kind].first
    /\ \A s \in Sources : commits[s] # 0 =>
          /\ commits[s] = 1 /\ co.source[s].active
          /\ \/ co.source[s].committed \/ co.writerFault
             \/ op.pc = "ack" /\ op.kind = s /\ ack = "ok"

(* A retried event keeps the time of the first. *)
KeepsFirst ==
    \A s \in Sources : co.source[s].active /\ co'.source[s].active
        => co'.source[s].first = co.source[s].first

(* Steps that leave sources, counts and controls alone. *)
LEMMA SourcesStay ==
    ASSUME ActivationInv, co'.source = co.source, co.writerFault => co'.writerFault,
           UNCHANGED commits, outstanding' \subseteq outstanding,
           op'.pc # "idle" /\ op'.kind \in Sources => op.pc # "idle" /\ op'.kind = op.kind,
           op.pc = "ack" /\ ack = "ok" /\ op.kind \in Sources =>
               co'.writerFault \/ (op'.pc = "ack" /\ ack' = "ok" /\ op'.kind = op.kind)
    PROVE  ActivationInv' /\ KeepsFirst
  BY DEF ActivationInv, KeepsFirst

(* An operation that begins, on a state whose sources are the present ones *)
(* or those with the new activation. *)
LEMMA BegunShape ==
    ASSUME TypeOK, NEW kind, NEW d \in CoordinatorStates, NEW target,
           BeginTransition(kind, d, target)
    PROVE  /\ co'.source = d.source
           /\ co'.writerFault = d.writerFault /\ co'.monitorFault = d.monitorFault
           /\ bounded' = (bounded /\ published' # "Running")
           /\ UNCHANGED <<writerState, outstanding, alive>>
           /\ \/ UNCHANGED op
              \/ CanPublish([d EXCEPT !.transition = TRUE]) /\ op'.pc = "inject" /\ op'.kind = kind
           /\ \/ co'.desired = d.desired /\ co'.fault = d.fault
              \/ alive # Tasks
  <1> DEFINE frozen == [d EXCEPT !.transition = TRUE]
  <1>1. /\ frozen \in CoordinatorStates /\ frozen.source = d.source
        /\ frozen.writerFault = d.writerFault /\ frozen.monitorFault = d.monitorFault
        /\ frozen.desired = d.desired /\ frozen.fault = d.fault
    BY DEF CoordinatorStates
  <1>2. /\ PublishOrStop(frozen) \/ PublishOrStopSuppressed(frozen)
        /\ UNCHANGED <<writerState, outstanding, alive>>
        /\ UNCHANGED op \/ (CanPublish(frozen) /\ op'.pc = "inject" /\ op'.kind = kind)
    BY DEF BeginTransition, taskVars, opVars
  <1> HIDE DEF frozen
  <1>3. /\ co'.source = frozen.source
        /\ co'.writerFault = frozen.writerFault /\ co'.monitorFault = frozen.monitorFault
        /\ bounded' = (bounded /\ published' # "Running")
        /\ \/ co'.desired = frozen.desired /\ co'.fault = frozen.fault
           \/ alive # Tasks
    BY <1>1, <1>2, ShownState
  <1> QED
    BY <1>1, <1>2, <1>3 DEF frozen

LEMMA ActivationStep ==
    ASSUME TypeOK, CoordinatorInv, ActivationInv, [Next]_vars
    PROVE  ActivationInv' /\ KeepsFirst
  <1> DEFINE c == SyncExternal(co)
             Goal == ActivationInv' /\ KeepsFirst
  <1> USE DEF CoordinatorInv
  <1>0. /\ c \in CoordinatorStates /\ c.source = co.source
        /\ co.writerFault => c.writerFault
        /\ c.source \in [Sources -> SourceStates]
    <2>1. c \in CoordinatorStates /\ c.source = co.source
      BY SyncPublishable DEF Publishable
    <2> QED  BY <2>1, SyncPublishable DEF Publishable, GateInv, CoordinatorStates
  <1> HIDE DEF c
  <1>1. ASSUME LockFree, NEW d \in CoordinatorStates, d.source = co.source,
               co.writerFault => d.writerFault,
               KeepUnpublished(d) \/ PublishOrStop(d),
               UNCHANGED <<outstanding, ack, commits, opVars>>
        PROVE  Goal
    BY <1>1, ShownState, SourcesStay DEF LockFree, opVars
  <1>2. ASSUME LockFree, NEW kind \in ClosingCommands \cup {"settings"},
               NEW d \in CoordinatorStates, d.source = co.source,
               co.writerFault => d.writerFault, NEW target,
               BeginTransition(kind, d, target), UNCHANGED commits
        PROVE  Goal
    BY <1>2, BegunShape, SourcesStay DEF LockFree, Sources, ClosingCommands
  <1>3. ASSUME NEW command \in Commands, AnswerCommand(command) PROVE Goal
    BY <1>0, <1>1, <1>3 DEF AnswerCommand, c
  <1>4. ASSUME NEW command \in OpeningCommands, OpenGate(command) PROVE Goal
    <2> DEFINE d == [c EXCEPT !.desired = "Running", !.fault = FALSE]
    <2>1. d \in CoordinatorStates /\ d.source = co.source /\ d.writerFault = c.writerFault
      BY <1>0 DEF CoordinatorStates, CaptureStates
    <2> HIDE DEF d
    <2>2. LockFree /\ PublishOrStop(d) /\ UNCHANGED <<outstanding, ack, commits, opVars>>
      BY <1>4 DEF OpenGate, c, d
    <2> QED  BY <1>0, <1>1, <2>1, <2>2
  <1>5. ASSUME NEW command \in ClosingCommands, BeginClose(command) PROVE Goal
    <2> DEFINE d == [c EXCEPT !.desired = Target(command)]
    <2>1. Target(command) \in CaptureStates
      BY DEF Target, ClosingCommands, OpeningCommands, CaptureStates
    <2>2. d \in CoordinatorStates /\ d.source = co.source /\ d.writerFault = c.writerFault
      BY <1>0, <2>1 DEF CoordinatorStates
    <2> HIDE DEF d
    <2>3. LockFree /\ BeginTransition(command, d, applied) /\ UNCHANGED commits
      BY <1>5 DEF BeginClose, c, d
    <2> QED  BY <1>0, <1>2, <2>2, <2>3
  <1>6. ASSUME NEW target \in Revisions, BeginSettings(target) PROVE Goal
    <2>1. CASE c.writerFault \/ target < applied
      BY <1>0, <1>1, <1>6, <2>1 DEF BeginSettings, c
    <2>2. CASE ~(c.writerFault \/ target < applied)
      <3>1. LockFree /\ BeginTransition("settings", c, target) /\ UNCHANGED commits
        BY <1>6, <2>2 DEF BeginSettings, c
      <3> QED  BY <1>0, <1>2, <3>1
    <2> QED  BY <2>1, <2>2
  <1>7. ASSUME NEW s \in Sources, NEW at \in Times, BeginEnter(s, at) PROVE Goal
    <2> DEFINE fenced == c.writerFault \/ c.monitorFault
                           \/ (c.source[s].active /\ c.source[s].committed)
               d == IF c.source[s].active THEN c ELSE [c EXCEPT !.source[s] = Activated(at)]
    <2>1. CASE fenced
      BY <1>0, <1>1, <1>7, <2>1 DEF BeginEnter, c
    <2>2. CASE ~fenced
      <3>1. LockFree /\ ~co.writerFault /\ ~c.writerFault
        BY <1>0, <1>7, <2>2 DEF BeginEnter
      <3>2. Activated(at) \in SourceStates
        BY DEF Activated, SourceStates
      <3>3. d \in CoordinatorStates
        BY <1>0, <3>2, SourceType
      <3>4. d.source = IF co.source[s].active THEN co.source
                       ELSE [co.source EXCEPT ![s] = Activated(at)]
        BY <1>0 DEF CoordinatorStates
      <3>5. d.source[s].active /\ ~d.source[s].committed
        BY <1>0, <2>2, <3>4 DEF Activated
      <3> HIDE DEF d
      <3>6. BeginTransition(s, d, applied) /\ UNCHANGED commits
        BY <1>7, <2>2 DEF BeginEnter, c, d
      <3>7. /\ co'.source = d.source /\ UNCHANGED outstanding
            /\ UNCHANGED op \/ (op'.pc = "inject" /\ op'.kind = s)
        BY <3>3, <3>6, BegunShape
      <3>8. outstanding = {}
        BY <3>1 DEF LockFree, ControlInv
      <3>9. \A x \in Sources : commits[x] # 0 => co.source[x].active /\ co.source[x].committed
        BY <3>1 DEF ActivationInv, LockFree
      <3>10. \A x \in Sources : co.source[x].active => d.source[x] = co.source[x]
        BY <1>0, <3>4
      <3> QED  BY <3>1, <3>5, <3>6, <3>7, <3>8, <3>9, <3>10
                  DEF ActivationInv, KeepsFirst, LockFree
    <2> QED  BY <2>1, <2>2
  <1>8. ASSUME NEW s \in Sources, Release(s) PROVE Goal
    <2> DEFINE fenced == c.writerFault \/ c.monitorFault \/ ~c.source[s].active
               d == [c EXCEPT !.source[s] = Released(NoTime)]
    <2>1. CASE fenced
      BY <1>0, <1>1, <1>8, <2>1 DEF Release, c
    <2>2. CASE ~fenced
      <3>1. LockFree /\ ~co.writerFault
        BY <1>0, <1>8, <2>2 DEF Release
      <3>2. Released(NoTime) \in SourceStates
        BY DEF Released, SourceStates
      <3>3. d \in CoordinatorStates
        BY <1>0, <3>2, SourceType
      <3>4. d.source = [co.source EXCEPT ![s] = Released(NoTime)]
        BY <1>0 DEF CoordinatorStates
      <3> HIDE DEF d
      <3>5. PublishOrStop(d) /\ UNCHANGED <<outstanding, op>>
            /\ commits' = [commits EXCEPT ![s] = 0]
        BY <1>8, <2>2 DEF Release, c, d, opVars
      <3>6. co'.source = [co.source EXCEPT ![s] = Released(NoTime)]
        BY <3>3, <3>4, <3>5, ShownState
      <3>7. outstanding = {}
        BY <3>1 DEF LockFree, ControlInv
      <3>8. \A x \in Sources : commits[x] # 0 =>
               commits[x] = 1 /\ co.source[x].active /\ co.source[x].committed
        BY <3>1 DEF ActivationInv, LockFree
      <3>9. commits'[s] = 0 /\ \A x \in Sources \ {s} : commits'[x] = commits[x]
        BY <3>5 DEF TypeOK
      <3>10. ~co'.source[s].active
             /\ \A x \in Sources \ {s} : co'.source[x] = co.source[x]
        BY <1>0, <3>6 DEF Released
      <3> QED  BY <3>1, <3>5, <3>7, <3>8, <3>9, <3>10 DEF ActivationInv, KeepsFirst, LockFree
    <2> QED  BY <2>1, <2>2
  <1>9. CASE LatchMonitorFault
    <2>1. co'.source = co.source /\ co'.writerFault = co.writerFault
      BY <1>9 DEF LatchMonitorFault, ShowState, TypeOK, CoordinatorStates
    <2> QED  BY <1>9, <2>1, SourcesStay DEF LatchMonitorFault, opVars
  <1>10. CASE Injected
    <2>1. UNCHANGED <<co, commits, outstanding, ack>> /\ op.pc = "inject" /\ op'.kind = op.kind
      BY <1>10 DEF Injected, gateVars, writerVars, TypeOK, Operations, NoOp
    <2> QED  BY <2>1, SourcesStay
  <1>11. CASE InjectFailed \/ ControlNotQueued \/ AckRefused
    <2>1. /\ op.kind \in OpKinds
          /\ EndUncommitted(op.kind) \/ EndRefused(op.kind)
          /\ op' = NoOp /\ UNCHANGED <<outstanding, ack, commits>>
          /\ ~(op.pc = "ack" /\ ack = "ok")
      BY <1>11 DEF InjectFailed, ControlNotQueued, AckRefused, Finish, TypeOK, Operations, NoOp
    <2>2. co'.source = co.source /\ (co.writerFault => co'.writerFault)
      BY <2>1, UncommittedShape DEF EndedAs
    <2> QED  BY <2>1, <2>2, SourcesStay DEF NoOp
  <1>12. CASE SendControl
    <2>1. /\ op.pc = "control" /\ op'.pc = "ack" /\ op'.kind = op.kind
          /\ UNCHANGED <<co, commits, ack>>
      BY <1>12 DEF SendControl, gateVars, TypeOK, Operations, NoOp
    <2>2. outstanding = {} /\ ack = "none" /\ ~co.writerFault
      BY <2>1 DEF ControlInv
    <2>3. \A x \in outstanding' : /\ x.kind = op.kind
                                  /\ op.kind \in Sources => x.at = co.source[op.kind].first
      BY <1>12, <2>2 DEF SendControl
    <2>4. op.kind \in Sources => co.source[op.kind].active /\ commits[op.kind] = 0
      BY <2>1, <2>2 DEF ActivationInv
    <2> QED  BY <2>1, <2>2, <2>3, <2>4 DEF ActivationInv, KeepsFirst
  <1>13. CASE AckCommitted
    <2>1. /\ op.pc = "ack" /\ ack = "ok" /\ op.kind \in OpKinds /\ EndCommitted(op.kind)
          /\ op' = NoOp /\ UNCHANGED <<outstanding, ack, commits>>
      BY <1>13 DEF AckCommitted, Finish, TypeOK, Operations, NoOp
    <2>2. outstanding = {} /\ ~co.writerFault
      BY <2>1 DEF ControlInv
    <2>3. CASE op.kind \in Sources
      <3>1. co'.source = [co.source EXCEPT ![op.kind].committed = TRUE]
        BY <2>1, <2>3, CommittedShape, MarkedState DEF EndedAs
      <3>2. /\ co'.source[op.kind].committed
            /\ co'.source[op.kind].active = co.source[op.kind].active
            /\ co'.source[op.kind].first = co.source[op.kind].first
            /\ \A x \in Sources \ {op.kind} : co'.source[x] = co.source[x]
        BY <1>0, <2>3, <3>1 DEF SourceStates
      <3> QED  BY <2>1, <2>2, <2>3, <3>2 DEF ActivationInv, KeepsFirst, NoOp
    <2>4. CASE op.kind \notin Sources
      <3>1. co'.source = co.source /\ (co.writerFault => co'.writerFault)
        BY <2>1, <2>4, CommittedShape DEF EndedAs
      <3> QED  BY <2>1, <2>4, <3>1, SourcesStay DEF NoOp
    <2> QED  BY <2>3, <2>4
  <1>14. CASE AckUnknown \/ (Cancel /\ op.pc = "ack") \/ \E t \in Tasks : ReportExit(t)
    <2>1. /\ LatchWriterFault /\ UNCHANGED <<outstanding, ack, commits>>
          /\ op' = NoOp \/ UNCHANGED op
      BY <1>14 DEF AckUnknown, Cancel, ReportExit, Finish, opVars
    <2>2. co'.source = co.source /\ co'.writerFault
      BY <2>1 DEF LatchWriterFault, ShowState, TypeOK, CoordinatorStates
    <2> QED  BY <2>1, <2>2, SourcesStay DEF NoOp
  <1>15. CASE Cancel /\ op.pc # "ack"
    <2>1. op' = NoOp /\ UNCHANGED <<co, outstanding, ack, commits>>
      BY <1>15 DEF Cancel, Finish, gateVars
    <2> QED  BY <1>15, <2>1, SourcesStay DEF NoOp
  <1>16. CASE \/ \E t \in Tasks : TaskExits(t)
              \/ WriterFails \/ WriterRetries \/ UNCHANGED vars
    <2>1. UNCHANGED <<co, op, ack, commits>> /\ outstanding' \subseteq outstanding
      BY <1>16 DEF TaskExits, WriterFails, WriterRetries, MarkFatal, vars, gateVars, writerVars,
                   opVars
    <2> QED  BY <2>1, SourcesStay
  <1>17. ASSUME NEW x \in outstanding, WriterRefuses(x) \/ WriterBreaks(x) PROVE Goal
    <2>1. /\ UNCHANGED <<co, op, commits>> /\ outstanding' \subseteq outstanding
      BY <1>17 DEF WriterRefuses, WriterBreaks, Answered, MarkFatal, gateVars, opVars
    <2>2. ~(op.pc = "ack" /\ ack = "ok")
      BY <1>17 DEF ControlInv
    <2> QED  BY <2>1, <2>2, SourcesStay
  <1>18. ASSUME NEW x \in outstanding, WriterCommits(x) PROVE Goal
    <2>1. /\ UNCHANGED <<co, op>> /\ outstanding' = outstanding \ {x}
          /\ ack' = IF op.pc = "ack" /\ op.id = x.id THEN "ok" ELSE ack
          /\ commits' = IF x.kind \in Sources
                        THEN [commits EXCEPT ![x.kind] = IF @ < 2 THEN @ + 1 ELSE @]
                        ELSE commits
      BY <1>18 DEF WriterCommits, Answered, gateVars, opVars
    <2>2. outstanding' = {}
      BY <2>1 DEF ControlInv, OneControlAtATime
    <2>3. co.writerFault \/ (op.pc = "ack" /\ op.kind = x.kind /\ ack' = "ok")
      BY <2>1 DEF ControlInv
    <2>4. CASE x.kind \in Sources
      <3>1. commits[x.kind] = 0 /\ co.source[x.kind].active
        BY <2>4 DEF ActivationInv
      <3>2. commits'[x.kind] = 1 /\ \A s \in Sources \ {x.kind} : commits'[s] = commits[s]
        BY <2>1, <2>4, <3>1 DEF TypeOK
      <3> QED  BY <2>1, <2>2, <2>3, <3>1, <3>2 DEF ActivationInv, KeepsFirst
    <2>5. CASE x.kind \notin Sources
      BY <2>1, <2>2, <2>3, <2>5 DEF ActivationInv, KeepsFirst
    <2> QED  BY <2>4, <2>5
  <1> QED
    BY <1>3, <1>4, <1>5, <1>6, <1>7, <1>8, <1>9, <1>10, <1>11, <1>12, <1>13, <1>14, <1>15, <1>16,
       <1>17, <1>18
       DEF Next, Caller, Operation, Environment, Supervisor

LEMMA ActivationInvHolds == Spec => [](TypeOK /\ CoordinatorInv /\ ActivationInv)
  <1>1. Init => ActivationInv
    <2> SUFFICES ASSUME Init PROVE ActivationInv
      OBVIOUS
    <2>1. /\ op.pc = "idle" /\ outstanding = {} /\ commits = [s \in Sources |-> 0]
      BY DEF Init, NoOp
    <2> QED  BY <2>1 DEF ActivationInv
  <1>2. TypeOK /\ CoordinatorInv /\ ActivationInv /\ [Next]_vars => ActivationInv'
    BY ActivationStep
  <1> QED
    BY <1>1, <1>2, TypeInvariant, CoordinatorInvariant, PTL DEF Spec

(* One lock or sleep has one boundary, at the time it began: it is         *)
(* committed at most once however often the event is retried, a retry      *)
(* never postpones the time, and the control carries that time.            *)
THEOREM OneBoundary == Spec => OneBoundaryPerActivation
  <1>1. TypeOK /\ ActivationInv =>
          /\ \A s \in Sources : commits[s] <= 1
          /\ \A c \in outstanding : c.kind \in Sources /\ op.id = c.id /\ op.pc = "ack"
                => c.at = co.source[c.kind].first
    <2> SUFFICES ASSUME TypeOK, ActivationInv
                 PROVE  /\ \A s \in Sources : commits[s] <= 1
                        /\ \A c \in outstanding : c.kind \in Sources
                              => c.at = co.source[c.kind].first
      OBVIOUS
    <2>1. ASSUME NEW s \in Sources PROVE commits[s] = 0 \/ commits[s] = 1
      BY DEF ActivationInv
    <2>2. \A s \in Sources : commits[s] <= 1
      BY <2>1
    <2> QED  BY <2>2 DEF ActivationInv
  <1>2. TypeOK /\ CoordinatorInv /\ ActivationInv /\ [Next]_vars
          => [\A s \in Sources : co.source[s].active /\ co'.source[s].active
                 => co'.source[s].first = co.source[s].first]_vars
    BY ActivationStep DEF KeepsFirst
  <1> QED
    BY <1>1, <1>2, ActivationInvHolds, PTL DEF Spec, OneBoundaryPerActivation

-----------------------------------------------------------------------------
(* A quiet gate has its boundary in the engine.                            *)

(* An answered operation that needed a boundary has it, and so has every   *)
(* wish not to record that no fault or dead task explains. *)
Explained ==
    \/ op.kind \in ClosingCommands \/ co.desired = "Running"
    \/ co.fault \/ co.monitorFault \/ writerState = "Faulted" \/ alive # Tasks
RecordedInv ==
    /\ Explained \/ bounded
    /\ \A s \in Sources : co.source[s].active /\ co.source[s].committed => bounded
    /\ op.pc = "ack" /\ ack = "ok" /\ op.kind # "settings" => bounded

(* Steps that publish a state of the same wish, or fall back. *)
LEMMA RecordedStays ==
    ASSUME TypeOK, CoordinatorInv, CoordinatorInv', RecordedInv,
           bounded' = (bounded /\ published' # "Running"),
           alive' \subseteq alive, writerState = "Faulted" => writerState' = "Faulted",
           co.monitorFault => co'.monitorFault,
           \/ writerState' = "Faulted" \/ alive' # Tasks
           \/ /\ co'.desired = co.desired /\ (co.fault => co'.fault)
              /\ op.kind \in ClosingCommands => op'.kind = op.kind \/ bounded \/ co'.fault
           \/ co'.desired = "Running" \/ op'.kind \in ClosingCommands,
           \A s \in Sources : co'.source[s].active /\ co'.source[s].committed =>
               (co.source[s].active /\ co.source[s].committed) \/ bounded,
           op'.pc = "ack" /\ ack' = "ok" /\ op'.kind # "settings" =>
               op.pc = "ack" /\ ack = "ok" /\ op.kind # "settings"
    PROVE  RecordedInv'
  <1>1. published' = "Running" =>
          /\ co'.desired = "Running" /\ op'.pc = "idle"
          /\ \A s \in Sources : ~co'.source[s].active
    BY DEF CoordinatorInv, GateInv, GateOpen
  <1>2. alive # Tasks => alive' # Tasks
    BY DEF TypeOK
  <1>3. Explained' \/ bounded'
    BY <1>1, <1>2 DEF RecordedInv, Explained
  <1>4. \A s \in Sources : co'.source[s].active /\ co'.source[s].committed => bounded'
    BY <1>1 DEF RecordedInv
  <1>5. op'.pc = "ack" /\ ack' = "ok" /\ op'.kind # "settings" => bounded'
    BY <1>1 DEF RecordedInv
  <1> QED
    BY <1>3, <1>4, <1>5 DEF RecordedInv

(* The same for a step of a caller, on the synchronised state: it keeps    *)
(* the wish or asks for Running, or closes by an operation of its own. *)
LEMMA RecordedCall ==
    ASSUME TypeOK, CoordinatorInv, CoordinatorInv', RecordedInv, LockFree,
           co'.source = co.source \/
              \A s \in Sources : co'.source[s].active /\ co'.source[s].committed =>
                  co.source[s].active /\ co.source[s].committed,
           co.monitorFault => co'.monitorFault,
           bounded' = (bounded /\ published' # "Running"),
           UNCHANGED <<alive, writerState>>,
           UNCHANGED op \/ op'.pc = "inject",
           \/ writerState = "Faulted" \/ alive # Tasks
           \/ co'.desired = co.desired /\ (co.fault => co'.fault)
           \/ co'.desired = "Running" \/ op'.kind \in ClosingCommands
    PROVE  RecordedInv'
  <1>1. op.kind \notin ClosingCommands
    BY DEF LockFree, TypeOK, Operations, NoOp, ClosingCommands
  <1>2. ~(op'.pc = "ack")
    BY DEF LockFree
  <1> QED
    BY <1>1, <1>2, RecordedStays

LEMMA RecordedStep ==
    ASSUME TypeOK, CoordinatorInv, CoordinatorInv', RecordedInv, [Next]_vars
    PROVE  RecordedInv'
  <1> DEFINE c == SyncExternal(co)
  <1>0. /\ c \in CoordinatorStates /\ c.source = co.source /\ c.monitorFault = co.monitorFault
        /\ c.source \in [Sources -> SourceStates]
        /\ writerState # "Faulted" => c = co
    <2>1. c \in CoordinatorStates /\ c.source = co.source /\ c.monitorFault = co.monitorFault
          /\ (writerState # "Faulted" => c = co)
      BY SyncPublishable DEF Publishable, CoordinatorInv
    <2> QED  BY <2>1 DEF CoordinatorStates
  <1> HIDE DEF c
  <1>1. ASSUME LockFree, NEW d \in CoordinatorStates,
               \A s \in Sources : d.source[s].active /\ d.source[s].committed =>
                   co.source[s].active /\ co.source[s].committed,
               d.monitorFault = co.monitorFault,
               KeepUnpublished(d) \/ PublishOrStop(d),
               d.desired = "Running" \/ writerState = "Faulted"
                 \/ (d.desired = co.desired /\ d.fault = co.fault),
               UNCHANGED <<alive, writerState, op>>
        PROVE  RecordedInv'
    BY <1>1, ShownState, RecordedCall
  <1>2. ASSUME LockFree, NEW kind, NEW target, NEW d \in CoordinatorStates,
               \A s \in Sources : d.source[s].active /\ d.source[s].committed =>
                   co.source[s].active /\ co.source[s].committed,
               d.monitorFault = co.monitorFault,
               writerState = "Faulted" \/ kind \in ClosingCommands
                 \/ (d.desired = co.desired /\ d.fault = co.fault),
               BeginTransition(kind, d, target)
        PROVE  RecordedInv'
    <2>1. /\ co'.source = d.source /\ co'.monitorFault = d.monitorFault
          /\ bounded' = (bounded /\ published' # "Running")
          /\ UNCHANGED <<writerState, alive>>
          /\ \/ UNCHANGED op
             \/ CanPublish([d EXCEPT !.transition = TRUE]) /\ op'.pc = "inject" /\ op'.kind = kind
          /\ \/ co'.desired = d.desired /\ co'.fault = d.fault
             \/ alive # Tasks
      BY <1>2, BegunShape
    <2>2. UNCHANGED op => alive # Tasks
      <3> DEFINE frozen == [d EXCEPT !.transition = TRUE]
      <3>1. CanPublish(frozen) => op'.pc = "inject"
        BY <1>2 DEF BeginTransition
      <3>2. ~CanPublish(frozen) => alive # Tasks
        BY DEF CanPublish, Tasks
      <3> QED  BY <1>2, <3>1, <3>2 DEF LockFree
    <2> QED  BY <1>2, <2>1, <2>2, RecordedCall
  <1>3. ASSUME NEW command \in Commands, AnswerCommand(command) PROVE RecordedInv'
    <2>1. LockFree /\ KeepUnpublished(c) /\ UNCHANGED <<alive, writerState, op>>
      BY <1>3 DEF AnswerCommand, c, taskVars, opVars
    <2> QED  BY <1>0, <1>1, <2>1
  <1>4. ASSUME NEW command \in OpeningCommands, OpenGate(command) PROVE RecordedInv'
    <2> DEFINE d == [c EXCEPT !.desired = "Running", !.fault = FALSE]
    <2>1. d \in CoordinatorStates /\ d.source = co.source /\ d.monitorFault = c.monitorFault
          /\ d.desired = "Running"
      BY <1>0 DEF CoordinatorStates, CaptureStates
    <2> HIDE DEF d
    <2>2. LockFree /\ PublishOrStop(d) /\ UNCHANGED <<alive, writerState, op>>
      BY <1>4 DEF OpenGate, c, d, taskVars, opVars
    <2> QED  BY <1>0, <1>1, <2>1, <2>2
  <1>5. ASSUME NEW command \in ClosingCommands, BeginClose(command) PROVE RecordedInv'
    <2> DEFINE d == [c EXCEPT !.desired = Target(command)]
    <2>1. Target(command) \in CaptureStates
      BY DEF Target, ClosingCommands, OpeningCommands, CaptureStates
    <2>2. d \in CoordinatorStates /\ d.source = co.source /\ d.monitorFault = c.monitorFault
      BY <1>0, <2>1 DEF CoordinatorStates
    <2> HIDE DEF d
    <2>3. LockFree /\ BeginTransition(command, d, applied)
      BY <1>5 DEF BeginClose, c, d
    <2> QED  BY <1>0, <1>2, <2>2, <2>3
  <1>6. ASSUME NEW target \in Revisions, BeginSettings(target) PROVE RecordedInv'
    <2>1. CASE c.writerFault \/ target < applied
      <3>1. LockFree /\ KeepUnpublished(c) /\ UNCHANGED <<alive, writerState, op>>
        BY <1>6, <2>1 DEF BeginSettings, c, taskVars, opVars
      <3> QED  BY <1>0, <1>1, <3>1
    <2>2. CASE ~(c.writerFault \/ target < applied)
      <3>1. LockFree /\ BeginTransition("settings", c, target)
        BY <1>6, <2>2 DEF BeginSettings, c
      <3> QED  BY <1>0, <1>2, <3>1
    <2> QED  BY <2>1, <2>2
  <1>7. ASSUME NEW s \in Sources, NEW at \in Times, BeginEnter(s, at) PROVE RecordedInv'
    <2> DEFINE fenced == c.writerFault \/ c.monitorFault
                           \/ (c.source[s].active /\ c.source[s].committed)
               d == IF c.source[s].active THEN c ELSE [c EXCEPT !.source[s] = Activated(at)]
    <2>1. CASE fenced
      <3>1. LockFree /\ KeepUnpublished(c) /\ UNCHANGED <<alive, writerState, op>>
        BY <1>7, <2>1 DEF BeginEnter, c, taskVars, opVars
      <3> QED  BY <1>0, <1>1, <3>1
    <2>2. CASE ~fenced
      <3>1. Activated(at) \in SourceStates
        BY DEF Activated, SourceStates
      <3>2. d \in CoordinatorStates
        BY <1>0, <3>1, SourceType
      <3>3. /\ d.source = IF co.source[s].active THEN co.source
                          ELSE [co.source EXCEPT ![s] = Activated(at)]
            /\ d.monitorFault = c.monitorFault /\ d.desired = c.desired /\ d.fault = c.fault
        BY <1>0 DEF CoordinatorStates
      <3>4. \A x \in Sources : d.source[x].active /\ d.source[x].committed =>
               co.source[x].active /\ co.source[x].committed
        BY <1>0, <3>3 DEF Activated
      <3> HIDE DEF d
      <3>5. LockFree /\ BeginTransition(s, d, applied)
        BY <1>7, <2>2 DEF BeginEnter, c, d
      <3> QED  BY <1>0, <1>2, <3>2, <3>3, <3>4, <3>5
    <2> QED  BY <2>1, <2>2
  <1>8. ASSUME NEW s \in Sources, Release(s) PROVE RecordedInv'
    <2> DEFINE fenced == c.writerFault \/ c.monitorFault \/ ~c.source[s].active
               d == [c EXCEPT !.source[s] = Released(NoTime)]
    <2>1. CASE fenced
      <3>1. LockFree /\ KeepUnpublished(c) /\ UNCHANGED <<alive, writerState, op>>
        BY <1>8, <2>1 DEF Release, c, taskVars, opVars
      <3> QED  BY <1>0, <1>1, <3>1
    <2>2. CASE ~fenced
      <3>1. Released(NoTime) \in SourceStates
        BY DEF Released, SourceStates
      <3>2. d \in CoordinatorStates
        BY <1>0, <3>1, SourceType
      <3>3. /\ d.source = [co.source EXCEPT ![s] = Released(NoTime)]
            /\ d.monitorFault = c.monitorFault /\ d.desired = c.desired /\ d.fault = c.fault
        BY <1>0 DEF CoordinatorStates
      <3>4. \A x \in Sources : d.source[x].active /\ d.source[x].committed =>
               co.source[x].active /\ co.source[x].committed
        BY <1>0, <3>3 DEF Released
      <3> HIDE DEF d
      <3>5. LockFree /\ PublishOrStop(d) /\ UNCHANGED <<alive, writerState, op>>
        BY <1>8, <2>2 DEF Release, c, d, taskVars, opVars
      <3> QED  BY <1>0, <1>1, <3>2, <3>3, <3>4, <3>5
    <2> QED  BY <2>1, <2>2
  <1>9. CASE LatchMonitorFault
    <2>1. /\ co'.source = co.source /\ co'.monitorFault
          /\ bounded' = bounded /\ published' = "Stopped"
          /\ UNCHANGED <<alive, writerState, op, ack>>
      BY <1>9 DEF LatchMonitorFault, ShowState, TypeOK, CoordinatorStates, taskVars, opVars
    <2> QED  BY <2>1 DEF RecordedInv, Explained
  <1>10. CASE Injected
    <2>1. /\ UNCHANGED <<co, published, bounded, alive, writerState, ack>>
          /\ op'.pc = "control" /\ op'.kind = op.kind
      BY <1>10 DEF Injected, gateVars, writerVars, taskVars, TypeOK, Operations, NoOp
    <2> QED  BY <2>1 DEF RecordedInv, Explained
  <1>11. CASE InjectFailed \/ ControlNotQueued \/ AckRefused
    <2>1. /\ op.kind \in OpKinds
          /\ EndUncommitted(op.kind) \/ EndRefused(op.kind)
          /\ op' = NoOp /\ UNCHANGED <<alive, writerState>>
      BY <1>11 DEF InjectFailed, ControlNotQueued, AckRefused, Finish, TypeOK, Operations, NoOp,
                   taskVars
    <2>2. /\ EndedAs(co)
          /\ writerState # "Faulted" /\ alive = Tasks /\ op.kind \in ClosingCommands
               => co'.fault
      BY <2>1, UncommittedShape DEF CoordinatorInv
    <2> QED  BY <2>1, <2>2, RecordedStays DEF EndedAs, NoOp
  <1>12. CASE SendControl
    <2>1. /\ UNCHANGED <<co, published, bounded, alive, writerState, ack>>
          /\ op.pc = "control" /\ op'.kind = op.kind
      BY <1>12 DEF SendControl, gateVars, taskVars, TypeOK, Operations, NoOp
    <2>2. ack = "none"
      BY <2>1 DEF CoordinatorInv, ControlInv
    <2> QED  BY <2>1, <2>2 DEF RecordedInv, Explained
  <1>13. CASE AckCommitted
    <2>1. /\ op.pc = "ack" /\ ack = "ok" /\ op.kind \in OpKinds /\ EndCommitted(op.kind)
          /\ op' = NoOp /\ UNCHANGED <<alive, writerState>>
      BY <1>13 DEF AckCommitted, Finish, TypeOK, Operations, NoOp, taskVars
    <2>2. EndedAs(IF op.kind \in Sources THEN Marked ELSE co)
      BY <2>1, CommittedShape DEF CoordinatorInv
    <2>3. op.kind # "settings" => bounded
      BY <2>1 DEF RecordedInv
    <2>4. \A s \in Sources : co'.source[s].active /\ co'.source[s].committed =>
             (co.source[s].active /\ co.source[s].committed) \/ bounded
      BY <2>2, <2>3 DEF EndedAs, Sources
    <2>5. /\ co.monitorFault => co'.monitorFault
          /\ bounded' = (bounded /\ published' # "Running")
          /\ writerState # "Faulted" /\ alive = Tasks =>
               co'.desired = co.desired /\ (co.fault => co'.fault)
      BY <2>2 DEF EndedAs
    <2> QED  BY <2>1, <2>3, <2>4, <2>5, RecordedStays DEF NoOp, ClosingCommands
  <1>14. CASE AckUnknown \/ (Cancel /\ op.pc = "ack") \/ \E t \in Tasks : ReportExit(t)
    <2>1. LatchWriterFault /\ op'.pc = "idle"
      BY <1>14 DEF AckUnknown, Cancel, ReportExit, Finish, opVars, NoOp, LockFree
    <2>2. co'.source = co.source /\ writerState' = "Faulted" /\ bounded' = bounded
      BY <2>1 DEF LatchWriterFault, ShowState, TypeOK, CoordinatorStates
    <2> QED  BY <2>1, <2>2 DEF RecordedInv, Explained
  <1>15. CASE Cancel /\ op.pc # "ack"
    <2>1. /\ op' = NoOp /\ op.kind \in Sources
          /\ UNCHANGED <<co, bounded, alive, writerState>>
      BY <1>15 DEF Cancel, Finish, gateVars, taskVars
    <2> QED  BY <2>1 DEF RecordedInv, Explained, NoOp, Sources, ClosingCommands
  <1>16. CASE \/ \E t \in Tasks : TaskExits(t)
              \/ WriterFails \/ WriterRetries \/ UNCHANGED vars
    <2>1. UNCHANGED <<co, op, ack, bounded>>
      BY <1>16 DEF TaskExits, WriterFails, WriterRetries, MarkFatal, vars, gateVars, writerVars,
                   opVars
    <2>2. /\ writerState = "Faulted" => writerState' = "Faulted"
          /\ alive # Tasks => alive' # Tasks
      BY <1>16 DEF TaskExits, WriterFails, WriterRetries, MarkFatal, vars, writerVars, taskVars,
                   TypeOK
    <2> QED  BY <2>1, <2>2 DEF RecordedInv, Explained
  <1>17. ASSUME NEW x \in outstanding, WriterRefuses(x) \/ WriterBreaks(x) PROVE RecordedInv'
    <2>1. /\ UNCHANGED <<co, op, bounded, alive>>
          /\ writerState = "Faulted" => writerState' = "Faulted"
          /\ ack' = "ok" => ack = "ok"
      BY <1>17 DEF WriterRefuses, WriterBreaks, Answered, MarkFatal, gateVars, taskVars, opVars
    <2> QED  BY <2>1 DEF RecordedInv, Explained
  <1>18. ASSUME NEW x \in outstanding, WriterCommits(x) PROVE RecordedInv'
    <2>1. /\ UNCHANGED <<co, op, alive, writerState>>
          /\ bounded' = (bounded \/ x.kind # "settings")
      BY <1>18 DEF WriterCommits, gateVars, taskVars, opVars
    <2>2. op.pc = "ack" => x.kind = op.kind
      BY DEF CoordinatorInv, ControlInv
    <2> QED  BY <2>1, <2>2 DEF RecordedInv, Explained, TypeOK
  <1> QED
    BY <1>3, <1>4, <1>5, <1>6, <1>7, <1>8, <1>9, <1>10, <1>11, <1>12, <1>13, <1>14, <1>15, <1>16,
       <1>17, <1>18
       DEF Next, Caller, Operation, Environment, Supervisor

LEMMA RecordedInvHolds == Spec => []RecordedInv
  <1>1. Init => RecordedInv
    <2> SUFFICES ASSUME Init PROVE RecordedInv
      OBVIOUS
    <2>1. /\ op.pc = "idle" /\ bounded = (published = "Stopped") /\ co.desired = published
          /\ published \in {"Stopped", "Running"}
          /\ co.source = [s \in Sources |-> Released(NoTime)]
      BY DEF Init, NoOp
    <2>2. \A s \in Sources : ~co.source[s].active
      BY <2>1 DEF Released
    <2> QED  BY <2>1, <2>2 DEF RecordedInv, Explained
  <1>2. TypeOK /\ CoordinatorInv /\ CoordinatorInv' /\ RecordedInv /\ [Next]_vars => RecordedInv'
    BY RecordedStep
  <1> QED
    BY <1>1, <1>2, TypeInvariant, CoordinatorInvariant, PTL DEF Spec

(* A quiet gate is explained by a committed gap: a pause or stop that is   *)
(* neither under way nor reported as failed, and a lock or sleep whose     *)
(* boundary counts as committed, have their boundary in the engine - even  *)
(* if the user has asked for the pause, given up waiting and asked again.  *)
THEOREM QuietCloseRecorded == Spec => []QuietCloseIsRecorded
  <1>1. RecordedInv => QuietCloseIsRecorded
    BY DEF RecordedInv, Explained, QuietCloseIsRecorded
  <1> QED
    BY <1>1, RecordedInvHolds, PTL

-----------------------------------------------------------------------------
(* An idle gate shows what the state asks for.                             *)

(* While the Writer and the capture task live the published state is the   *)
(* effective one, also during an operation; and a free lock has no freeze  *)
(* of a transition behind it, unless a lock or sleep was aborted.          *)
SettledInv ==
    /\ writerState # "Faulted" /\ "capture" \in alive => published = Effective(co)
    /\ LockFree => AllowCancel \/ ~co.transition

(* What is published is what the new state asks for, or the publication    *)
(* fell back to a stop. *)
LEMMA ShownEffective ==
    ASSUME TypeOK, NEW d \in CoordinatorStates, "capture" \in alive,
           PublishOrStop(d) \/ PublishOrStopSuppressed(d)
             \/ (PublishOrKeep(d) /\ ~GateOpen(d))
    PROVE  published' = Effective(co')
  <1>1. CASE Publish(d)
    <2>1. /\ co' = [d EXCEPT !.lastPublished = Effective(d)] /\ published' = Effective(d)
      BY <1>1 DEF Publish, ShowState
    <2>2. Effective(co') = Effective(d)
      BY <2>1 DEF CoordinatorStates, Effective, GateOpen
    <2> QED  BY <2>1, <2>2
  <1>2. CASE ForceStopped(d) \/ ForceStoppedKeepSuppression(d)
    <2>1. co'.desired = "Stopped" /\ published' = "Stopped"
      BY <1>2 DEF ForceStopped, ForceStoppedKeepSuppression, ShowState, CoordinatorStates
    <2> QED  BY <2>1 DEF Effective, GateOpen
  <1>3. ~GateOpen(d) => CanPublish(d)
    BY EffectiveType DEF CanPublish
  <1> QED
    BY <1>1, <1>2, <1>3 DEF PublishOrStop, PublishOrStopSuppressed, PublishOrKeep

(* However an operation ends, the gate shows the state it ends in. *)
LEMMA EndEffective ==
    ASSUME TypeOK, GateInv, op.kind \in OpKinds, "capture" \in alive,
           writerState # "Faulted", op.kind \in Sources => co.source[op.kind].active,
           op.kind \in ClosingCommands => co.desired # "Running",
           EndUncommitted(op.kind) \/ EndRefused(op.kind) \/ EndCommitted(op.kind)
    PROVE  published' = Effective(co')
  <1> USE DEF TypeOK
  <1>1. /\ Ended(co, FALSE) \in CoordinatorStates /\ Ended(co, TRUE) \in CoordinatorStates
        /\ Ended(co, FALSE).source = co.source /\ Ended(co, TRUE).source = co.source
        /\ Ended(co, FALSE).desired = co.desired /\ Ended(co, TRUE).desired = co.desired
    BY EndedState
  <1>2. op.kind \in Sources => ~GateOpen(Ended(co, FALSE))
    BY <1>1 DEF GateOpen
  <1>3. op.kind \in ClosingCommands => ~GateOpen(Ended(co, TRUE))
    BY <1>1 DEF GateOpen
  <1>4. CASE EndUncommitted(op.kind)
    BY <1>1, <1>3, <1>4, ShownEffective DEF EndUncommitted
  <1>5. CASE EndRefused(op.kind)
    BY <1>1, <1>2, <1>4, <1>5, ShownEffective DEF EndRefused
  <1>6. CASE EndCommitted(op.kind)
    <2>1. CASE op.kind \in Sources
      <3>1. PublishOrStopSuppressed(Ended(Marked, FALSE))
        BY <1>6, <2>1 DEF EndCommitted, Sources, ClosingCommands, Marked
      <3>2. Ended(Marked, FALSE) \in CoordinatorStates
        BY <2>1, MarkedState, EndedType
      <3> QED  BY <3>1, <3>2, ShownEffective
    <2>2. CASE PublishOrStop(Ended(co, FALSE))
      BY <1>1, <2>2, ShownEffective
    <2>3. CASE ForceStopped(co)
      <3>1. co'.desired = "Stopped" /\ published' = "Stopped"
        BY <2>3 DEF ForceStopped, ShowState, CoordinatorStates
      <3> QED  BY <3>1 DEF Effective, GateOpen
    <2> QED  BY <1>6, <2>1, <2>2, <2>3 DEF EndCommitted
  <1> QED
    BY <1>4, <1>5, <1>6

LEMMA SettledStep ==
    ASSUME TypeOK, CoordinatorInv, ActivationInv, SettledInv, [Next]_vars
    PROVE  SettledInv'
  <1> DEFINE c == SyncExternal(co)
             Settles == writerState # "Faulted" /\ "capture" \in alive => published = Effective(co)
  <1> USE DEF CoordinatorInv
  <1>0. /\ c \in CoordinatorStates /\ c.source = co.source
        /\ writerState # "Faulted" => c = co
        /\ c.transition = co.transition
    <2>1. c \in CoordinatorStates /\ c.source = co.source
          /\ (writerState # "Faulted" => c = co)
      BY SyncPublishable DEF Publishable
    <2>2. c.transition = co.transition
      BY DEF SyncExternal, TypeOK, CoordinatorStates
    <2> QED  BY <2>1, <2>2
  <1> HIDE DEF c
  <1>1. ASSUME LockFree, KeepUnpublished(c), UNCHANGED <<op, alive, writerState>>
        PROVE  SettledInv'
    BY <1>0, <1>1 DEF KeepUnpublished, ShowState, SettledInv, LockFree
  <1>2. ASSUME LockFree, NEW d \in CoordinatorStates, PublishOrStop(d),
               d.transition = co.transition, UNCHANGED <<op, alive, writerState>>
        PROVE  SettledInv'
    <2>1. co'.transition = d.transition \/ ~co'.transition
      BY <1>2, ShownState
    <2> QED  BY <1>2, <2>1, ShownEffective DEF SettledInv, LockFree
  <1>3. ASSUME LockFree, NEW kind, NEW target, NEW d \in CoordinatorStates,
               BeginTransition(kind, d, target)
        PROVE  SettledInv'
    <2> DEFINE frozen == [d EXCEPT !.transition = TRUE]
    <2>1. /\ frozen \in CoordinatorStates
          /\ PublishOrStop(frozen) \/ PublishOrStopSuppressed(frozen)
          /\ UNCHANGED <<alive, writerState>>
          /\ CanPublish(frozen) => op'.pc = "inject"
      <3>1. frozen \in CoordinatorStates
        BY DEF CoordinatorStates
      <3> QED  BY <1>3, <3>1 DEF BeginTransition, taskVars
    <2> HIDE DEF frozen
    <2>2. ~CanPublish(frozen) => ~co'.transition
      BY <2>1 DEF PublishOrStop, PublishOrStopSuppressed, ForceStopped,
                  ForceStoppedKeepSuppression, ShowState, CoordinatorStates
    <2> QED  BY <2>1, <2>2, ShownEffective DEF SettledInv, LockFree
  <1>4. ASSUME NEW command \in Commands, AnswerCommand(command) PROVE SettledInv'
    BY <1>1, <1>4 DEF AnswerCommand, c, taskVars, opVars
  <1>5. ASSUME NEW command \in OpeningCommands, OpenGate(command) PROVE SettledInv'
    <2> DEFINE d == [c EXCEPT !.desired = "Running", !.fault = FALSE]
    <2>1. d \in CoordinatorStates /\ d.transition = c.transition
      BY <1>0 DEF CoordinatorStates, CaptureStates
    <2> HIDE DEF d
    <2>2. LockFree /\ PublishOrStop(d) /\ UNCHANGED <<op, alive, writerState>>
      BY <1>5 DEF OpenGate, c, d, taskVars, opVars
    <2> QED  BY <1>0, <1>2, <2>1, <2>2
  <1>6. ASSUME NEW command \in ClosingCommands, BeginClose(command) PROVE SettledInv'
    <2> DEFINE d == [c EXCEPT !.desired = Target(command)]
    <2>1. Target(command) \in CaptureStates
      BY DEF Target, ClosingCommands, OpeningCommands, CaptureStates
    <2>2. d \in CoordinatorStates
      BY <1>0, <2>1 DEF CoordinatorStates
    <2> HIDE DEF d
    <2>3. LockFree /\ BeginTransition(command, d, applied)
      BY <1>6 DEF BeginClose, c, d
    <2> QED  BY <1>3, <2>2, <2>3
  <1>7. ASSUME NEW target \in Revisions, BeginSettings(target) PROVE SettledInv'
    <2>1. CASE c.writerFault \/ target < applied
      BY <1>1, <1>7, <2>1 DEF BeginSettings, c, taskVars, opVars
    <2>2. CASE ~(c.writerFault \/ target < applied)
      BY <1>0, <1>3, <1>7, <2>2 DEF BeginSettings, c
    <2> QED  BY <2>1, <2>2
  <1>8. ASSUME NEW s \in Sources, NEW at \in Times, BeginEnter(s, at) PROVE SettledInv'
    <2> DEFINE fenced == c.writerFault \/ c.monitorFault
                           \/ (c.source[s].active /\ c.source[s].committed)
               d == IF c.source[s].active THEN c ELSE [c EXCEPT !.source[s] = Activated(at)]
    <2>1. CASE fenced
      BY <1>1, <1>8, <2>1 DEF BeginEnter, c, taskVars, opVars
    <2>2. CASE ~fenced
      <3>1. Activated(at) \in SourceStates
        BY DEF Activated, SourceStates
      <3>2. d \in CoordinatorStates
        BY <1>0, <3>1, SourceType
      <3> HIDE DEF d
      <3>3. LockFree /\ BeginTransition(s, d, applied)
        BY <1>8, <2>2 DEF BeginEnter, c, d
      <3> QED  BY <1>3, <3>2, <3>3
    <2> QED  BY <2>1, <2>2
  <1>9. ASSUME NEW s \in Sources, Release(s) PROVE SettledInv'
    <2> DEFINE fenced == c.writerFault \/ c.monitorFault \/ ~c.source[s].active
               d == [c EXCEPT !.source[s] = Released(NoTime)]
    <2>1. CASE fenced
      BY <1>1, <1>9, <2>1 DEF Release, c, taskVars, opVars
    <2>2. CASE ~fenced
      <3>1. Released(NoTime) \in SourceStates
        BY DEF Released, SourceStates
      <3>2. d \in CoordinatorStates
        BY <1>0, <3>1, SourceType
      <3>3. d.transition = c.transition
        BY <1>0 DEF CoordinatorStates
      <3> HIDE DEF d
      <3>4. LockFree /\ PublishOrStop(d) /\ UNCHANGED <<op, alive, writerState>>
        BY <1>9, <2>2 DEF Release, c, d, taskVars, opVars
      <3> QED  BY <1>0, <1>2, <3>2, <3>3, <3>4
    <2> QED  BY <2>1, <2>2
  <1>10. CASE LatchMonitorFault
    <2>1. /\ co'.desired = "Stopped" /\ published' = "Stopped"
          /\ co'.transition = co.transition /\ UNCHANGED op
      BY <1>10 DEF LatchMonitorFault, ShowState, TypeOK, CoordinatorStates, opVars
    <2> QED  BY <2>1 DEF SettledInv, LockFree, Effective, GateOpen
  <1>11. CASE Injected \/ SendControl
    <2>1. UNCHANGED <<co, published, alive, writerState>> /\ op'.pc # "idle"
      BY <1>11 DEF Injected, SendControl, gateVars, writerVars, taskVars, TypeOK, Operations, NoOp
    <2> QED  BY <2>1 DEF SettledInv, LockFree
  <1>12. CASE InjectFailed \/ ControlNotQueued \/ AckRefused \/ AckCommitted
    <2>1. /\ op.kind \in OpKinds /\ op.pc # "idle" /\ UNCHANGED <<alive, writerState>>
          /\ \/ EndUncommitted(op.kind) \/ EndRefused(op.kind)
             \/ EndCommitted(op.kind)
      BY <1>12 DEF InjectFailed, ControlNotQueued, AckRefused, AckCommitted, TypeOK, Operations,
                   NoOp, taskVars
    <2>2. /\ op.kind \in Sources => co.source[op.kind].active
          /\ op.kind \in ClosingCommands => co.desired # "Running"
      BY <2>1 DEF ActivationInv, GateInv
    <2>3. writerState # "Faulted" /\ "capture" \in alive => published' = Effective(co')
      BY <2>1, <2>2, EndEffective
    <2>4. ~co'.transition
      BY <2>1, UncommittedShape, CommittedShape DEF EndedAs
    <2> QED  BY <2>1, <2>3, <2>4 DEF SettledInv
  <1>13. CASE AckUnknown \/ (Cancel /\ op.pc = "ack") \/ \E t \in Tasks : ReportExit(t)
    <2>1. LatchWriterFault
      BY <1>13 DEF AckUnknown, Cancel, ReportExit
    <2> QED  BY <2>1 DEF SettledInv, LatchWriterFault, ShowState, TypeOK, CoordinatorStates
  <1>14. CASE Cancel /\ op.pc # "ack"
    <2>1. AllowCancel /\ UNCHANGED <<co, published, alive, writerState>>
      BY <1>14 DEF Cancel, gateVars, taskVars
    <2> QED  BY <2>1 DEF SettledInv
  <1>15. CASE \/ \E t \in Tasks : TaskExits(t)
              \/ \E x \in outstanding : WriterCommits(x) \/ WriterRefuses(x) \/ WriterBreaks(x)
              \/ WriterFails \/ WriterRetries \/ UNCHANGED vars
    <2>1. UNCHANGED <<co, op>> /\ alive' \subseteq alive
      BY <1>15 DEF TaskExits, WriterCommits, WriterRefuses, WriterBreaks, WriterFails,
                   WriterRetries, MarkFatal, vars, gateVars, taskVars, opVars
    <2>2. writerState' = "Faulted" \/ (published' = published /\ writerState # "Faulted")
      BY <1>15 DEF TaskExits, WriterCommits, WriterRefuses, WriterBreaks, WriterFails,
                   WriterRetries, MarkFatal, vars, gateVars, writerVars
    <2> QED  BY <2>1, <2>2 DEF SettledInv, LockFree
  <1> QED
    BY <1>4, <1>5, <1>6, <1>7, <1>8, <1>9, <1>10, <1>11, <1>12, <1>13, <1>14, <1>15
       DEF Next, Caller, Operation, Environment, Supervisor

(* When no operation is under way the published state is the effective     *)
(* one and nothing is left frozen by a transition: no path forgets to      *)
(* publish, so releasing the last suppression resumes a wanted recording.  *)
THEOREM IdleGateSettled == Spec => []IdleGateIsSettled
  <1>1. Init => SettledInv
    <2> SUFFICES ASSUME Init PROVE SettledInv
      OBVIOUS
    <2>1. /\ co.desired = published /\ ~co.transition /\ ~co.fault /\ ~co.writerFault
          /\ ~co.monitorFault /\ co.source = [s \in Sources |-> Released(NoTime)]
      BY DEF Init
    <2>2. \A s \in Sources : ~co.source[s].active
      BY <2>1 DEF Released
    <2> QED  BY <2>1, <2>2 DEF SettledInv, Effective, GateOpen
  <1>2. TypeOK /\ CoordinatorInv /\ ActivationInv /\ SettledInv /\ [Next]_vars => SettledInv'
    BY SettledStep
  <1>3. SettledInv => IdleGateIsSettled
    BY DEF SettledInv, IdleGateIsSettled
  <1> QED
    BY <1>1, <1>2, <1>3, ActivationInvHolds, PTL DEF Spec

(***************************************************************************)
(* Part two: the pipeline.                                                 *)
(***************************************************************************)
-----------------------------------------------------------------------------
(* Queues: what stays true of the items when one is taken or appended.     *)

(* Taking the head shifts every other item down by one place. *)
LEMMA TakeHead ==
    ASSUME NEW S, NEW q \in Seq(S), q # <<>>
    PROVE  /\ Head(q) \in S /\ Head(q) = q[1] /\ 1 \in 1 .. Len(q)
           /\ Tail(q) \in Seq(S)
           /\ Len(q) \in Nat /\ Len(Tail(q)) = Len(q) - 1
           /\ \A i \in 1 .. Len(Tail(q)) : i + 1 \in 1 .. Len(q) /\ Tail(q)[i] = q[i + 1]
  BY HeadTailProperties, EmptySeq, LenProperties

(* An appended item comes last, and no other item moves. *)
LEMMA AppendLast ==
    ASSUME NEW S, NEW q \in Seq(S), NEW item \in S
    PROVE  /\ Append(q, item) \in Seq(S)
           /\ Len(q) \in Nat /\ Len(Append(q, item)) = Len(q) + 1
           /\ \A i \in 1 .. Len(q) + 1 :
                 Append(q, item)[i] = IF i = Len(q) + 1 THEN item ELSE q[i]
  BY AppendProperties, LenProperties

(* A send that waited for its slot respects the capacity. *)
LEMMA AppendWithin ==
    ASSUME NEW S, NEW q \in Seq(S), NEW item \in S, NEW cap \in Nat, Len(q) < cap
    PROVE  Append(q, item) \in Seq(S) /\ Len(Append(q, item)) <= cap
  BY AppendLast

-----------------------------------------------------------------------------
(* Type correctness of the queues and tasks.                               *)

Items == Samples \cup Barriers \cup {Mismatch}

(* A queued item is a sample, a barrier with its token, or the report of a *)
(* revision mismatch. *)
LEMMA ItemKinds ==
    ASSUME NEW item \in Items
    PROVE  /\ item.type \in {"sample", "barrier", "mismatch"}
           /\ item.type = "sample" <=> item \in Samples
           /\ item.type = "barrier" <=> item \in Barriers
           /\ item.type = "mismatch" <=> item = Mismatch
           /\ item.type = "barrier" => item.token \in Tokens /\ item = Item(item.token)
  BY DEF Items, Samples, Barriers, Item, Mismatch

(* The token of an operation or of a control is a barrier token. *)
LEMMA TokenType ==
    ASSUME NEW c, c.id \in Ids, c.expected \in Revisions
    PROVE  TokenOf(c) \in Tokens /\ Item(TokenOf(c)) \in Barriers
  BY DEF TokenOf, Tokens, BarrierKind, Barriers

LEMMA PipelineInitTypes == PipelineInit => PipelineTypeOK
  <1> SUFFICES ASSUME PipelineInit PROVE PipelineTypeOK
    OBVIOUS
  <1>1. settings \in Revisions
    BY InitTypes DEF PipelineInit, TypeOK
  <1>2. NoToken \in Tokens /\ Item(NoToken) \in Barriers
    BY CoordinatorAssumption DEF NoToken, Tokens, Ids, Revisions, Barriers
  <1>3. 0 \in Revisions
    BY CoordinatorAssumption DEF Revisions
  <1>4. \A S : <<>> \in Seq(S) /\ Len(<<>>) = 0
    BY EmptySeq
  <1>5. RequestCap >= 0 /\ FifoCap >= 0 /\ LaneCap >= 0 /\ ControlCap >= 0
    BY PipelineAssumption
  <1> QED
    BY <1>1, <1>2, <1>3, <1>4, <1>5 DEF PipelineInit, PipelineTypeOK

(* A step of the coordinator that only restarts the injection. *)
LEMMA CoordinatorTypes ==
    ASSUME PipelineTypeOK, injection' \in {"unsent", "waiting", "ok", "closed"},
           UNCHANGED <<requests, capture, fifo, processor, lane, controlLane, job, pending,
                       poisoned, violated, engineRev, ledger>>
    PROVE  PipelineTypeOK'
  BY DEF PipelineTypeOK

(* What a task takes with it leaves well-formed queues. *)
LEMMA ExitTypes ==
    ASSUME PipelineTypeOK, NEW t \in Tasks, Exit(t)
    PROVE  /\ requests' \in Seq(Tokens) /\ Len(requests') <= RequestCap
           /\ fifo' \in Seq(Samples \cup Barriers) /\ Len(fifo') <= FifoCap
           /\ controlLane' \in Seq(Controls \cup {Maintenance}) /\ Len(controlLane') <= ControlCap
           /\ job' \in Controls \cup {NoJob}
  <1>1. \A S : <<>> \in Seq(S) /\ Len(<<>>) = 0
    BY EmptySeq
  <1>2. RequestCap >= 0 /\ FifoCap >= 0 /\ ControlCap >= 0
    BY PipelineAssumption
  <1> QED
    BY <1>1, <1>2 DEF Exit, PipelineTypeOK

(* The Writer's handling of an item leaves well-formed tables. *)
LEMMA DataTypes ==
    ASSUME PipelineTypeOK, NEW item \in Items, ProcessData(item)
    PROVE  /\ pending' \in SUBSET Tokens /\ violated' \in BOOLEAN
           /\ ledger' \in {"sample", "boundary"}
  <1>1. CASE item.type = "barrier"
    BY <1>1, ItemKinds DEF ProcessData, PipelineTypeOK
  <1>2. CASE item.type = "mismatch"
    BY <1>2 DEF ProcessData, Violate, PipelineTypeOK
  <1>3. CASE item.type = "sample"
    BY <1>3 DEF ProcessData, Violate, Apply, PipelineTypeOK
  <1> QED
    BY <1>1, <1>2, <1>3, ItemKinds

(* So does the completion of a control. *)
LEMMA CompleteTypes ==
    ASSUME PipelineTypeOK, job \in Controls, Complete
    PROVE  /\ poisoned' \in SUBSET Ids /\ engineRev' \in Revisions
           /\ ledger' \in {"sample", "boundary"}
  BY DEF PipelineTypeOK, Complete, Controls

LEMMA PipelineStepTypes ==
    ASSUME TypeOK, PipelineTypeOK, [PipelineNext]_allVars
    PROVE  PipelineTypeOK'
  <1> USE DEF PipelineTypeOK
  <1>1. CASE UNCHANGED allVars
    BY <1>1 DEF allVars, pipeVars
  <1>2. CASE Call \/ InjectionAcked \/ InjectionLost \/ ControlLost \/ Settle \/ Retry \/ Report
    <2>1. /\ injection' \in {"unsent", "waiting", "ok", "closed"}
          /\ UNCHANGED <<requests, capture, fifo, processor, lane, controlLane, job, pending,
                         poisoned, violated, engineRev, ledger>>
      BY <1>2 DEF Call, InjectionAcked, InjectionLost, ControlLost, Settle, Retry, Report,
                  pipeVars
    <2> QED  BY <2>1, CoordinatorTypes
  <1>3. CASE SendRequest
    <2>1. op.id \in Ids /\ op.expected \in Revisions
      BY <1>3 DEF SendRequest, TypeOK, Operations, NoOp
    <2>2. TokenOf(op) \in Tokens
      BY <2>1, TokenType
    <2>3. requests' \in Seq(Tokens) /\ Len(requests') <= RequestCap
      BY <1>3, <2>2, AppendLast, PipelineAssumption DEF SendRequest
    <2> QED  BY <1>3, <2>3 DEF SendRequest
  <1>4. CASE QueueControl
    <2> DEFINE c == CHOOSE d \in outstanding' : d.id = op.id
    <2>1. \E d \in outstanding' : d.id = op.id
      <3> DEFINE sent == [kind |-> op.kind, id |-> op.id, target |-> op.target,
                          expected |-> op.expected,
                          at |-> IF op.kind \in Sources THEN co.source[op.kind].first
                                 ELSE NoTime]
      <3>1. sent.id = op.id
        OBVIOUS
      <3>2. sent \in outstanding'
        BY <1>4 DEF QueueControl, SendControl
      <3> QED  BY <3>1, <3>2
    <2>2. outstanding' \subseteq Controls
      BY <1>4, StepTypes DEF QueueControl, TypeOK, Next, Operation
    <2>4. c \in Controls
      BY <2>1, <2>2
    <2> HIDE DEF c
    <2>3. controlLane' = Append(controlLane, c)
      BY <1>4 DEF QueueControl, c
    <2>5. controlLane' \in Seq(Controls \cup {Maintenance}) /\ Len(controlLane') <= ControlCap
      <3>1. ControlCap \in Nat /\ c \in Controls \cup {Maintenance}
        BY <2>4, PipelineAssumption
      <3>2. Len(controlLane) < ControlCap
        BY <1>4 DEF QueueControl
      <3> QED  BY <2>3, <3>1, <3>2, AppendWithin
    <2> QED  BY <1>4, <2>5 DEF QueueControl
  <1>5. CASE QueueMaintenance
    <2>1. controlLane' \in Seq(Controls \cup {Maintenance}) /\ Len(controlLane') <= ControlCap
      BY <1>5, AppendLast, PipelineAssumption DEF QueueMaintenance
    <2> QED  BY <1>5, <2>1 DEF QueueMaintenance
  <1>6. CASE CaptureTakesRequest
    <2>1. /\ Head(requests) \in Tokens
          /\ Tail(requests) \in Seq(Tokens) /\ Len(Tail(requests)) <= RequestCap
      BY <1>6, TakeHead, PipelineAssumption DEF CaptureTakesRequest
    <2> QED  BY <1>6, <2>1 DEF CaptureTakesRequest, RestOfCapture
  <1>7. CASE CaptureSendsBarrier
    <2>1. fifo' \in Seq(Samples \cup Barriers) /\ Len(fifo') <= FifoCap
      BY <1>7, AppendLast, PipelineAssumption DEF CaptureSendsBarrier, Barriers
    <2>2. injection' \in {"unsent", "waiting", "ok", "closed"}
      BY <1>7 DEF CaptureSendsBarrier, AckInjection
    <2> QED  BY <1>7, <2>1, <2>2 DEF CaptureSendsBarrier, RestOfCapture
  <1>8. CASE CaptureStartsFrame
    BY <1>8 DEF CaptureStartsFrame, RestOfCapture, TypeOK
  <1>9. CASE CaptureEndsFrame
    <2> DEFINE sample == [type |-> "sample", rev |-> settings, taken |-> capture.taken]
    <2>1. sample \in Samples
      BY DEF Samples, TypeOK
    <2> HIDE DEF sample
    <2>2. fifo' = fifo \/ (fifo' = Append(fifo, sample) /\ Len(fifo) < FifoCap)
      BY <1>9 DEF CaptureEndsFrame, sample
    <2>3. fifo' \in Seq(Samples \cup Barriers) /\ Len(fifo') <= FifoCap
      <3>1. FifoCap \in Nat /\ sample \in Samples \cup Barriers
        BY <2>1, PipelineAssumption
      <3>2. fifo \in Seq(Samples \cup Barriers) /\ Len(fifo) <= FifoCap
        OBVIOUS
      <3> HIDE DEF PipelineTypeOK
      <3> QED  BY <2>2, <3>1, <3>2, AppendWithin
    <2> QED  BY <1>9, <2>3 DEF CaptureEndsFrame, RestOfCapture
  <1>10. CASE ProcessorTakesSample
    <2>1. /\ Head(fifo) \in Samples \cup Barriers
          /\ Tail(fifo) \in Seq(Samples \cup Barriers) /\ Len(Tail(fifo)) <= FifoCap
      BY <1>10, TakeHead, PipelineAssumption DEF ProcessorTakesSample
    <2>2. lane' = lane \/ (Len(lane) < LaneCap /\ lane' = Append(lane, Head(fifo)))
      BY <1>10 DEF ProcessorTakesSample
    <2>3. lane' \in Seq(Samples \cup Barriers \cup {Mismatch}) /\ Len(lane') <= LaneCap
      <3>1. LaneCap \in Nat /\ Head(fifo) \in Samples \cup Barriers \cup {Mismatch}
        BY <2>1, PipelineAssumption
      <3> QED  BY <2>2, <3>1, AppendWithin
    <2>4. processor' \in [pc : {"recv", "sending"}, item : Barriers \cup {Mismatch}]
      BY <1>10 DEF ProcessorTakesSample
    <2> QED  BY <1>10, <2>1, <2>3, <2>4 DEF ProcessorTakesSample, RestOfProcessor
  <1>11. CASE ProcessorTakesBarrier
    <2>1. /\ Head(fifo) \in Samples \cup Barriers
          /\ Tail(fifo) \in Seq(Samples \cup Barriers) /\ Len(Tail(fifo)) <= FifoCap
      BY <1>11, TakeHead, PipelineAssumption DEF ProcessorTakesBarrier
    <2>2. Head(fifo) \in Barriers
      BY <1>11, <2>1, ItemKinds DEF ProcessorTakesBarrier, Items
    <2> QED  BY <1>11, <2>1, <2>2 DEF ProcessorTakesBarrier, RestOfProcessor
  <1>12. CASE ProcessorSends
    <2>1. lane' \in Seq(Samples \cup Barriers \cup {Mismatch}) /\ Len(lane') <= LaneCap
      BY <1>12, AppendLast, PipelineAssumption DEF ProcessorSends
    <2>2. processor' \in [pc : {"recv", "sending"}, item : Barriers \cup {Mismatch}]
      BY <1>12 DEF ProcessorSends
    <2>3. Exit("processor") \/ UNCHANGED <<requests, fifo, controlLane, job>>
      BY <1>12 DEF ProcessorSends
    <2> QED  BY <1>12, <2>1, <2>2, <2>3, ExitTypes DEF ProcessorSends, Tasks
  <1>13. ASSUME NEW t \in Tasks, TaskEnds(t) PROVE PipelineTypeOK'
    <2>1. injection' \in {"unsent", "waiting", "ok", "closed"}
      BY <1>13 DEF TaskEnds, AckInjection
    <2>2. lane' \in Seq(Samples \cup Barriers \cup {Mismatch}) /\ Len(lane') <= LaneCap
      BY <1>13, EmptySeq, PipelineAssumption DEF TaskEnds
    <2> QED  BY <1>13, <2>1, <2>2, ExitTypes DEF TaskEnds
  <1>14. lane # <<>> =>
           /\ Head(lane) \in Items
           /\ Tail(lane) \in Seq(Samples \cup Barriers \cup {Mismatch}) /\ Len(Tail(lane)) <= LaneCap
    BY TakeHead, PipelineAssumption DEF Items
  <1>15. CASE WriterTakesData \/ DrainItem
    <2>1. /\ lane # <<>> /\ lane' = Tail(lane) /\ ProcessData(Head(lane))
          /\ UNCHANGED <<RestOfWriter, controlLane, job, poisoned, engineRev>>
      BY <1>15 DEF WriterTakesData, DrainItem
    <2> QED  BY <1>14, <2>1, DataTypes DEF RestOfWriter
  <1>16. controlLane # <<>> =>
           /\ Head(controlLane) \in Controls \cup {Maintenance}
           /\ Tail(controlLane) \in Seq(Controls \cup {Maintenance})
           /\ Len(Tail(controlLane)) <= ControlCap
    BY TakeHead, PipelineAssumption
  <1>17. CASE WriterTakesMaintenance
    BY <1>16, <1>17 DEF WriterTakesMaintenance, RestOfWriter
  <1>18. CASE WriterTakesControl
    BY <1>16, <1>18 DEF WriterTakesControl, RestOfWriter
  <1>19. CASE MatchPending
    <2>1. job \in Controls /\ job.id \in Ids
      BY <1>19 DEF MatchPending, Controls
    <2>2. /\ poisoned' \in SUBSET Ids /\ engineRev' \in Revisions
          /\ ledger' \in {"sample", "boundary"}
      BY <1>19, <2>1, CompleteTypes DEF MatchPending
    <2>3. pending' \in SUBSET Tokens
      BY <1>19 DEF MatchPending
    <2> QED  BY <1>19, <2>2, <2>3 DEF MatchPending, RestOfWriter
  <1>20. CASE DrainBarrier
    <2>1. job \in Controls
      BY <1>20 DEF DrainBarrier, Draining
    <2> QED  BY <1>14, <1>20, <2>1, CompleteTypes DEF DrainBarrier, RestOfWriter
  <1>21. CASE DrainGivesUp
    BY <1>21 DEF DrainGivesUp, RestOfWriter
  <1> QED
    BY <1>1, <1>2, <1>3, <1>4, <1>5, <1>6, <1>7, <1>8, <1>9, <1>10, <1>11, <1>12, <1>13, <1>15,
       <1>17, <1>18, <1>19, <1>20, <1>21
       DEF PipelineNext, CoordinatorSteps, CaptureSteps, ProcessorSteps, WriterSteps

-----------------------------------------------------------------------------
(* The coordinator inside the pipeline.                                    *)

(* The coordinator's steps but for a commit of the Writer. *)
QuietNext ==
    \/ Caller \/ Operation \/ Cancel \/ Supervisor
    \/ \E t \in Tasks : TaskExits(t)
    \/ \E c \in outstanding : WriterRefuses(c) \/ WriterBreaks(c)
    \/ WriterFails \/ WriterRetries

(* A commit: the Writer found the barrier of its job in the pending table  *)
(* or at the head of the data lane. *)
FoundBarrier ==
    /\ job # NoJob /\ UNCHANGED fifo
    /\ \/ TokenOf(job) \in pending /\ UNCHANGED lane
       \/ lane # <<>> /\ Head(lane) = Item(TokenOf(job)) /\ lane' = Tail(lane)

CommitsBoundary ==
    /\ FoundBarrier /\ WriterCommits(job)
    /\ ledger' = IF job.kind = "settings" THEN ledger ELSE "boundary"

(* A sample leaves the head of the data lane for the ledger. *)
RecordsSample ==
    /\ lane # <<>> /\ Head(lane).type = "sample"
    /\ UNCHANGED vars /\ ledger' = "sample"

(* Every step of the pipeline is a step of the coordinator's module or     *)
(* leaves its state alone, and the ledger changes in two ways only.        *)
LEMMA StepKinds ==
    ASSUME PipelineTypeOK, [PipelineNext]_allVars
    PROVE  \/ [QuietNext]_vars /\ ledger' = ledger
           \/ CommitsBoundary
           \/ RecordsSample
  <1> USE DEF QuietNext
  <1>1. CASE UNCHANGED allVars
    BY <1>1 DEF allVars, pipeVars
  <1>2. CASE Call
    BY <1>2 DEF Call, Caller, Offered, OpeningCommands, ClosingCommands, Sources, Commands
  <1>3. CASE CoordinatorSteps
    BY <1>3 DEF CoordinatorSteps, SendRequest, InjectionAcked, InjectionLost, QueueControl,
                ControlLost, Settle, Operation, pipeVars
  <1>4. ASSUME NEW t \in Tasks, Exit(t) PROVE QuietNext
    BY <1>4 DEF Exit
  <1>5. CASE ProcessorSteps
    BY <1>5, <1>4 DEF ProcessorSteps, ProcessorTakesSample, ProcessorTakesBarrier,
                ProcessorSends, RestOfProcessor, Tasks
  <1>6. CASE CaptureSteps \/ CaptureStartsFrame \/ QueueMaintenance
    BY <1>6 DEF CaptureSteps, CaptureTakesRequest, CaptureSendsBarrier, CaptureEndsFrame,
                CaptureStartsFrame, QueueMaintenance, RestOfCapture
  <1>7. ASSUME NEW item \in Items, ProcessData(item)
        PROVE  \/ (WriterFails \/ UNCHANGED vars) /\ ledger' = ledger
               \/ item.type = "sample" /\ UNCHANGED vars /\ ledger' = "sample"
    BY <1>7, ItemKinds DEF ProcessData, Violate, Apply
  <1>8. lane # <<>> => Head(lane) \in Items
    BY TakeHead DEF PipelineTypeOK, Items
  <1>9. CASE WriterTakesData \/ DrainItem
    <2>1. lane # <<>> /\ ProcessData(Head(lane))
      BY <1>9 DEF WriterTakesData, DrainItem
    <2> QED  BY <1>7, <1>8, <2>1 DEF RecordsSample
  <1>10. CASE WriterTakesMaintenance \/ WriterTakesControl
    BY <1>10 DEF WriterTakesMaintenance, WriterTakesControl
  <1>11. ASSUME WriterRefuses(job) \/ WriterBreaks(job) PROVE QuietNext
    BY <1>11 DEF WriterRefuses, WriterBreaks
  <1>12. ASSUME FoundBarrier, Complete
         PROVE  (QuietNext /\ ledger' = ledger) \/ CommitsBoundary
    BY <1>11, <1>12 DEF Complete, CommitsBoundary
  <1>13. CASE MatchPending
    <2>1. CASE ~violated /\ job.id \notin poisoned /\ TokenOf(job) \in pending
      BY <1>12, <1>13, <2>1 DEF MatchPending, FoundBarrier, RestOfWriter
    <2>2. CASE ~(~violated /\ job.id \notin poisoned /\ TokenOf(job) \in pending)
      BY <1>11, <1>13, <2>2 DEF MatchPending
    <2> QED  BY <2>1, <2>2
  <1>14. CASE DrainBarrier
    BY <1>12, <1>14 DEF DrainBarrier, Draining, FoundBarrier, RestOfWriter
  <1>15. CASE DrainGivesUp
    BY <1>11, <1>15 DEF DrainGivesUp
  <1>16. CASE Retry \/ Report
    BY <1>16 DEF Retry, Report, Supervisor, pipeVars
  <1>17. ASSUME NEW t \in Tasks, TaskEnds(t) PROVE QuietNext /\ ledger' = ledger
    BY <1>17, <1>4 DEF TaskEnds
  <1> QED
    BY <1>1, <1>2, <1>3, <1>5, <1>6, <1>9, <1>10, <1>13, <1>14, <1>15, <1>16, <1>17
       DEF PipelineNext, WriterSteps

(* So the queues and tasks only restrict the environment the coordinator   *)
(* was verified in. *)
LEMMA PipelineStepIsCoordinatorStep ==
    ASSUME PipelineTypeOK, [PipelineNext]_allVars
    PROVE  [Next]_vars
  <1>1. CASE [QuietNext]_vars
    BY <1>1 DEF QuietNext, Next, Environment
  <1>2. CASE CommitsBoundary
    BY <1>2 DEF CommitsBoundary, WriterCommits, Next, Environment
  <1>3. CASE RecordsSample
    BY <1>3 DEF RecordsSample
  <1> QED
    BY <1>1, <1>2, <1>3, StepKinds

(* The two type invariants and the coordinator's own invariant hold        *)
(* together: the queues' types need the coordinator's, and a step is one   *)
(* of the coordinator's because the queues hold what they should. *)
PipelineBase == TypeOK /\ PipelineTypeOK /\ CoordinatorInv

LEMMA PipelineBaseHolds == PipelineSpec => []PipelineBase
  <1>1. PipelineInit => PipelineBase
    BY InitTypes, InitInv, PipelineInitTypes DEF PipelineInit, PipelineBase
  <1>2. PipelineBase /\ [PipelineNext]_allVars => PipelineBase'
    <2> SUFFICES ASSUME PipelineBase, [PipelineNext]_allVars PROVE PipelineBase'
      OBVIOUS
    <2>1. [Next]_vars /\ PipelineTypeOK'
      BY PipelineStepIsCoordinatorStep, PipelineStepTypes DEF PipelineBase
    <2> QED  BY <2>1, StepTypes, StepInv DEF PipelineBase
  <1> QED
    BY <1>1, <1>2, PTL DEF PipelineSpec

(* Every queue, task and table of the pipeline stays within its domain and *)
(* its capacity. *)
THEOREM PipelineTypes == PipelineSpec => []PipelineTypeOK
  <1>1. PipelineBase => PipelineTypeOK
    BY DEF PipelineBase
  <1> QED
    BY <1>1, PipelineBaseHolds, PTL

(* The pipeline drives the coordinator only through steps the coordinator  *)
(* was verified under, so its gate is as safe inside the pipeline. *)
THEOREM PipelineDrivesCoordinator == PipelineSpec => Init /\ [][Next]_vars
  <1>1. PipelineInit => Init
    BY DEF PipelineInit
  <1>2. PipelineBase /\ [PipelineNext]_allVars => [Next]_vars
    BY PipelineStepIsCoordinatorStep DEF PipelineBase
  <1> QED
    BY <1>1, <1>2, PipelineBaseHolds, PTL DEF PipelineSpec

-----------------------------------------------------------------------------
(* What the coordinator's steps do to the operation in progress.           *)

(* A caller either leaves the operation alone or, with the lock free,      *)
(* begins one under a fresh number and the revision then applied. *)
LEMMA CallerMoves ==
    ASSUME TypeOK, Caller
    PROVE  /\ UNCHANGED <<outstanding, applied, settings, blocked, alive, writerState>>
           /\ \/ UNCHANGED <<op, nextId>> /\ (LockFree \/ UNCHANGED ack)
              \/ /\ LockFree /\ op'.pc = "inject" /\ op'.id = nextId /\ op'.expected = applied
                 /\ nextId' = nextId + 1
  <1> USE DEF taskVars, opVars
  <1>1. ASSUME NEW kind, NEW c, NEW target, LockFree, BeginTransition(kind, c, target)
        PROVE  /\ UNCHANGED <<outstanding, applied, settings, blocked, alive, writerState>>
               /\ \/ UNCHANGED <<op, nextId>>
                  \/ /\ op'.pc = "inject" /\ op'.id = nextId /\ op'.expected = applied
                     /\ nextId' = nextId + 1
    <2>1. CASE CanPublish([c EXCEPT !.transition = TRUE])
      BY <1>1, <2>1 DEF BeginTransition
    <2>2. CASE ~CanPublish([c EXCEPT !.transition = TRUE])
      BY <1>1, <2>2 DEF BeginTransition
    <2> QED  BY <2>1, <2>2
  <1>2. ASSUME NEW command \in Commands, AnswerCommand(command) \/ OpenGate(command)
        PROVE  /\ LockFree
               /\ UNCHANGED <<outstanding, applied, settings, blocked, alive, writerState, op,
                              nextId>>
    BY <1>2 DEF AnswerCommand, OpenGate
  <1>3. ASSUME NEW command \in ClosingCommands, BeginClose(command)
        PROVE  /\ LockFree
               /\ \E c : BeginTransition(command, c, applied)
    BY <1>3 DEF BeginClose
  <1>4. ASSUME NEW target \in Revisions, BeginSettings(target)
        PROVE  /\ LockFree
               /\ \/ UNCHANGED <<outstanding, applied, settings, blocked, alive, writerState, op,
                                 nextId>>
                  \/ \E c : BeginTransition("settings", c, target)
    BY <1>4 DEF BeginSettings
  <1>5. ASSUME NEW s \in Sources, NEW at \in Times, BeginEnter(s, at)
        PROVE  /\ LockFree
               /\ \/ UNCHANGED <<outstanding, applied, settings, blocked, alive, writerState, op,
                                 nextId>>
                  \/ \E c : BeginTransition(s, c, applied)
    BY <1>5 DEF BeginEnter
  <1>6. ASSUME NEW s \in Sources, Release(s)
        PROVE  /\ LockFree
               /\ UNCHANGED <<outstanding, applied, settings, blocked, alive, writerState, op,
                              nextId>>
    BY <1>6 DEF Release
  <1>7. ASSUME LatchMonitorFault
        PROVE  UNCHANGED <<outstanding, applied, settings, blocked, alive, writerState, op,
                           nextId, ack>>
    BY <1>7 DEF LatchMonitorFault
  <1> QED
    BY <1>1, <1>2, <1>3, <1>4, <1>5, <1>6, <1>7
       DEF Caller, OpeningCommands, Commands

(* An operation ends once; only the answer of a committed settings change  *)
(* moves the settings watch. *)
Ending == \/ InjectFailed \/ ControlNotQueued
          \/ AckCommitted \/ AckRefused \/ AckUnknown \/ Cancel

LEMMA EndingMoves ==
    ASSUME TypeOK, Ending
    PROVE  /\ op.pc # "idle" /\ op' = NoOp
           /\ UNCHANGED <<nextId, outstanding, ack, applied, blocked, alive>>
           /\ settings' = settings \/ AnsweredSettings
  <1>1. op.kind \in Sources => op.pc # "idle"
    BY DEF TypeOK, Operations, NoOp, Sources
  <1> QED
    BY <1>1 DEF Ending, InjectFailed, ControlNotQueued, AckCommitted, AckRefused, AckUnknown,
                Cancel, Finish, AnsweredSettings, taskVars

(* The Writer completes a control in one of three ways. *)
LEMMA CompletionMoves ==
    ASSUME NEW c, WriterCommits(c) \/ WriterRefuses(c) \/ WriterBreaks(c)
    PROVE  /\ c \in outstanding /\ outstanding' = outstanding \ {c}
           /\ UNCHANGED <<op, nextId, settings, blocked, alive>>
           /\ applied' = IF WriterCommits(c) /\ c.kind = "settings" THEN c.target ELSE applied
           /\ ack' = ack \/ (op.pc = "ack" /\ op.id = c.id)
  <1>1. CASE WriterCommits(c)
    BY <1>1 DEF WriterCommits, Answered, opVars, taskVars
  <1>2. CASE ~WriterCommits(c)
    BY <1>2 DEF WriterRefuses, WriterBreaks, Answered, opVars, taskVars
  <1> QED
    BY <1>1, <1>2

(* A fault of the Writer and a busy retry concern neither the operation    *)
(* nor the controls. *)
LEMMA FaultMoves ==
    ASSUME WriterFails \/ WriterRetries \/ UNCHANGED vars
    PROVE  UNCHANGED <<outstanding, ack, applied, settings, blocked, alive, op, nextId>>
  BY DEF WriterFails, WriterRetries, vars, gateVars, writerVars, taskVars, opVars

LEMMA DataMoves ==
    ASSUME NEW item \in Items, ProcessData(item)
    PROVE  UNCHANGED <<outstanding, ack, applied, settings, blocked, alive, op, nextId>>
  <1>1. WriterFails \/ UNCHANGED vars
    BY ItemKinds DEF ProcessData, Violate, Apply
  <1> QED
    BY <1>1, FaultMoves

LEMMA ReportMoves ==
    ASSUME NEW t, ReportExit(t)
    PROVE  UNCHANGED <<outstanding, ack, applied, settings, blocked, alive, op, nextId>>
  BY DEF ReportExit, opVars

-----------------------------------------------------------------------------
(* The Writer's control lane.                                              *)

(* The control of the running operation is in the lane or being drained    *)
(* for, never both and never twice; maintenance may stand anywhere. *)
LaneInv ==
    /\ job # NoJob => job \in outstanding
    /\ \A i \in 1 .. Len(controlLane) : controlLane[i] # Maintenance
          => controlLane[i] \in outstanding /\ job = NoJob
    /\ \A i, j \in 1 .. Len(controlLane) :
          controlLane[i] # Maintenance /\ controlLane[j] # Maintenance => i = j

(* The operation that is about to send its control is the only one. *)
LEMMA NothingOutstanding ==
    ASSUME PipelineBase, op.pc \in {"inject", "control"}
    PROVE  outstanding = {}
  BY DEF PipelineBase, CoordinatorInv, ControlInv

LEMMA CompletedLane ==
    ASSUME PipelineBase, LaneInv, job # NoJob, job' = NoJob, UNCHANGED controlLane,
           WriterCommits(job) \/ WriterRefuses(job) \/ WriterBreaks(job)
    PROVE  LaneInv'
  <1>1. outstanding' = outstanding \ {job} /\ UNCHANGED controlLane
    BY CompletionMoves
  <1> QED
    BY <1>1 DEF LaneInv

LEMMA ExitLane ==
    ASSUME PipelineBase, LaneInv, NEW t \in Tasks, Exit(t)
    PROVE  LaneInv'
  <1>1. CASE t = "writer"
    <2>1. controlLane' = <<>> /\ job' = NoJob
      BY <1>1 DEF Exit
    <2> QED  BY <2>1, EmptySeq DEF LaneInv
  <1>2. CASE t # "writer"
    <2>1. UNCHANGED <<controlLane, job, outstanding>>
      BY <1>2 DEF Exit, TaskExits
    <2> QED  BY <2>1 DEF LaneInv
  <1> QED
    BY <1>1, <1>2

LEMMA LaneStep ==
    ASSUME PipelineBase, LaneInv, [PipelineNext]_allVars
    PROVE  LaneInv'
  <1>1. ASSUME UNCHANGED <<controlLane, job, outstanding>> PROVE LaneInv'
    BY <1>1 DEF LaneInv
  <1>2. CASE UNCHANGED allVars
    BY <1>1, <1>2 DEF allVars, pipeVars, vars, writerVars
  <1>3. CASE Call
    <2>1. Caller /\ UNCHANGED <<controlLane, job>>
      BY <1>3 DEF Call, Caller, Offered, OpeningCommands, ClosingCommands, Sources, Commands
    <2> QED  BY <1>1, <2>1, CallerMoves DEF PipelineBase
  <1>4. CASE InjectionLost \/ ControlLost \/ Settle
    <2>1. Ending /\ UNCHANGED <<controlLane, job>>
      BY <1>4 DEF InjectionLost, ControlLost, Settle, Ending, pipeVars
    <2> QED  BY <1>1, <2>1, EndingMoves DEF PipelineBase
  <1>5. CASE SendRequest \/ InjectionAcked \/ Retry \/ Report
    <2>1. UNCHANGED <<controlLane, job, outstanding>>
      BY <1>5, ReportMoves, FaultMoves
         DEF SendRequest, InjectionAcked, Injected, Retry, Report, pipeVars, vars, writerVars
    <2> QED  BY <1>1, <2>1
  <1>6. CASE QueueControl
    <2> DEFINE c == CHOOSE d \in outstanding' : d.id = op.id
    <2>1. /\ outstanding = {} /\ job' = job
          /\ \E d \in outstanding' : d.id = op.id
      <3>1. op.pc = "control" /\ job' = job
        BY <1>6 DEF QueueControl, SendControl
      <3> DEFINE sent == [kind |-> op.kind, id |-> op.id, target |-> op.target,
                          expected |-> op.expected,
                          at |-> IF op.kind \in Sources THEN co.source[op.kind].first
                                 ELSE NoTime]
      <3>2. sent.id = op.id
        OBVIOUS
      <3>3. sent \in outstanding'
        BY <1>6 DEF QueueControl, SendControl
      <3> QED  BY <3>1, <3>2, <3>3, NothingOutstanding
    <2>2. c \in outstanding'
      BY <2>1
    <2> HIDE DEF c
    <2>3. controlLane' = Append(controlLane, c)
      BY <1>6 DEF QueueControl, c
    <2>4. job = NoJob /\ \A i \in 1 .. Len(controlLane) : controlLane[i] = Maintenance
      BY <2>1 DEF LaneInv
    <2>5. controlLane \in Seq(Controls \cup {Maintenance} \cup {c})
      BY SeqMonotonic DEF PipelineBase, PipelineTypeOK
    <2>6. /\ Len(controlLane) \in Nat /\ Len(controlLane') = Len(controlLane) + 1
          /\ \A i \in 1 .. Len(controlLane) + 1 :
                controlLane'[i] = IF i = Len(controlLane) + 1 THEN c ELSE controlLane[i]
      BY <2>3, <2>5, AppendLast
    <2>7. \A i \in 1 .. Len(controlLane') : i = Len(controlLane) + 1 \/ controlLane'[i] = Maintenance
      BY <2>4, <2>6
    <2> QED  BY <2>1, <2>2, <2>4, <2>6, <2>7 DEF LaneInv
  <1>7. CASE QueueMaintenance
    <2>1. /\ controlLane' = Append(controlLane, Maintenance)
          /\ UNCHANGED <<job, outstanding>>
      BY <1>7 DEF QueueMaintenance, vars, writerVars
    <2>2. /\ Len(controlLane) \in Nat /\ Len(controlLane') = Len(controlLane) + 1
          /\ \A i \in 1 .. Len(controlLane) + 1 :
                controlLane'[i] = IF i = Len(controlLane) + 1 THEN Maintenance ELSE controlLane[i]
      BY <2>1, AppendLast DEF PipelineBase, PipelineTypeOK
    <2>3. \A i \in 1 .. Len(controlLane') : controlLane'[i] # Maintenance
            => i \in 1 .. Len(controlLane) /\ controlLane'[i] = controlLane[i]
      BY <2>2
    <2> QED  BY <2>1, <2>3 DEF LaneInv
  <1>8. CASE CaptureSteps \/ CaptureStartsFrame \/ ProcessorTakesSample \/ ProcessorTakesBarrier
    <2>1. UNCHANGED <<controlLane, job, outstanding>>
      BY <1>8 DEF CaptureSteps, CaptureTakesRequest, CaptureSendsBarrier, CaptureEndsFrame,
                  CaptureStartsFrame, ProcessorTakesSample, ProcessorTakesBarrier,
                  RestOfCapture, RestOfProcessor, vars, writerVars
    <2> QED  BY <1>1, <2>1
  <1>9. CASE ProcessorSends
    <2>1. Exit("processor") \/ UNCHANGED <<controlLane, job, outstanding>>
      BY <1>9 DEF ProcessorSends, vars, writerVars
    <2> QED  BY <1>1, <2>1, ExitLane DEF Tasks
  <1>10. ASSUME NEW t \in Tasks, TaskEnds(t) PROVE LaneInv'
    BY <1>10, ExitLane DEF TaskEnds
  <1>11. CASE WriterTakesData \/ DrainItem
    <2>1. /\ lane # <<>> /\ ProcessData(Head(lane))
          /\ UNCHANGED <<controlLane, job>>
      BY <1>11 DEF WriterTakesData, DrainItem
    <2>2. Head(lane) \in Items
      BY <2>1, TakeHead DEF PipelineBase, PipelineTypeOK, Items
    <2> QED  BY <1>1, <2>1, <2>2, DataMoves
  <1>12. controlLane # <<>> =>
           /\ Head(controlLane) = controlLane[1] /\ 1 \in 1 .. Len(controlLane)
           /\ Head(controlLane) \in Controls \cup {Maintenance}
           /\ \A i \in 1 .. Len(Tail(controlLane)) :
                 i + 1 \in 1 .. Len(controlLane) /\ Tail(controlLane)[i] = controlLane[i + 1]
    BY TakeHead DEF PipelineBase, PipelineTypeOK
  <1>13. CASE WriterTakesMaintenance
    <2>1. controlLane # <<>> /\ controlLane' = Tail(controlLane) /\ UNCHANGED <<job, outstanding>>
      BY <1>13, FaultMoves DEF WriterTakesMaintenance
    <2> QED  BY <1>12, <2>1 DEF LaneInv
  <1>14. CASE WriterTakesControl
    <2>1. /\ controlLane # <<>> /\ Head(controlLane) # Maintenance
          /\ controlLane' = Tail(controlLane) /\ job' = Head(controlLane) /\ UNCHANGED outstanding
      BY <1>14 DEF WriterTakesControl, vars, writerVars
    <2>2. job' \in outstanding'
      BY <1>12, <2>1 DEF LaneInv
    <2>3. \A i \in 1 .. Len(controlLane') : controlLane'[i] = Maintenance
      <3> SUFFICES ASSUME NEW i \in 1 .. Len(Tail(controlLane)),
                          Tail(controlLane)[i] # Maintenance
                   PROVE  FALSE
        BY <2>1
      <3>1. i + 1 \in 1 .. Len(controlLane) /\ controlLane[i + 1] # Maintenance
            /\ controlLane[1] # Maintenance
        BY <1>12, <2>1
      <3>2. i + 1 = 1
        BY <1>12, <2>1, <3>1 DEF LaneInv
      <3> QED  BY <3>2
    <2> QED  BY <2>2, <2>3 DEF LaneInv
  <1>15. CASE MatchPending \/ DrainBarrier \/ DrainGivesUp
    <2>1. /\ job # NoJob /\ job' = NoJob /\ UNCHANGED controlLane
          /\ WriterCommits(job) \/ WriterRefuses(job) \/ WriterBreaks(job)
      BY <1>15 DEF MatchPending, DrainBarrier, DrainGivesUp, Draining, Complete
    <2> QED  BY <2>1, CompletedLane
  <1> QED
    BY <1>2, <1>3, <1>4, <1>5, <1>6, <1>7, <1>8, <1>9, <1>10, <1>11, <1>13, <1>14, <1>15
       DEF PipelineNext, CoordinatorSteps, CaptureSteps, ProcessorSteps, WriterSteps

-----------------------------------------------------------------------------
(* Items on their way through the two queues.                              *)

(* The sample a frame ends in: stamped with the revision now in force. *)
FrameSample == [type |-> "sample", rev |-> settings, taken |-> capture.taken]

(* An item enters the fifo from the capture loop only, and the lane from   *)
(* the fifo or from the processor: what holds of the items at the          *)
(* entrances holds of all of them. *)
LEMMA ItemFlow ==
    ASSUME PipelineTypeOK, [PipelineNext]_allVars,
           NEW F, NEW L, F \subseteq L, fifo \in Seq(F), lane \in Seq(L),
           "capture" \in alive /\ capture.pc = "sending" => Item(capture.token) \in F,
           capture.pc = "capturing" /\ published = "Running" => FrameSample \in F,
           processor.pc = "sending" => processor.item \in L
    PROVE  fifo' \in Seq(F) /\ lane' \in Seq(L)
  <1>1. fifo # <<>> => Head(fifo) \in F /\ Head(fifo) \in L /\ Tail(fifo) \in Seq(F)
    BY TakeHead
  <1>2. lane # <<>> => Tail(lane) \in Seq(L)
    BY TakeHead
  <1>3. <<>> \in Seq(F) /\ <<>> \in Seq(L)
    BY EmptySeq
  <1>4. \A item \in F : Append(fifo, item) \in Seq(F)
    BY AppendLast
  <1>5. \A item \in L : Append(lane, item) \in Seq(L)
    BY AppendLast
  <1>6. CASE \/ UNCHANGED allVars
             \/ Call \/ QueueMaintenance \/ CaptureStartsFrame \/ CoordinatorSteps
             \/ CaptureTakesRequest \/ Retry \/ Report
    <2>1. UNCHANGED <<fifo, lane>>
      BY <1>6 DEF allVars, pipeVars, Call, QueueMaintenance, CaptureStartsFrame,
                  CoordinatorSteps, SendRequest, InjectionAcked, InjectionLost, QueueControl,
                  ControlLost, Settle, CaptureTakesRequest, Retry, Report, RestOfCapture
    <2> QED  BY <2>1
  <1>7. CASE CaptureSendsBarrier
    BY <1>4, <1>7 DEF CaptureSendsBarrier, RestOfCapture
  <1>8. CASE CaptureEndsFrame
    <2>1. lane' = lane /\ (fifo' = fifo
             \/ (fifo' = Append(fifo, FrameSample)
                 /\ capture.pc = "capturing" /\ published = "Running"))
      BY <1>8 DEF CaptureEndsFrame, RestOfCapture, FrameSample
    <2> QED  BY <1>4, <2>1
  <1>9. CASE ProcessorTakesSample
    <2>1. /\ fifo # <<>> /\ fifo' = Tail(fifo)
          /\ lane' = lane \/ lane' = Append(lane, Head(fifo))
      BY <1>9 DEF ProcessorTakesSample
    <2> QED  BY <1>1, <1>5, <2>1
  <1>10. CASE ProcessorTakesBarrier
    BY <1>1, <1>10 DEF ProcessorTakesBarrier
  <1>11. CASE ProcessorSends
    <2>1. /\ lane' = Append(lane, processor.item) /\ processor.item \in L
          /\ fifo' = fifo \/ fifo' = <<>>
      BY <1>11 DEF ProcessorSends, Exit
    <2> QED  BY <1>3, <1>5, <2>1
  <1>12. ASSUME NEW t \in Tasks, TaskEnds(t) PROVE fifo' \in Seq(F) /\ lane' \in Seq(L)
    <2>1. /\ fifo' = fifo \/ fifo' = <<>>
          /\ lane' = lane \/ lane' = <<>>
      BY <1>12 DEF TaskEnds, Exit
    <2> QED  BY <1>3, <2>1
  <1>13. CASE WriterSteps
    <2>1. /\ fifo' = fifo
          /\ lane' = lane \/ (lane # <<>> /\ lane' = Tail(lane))
      BY <1>13 DEF WriterSteps, WriterTakesData, WriterTakesMaintenance, WriterTakesControl,
                   MatchPending, DrainItem, DrainBarrier, DrainGivesUp, RestOfWriter
    <2> QED  BY <1>2, <2>1
  <1> QED
    BY <1>6, <1>7, <1>8, <1>9, <1>10, <1>11, <1>12, <1>13
       DEF PipelineNext, CaptureSteps, ProcessorSteps

-----------------------------------------------------------------------------
(* Revisions: of the frame being taken, of the samples, of the controls.   *)

(* A frame is taken and stamped under one settings revision: while the     *)
(* capture loop is away with it, no operation can get past its injection,  *)
(* for the loop itself has to inject the barrier. *)
FrameInv ==
    capture.pc = "capturing" =>
        /\ op.pc \in {"idle", "inject"}
        /\ op.pc = "inject" => injection # "ok"
        /\ capture.taken = settings

LEMMA FrameStep ==
    ASSUME PipelineBase, FrameInv, [PipelineNext]_allVars
    PROVE  FrameInv'
  <1> USE DEF PipelineBase
  <1>1. ASSUME UNCHANGED <<op, settings>>, capture'.pc = "capturing" => capture' = capture,
               injection' = "ok" => injection = "ok"
        PROVE  FrameInv'
    BY <1>1 DEF FrameInv
  <1>2. CASE UNCHANGED allVars
    BY <1>1, <1>2 DEF allVars, pipeVars, vars, opVars
  <1>3. CASE Call
    <2>1. /\ Caller /\ UNCHANGED capture
          /\ injection' = IF op' # op THEN "unsent" ELSE injection
      BY <1>3 DEF Call, Caller, Offered, OpeningCommands, ClosingCommands, Sources, Commands
    <2> QED  BY <2>1, CallerMoves DEF FrameInv
  <1>4. CASE InjectionLost \/ ControlLost \/ Settle
    <2>1. Ending /\ UNCHANGED <<capture, injection>>
      BY <1>4 DEF InjectionLost, ControlLost, Settle, Ending, pipeVars
    <2>2. op' = NoOp /\ (settings' = settings \/ op.pc = "ack")
      BY <2>1, EndingMoves DEF AnsweredSettings
    <2> QED  BY <2>1, <2>2 DEF FrameInv, NoOp
  <1>5. CASE SendRequest
    BY <1>1, <1>5 DEF SendRequest, vars, opVars
  <1>6. CASE InjectionAcked
    <2>1. op.pc = "inject" /\ injection = "ok" /\ UNCHANGED capture
      BY <1>6 DEF InjectionAcked, Injected, pipeVars
    <2> QED  BY <2>1 DEF FrameInv
  <1>7. CASE QueueControl
    <2>1. op.pc = "control" /\ UNCHANGED capture
      BY <1>7 DEF QueueControl, SendControl
    <2> QED  BY <2>1 DEF FrameInv
  <1>8. CASE CaptureSteps
    <2>1. CASE CaptureTakesRequest
      <3>1. capture'.pc = "sending"
        BY <2>1 DEF CaptureTakesRequest, PipelineTypeOK
      <3> QED  BY <3>1 DEF FrameInv
    <2>2. CASE CaptureSendsBarrier \/ CaptureEndsFrame
      <3>1. capture'.pc = "select"
        BY <2>2 DEF CaptureSendsBarrier, CaptureEndsFrame, PipelineTypeOK
      <3> QED  BY <3>1 DEF FrameInv
    <2> QED  BY <1>8, <2>1, <2>2 DEF CaptureSteps
  <1>9. CASE CaptureStartsFrame
    <2>1. /\ published = "Running" /\ capture'.taken = settings
          /\ UNCHANGED <<op, settings>>
      BY <1>9 DEF CaptureStartsFrame, PipelineTypeOK, vars, opVars
    <2>2. op.pc = "idle"
      BY <2>1 DEF CoordinatorInv, GateInv
    <2> QED  BY <2>1, <2>2 DEF FrameInv
  <1>10. CASE QueueMaintenance \/ ProcessorTakesSample \/ ProcessorTakesBarrier \/ Retry \/ Report
    <2>1. UNCHANGED <<op, settings, capture, injection>>
      BY <1>10, ReportMoves, FaultMoves
         DEF QueueMaintenance, ProcessorTakesSample, ProcessorTakesBarrier, Retry, Report,
             RestOfProcessor, pipeVars, vars, opVars
    <2> QED  BY <1>1, <2>1
  <1>11. CASE ProcessorSends \/ \E t \in Tasks : TaskEnds(t)
    <2>1. UNCHANGED <<op, settings, capture>> /\ (injection' = "ok" => injection = "ok")
      BY <1>11 DEF ProcessorSends, TaskEnds, Exit, TaskExits, AckInjection, vars, opVars
    <2> QED  BY <1>1, <2>1
  <1>12. CASE WriterSteps
    <2>1. lane # <<>> => Head(lane) \in Items
      BY TakeHead DEF PipelineTypeOK, Items
    <2>2. UNCHANGED <<capture, injection>>
      BY <1>12 DEF WriterSteps, WriterTakesData, WriterTakesMaintenance, WriterTakesControl,
                   MatchPending, DrainItem, DrainBarrier, DrainGivesUp, RestOfWriter
    <2>3. UNCHANGED <<op, settings>>
      BY <1>12, <2>1, DataMoves, FaultMoves, CompletionMoves
         DEF WriterSteps, WriterTakesData, WriterTakesMaintenance, WriterTakesControl,
             MatchPending, DrainItem, DrainBarrier, DrainGivesUp, Complete
    <2> QED  BY <1>1, <2>2, <2>3
  <1> QED
    BY <1>2, <1>3, <1>4, <1>5, <1>6, <1>7, <1>8, <1>9, <1>10, <1>11, <1>12
       DEF PipelineNext, CoordinatorSteps, ProcessorSteps

(* A sample carries the revision its frame was taken under. *)
StampedItems == {s \in Samples : s.rev = s.taken} \cup Barriers
StampInv ==
    /\ fifo \in Seq(StampedItems)
    /\ lane \in Seq(StampedItems \cup {Mismatch})

LEMMA StampStep ==
    ASSUME PipelineBase, FrameInv, StampInv, [PipelineNext]_allVars
    PROVE  StampInv'
  <1>1. capture.token \in Tokens /\ processor.item \in Barriers \cup {Mismatch}
    BY DEF PipelineBase, PipelineTypeOK
  <1>2. Item(capture.token) \in StampedItems /\ processor.item \in StampedItems \cup {Mismatch}
    BY <1>1 DEF StampedItems, Barriers
  <1>3. capture.pc = "capturing" => FrameSample \in StampedItems
    BY DEF FrameInv, FrameSample, StampedItems, Samples, PipelineBase, TypeOK
  <1> QED
    BY <1>2, <1>3, ItemFlow DEF StampInv, PipelineBase

(* The engine has the revision SharedState shows as applied, and a control *)
(* is sent and kept with that revision: nothing changes it between the     *)
(* start of an operation and the answer to its control. *)
EngineInv ==
    /\ ~blocked => engineRev = applied
    /\ op.pc \in {"inject", "control"} => op.expected = applied
    /\ \A c \in outstanding : c.expected = applied

LEMMA CompletedEngine ==
    ASSUME PipelineBase, LaneInv, EngineInv, job # NoJob, Complete
    PROVE  EngineInv'
  <1>1. job \in outstanding /\ op.pc \notin {"inject", "control"}
    BY NothingOutstanding DEF LaneInv
  <1>2. outstanding = {job}
    BY <1>1 DEF PipelineBase, CoordinatorInv, ControlInv, OneControlAtATime
  <1>3. WriterCommits(job) \/ WriterRefuses(job) \/ WriterBreaks(job)
    BY DEF Complete
  <1>4. outstanding' = {} /\ UNCHANGED <<op, blocked>>
    BY <1>2, <1>3, CompletionMoves
  <1>5. \/ engineRev' = engineRev /\ applied' = applied
        \/ engineRev' = job.target /\ applied' = job.target
    BY DEF Complete, WriterCommits, WriterRefuses, WriterBreaks
  <1> QED
    BY <1>1, <1>4, <1>5 DEF EngineInv

LEMMA EngineStep ==
    ASSUME PipelineBase, LaneInv, EngineInv, [PipelineNext]_allVars
    PROVE  EngineInv'
  <1> USE DEF PipelineBase
  <1>1. ASSUME UNCHANGED <<op, outstanding, applied, engineRev, blocked>> PROVE EngineInv'
    BY <1>1 DEF EngineInv
  <1>2. CASE UNCHANGED allVars
    BY <1>1, <1>2 DEF allVars, pipeVars, vars, writerVars, opVars
  <1>3. CASE Call
    <2>1. Caller /\ UNCHANGED engineRev
      BY <1>3 DEF Call, Caller, Offered, OpeningCommands, ClosingCommands, Sources, Commands
    <2> QED  BY <2>1, CallerMoves DEF EngineInv
  <1>4. CASE InjectionLost \/ ControlLost \/ Settle
    <2>1. Ending /\ UNCHANGED engineRev
      BY <1>4 DEF InjectionLost, ControlLost, Settle, Ending, pipeVars
    <2> QED  BY <2>1, EndingMoves DEF EngineInv, NoOp
  <1>5. CASE InjectionAcked
    <2>1. op.pc = "inject" /\ op'.expected = op.expected
          /\ UNCHANGED <<outstanding, applied, engineRev, blocked>>
      BY <1>5 DEF InjectionAcked, Injected, pipeVars, writerVars, TypeOK, Operations, NoOp
    <2> QED  BY <2>1 DEF EngineInv
  <1>6. CASE QueueControl
    <2>1. op.pc = "control" /\ op'.pc = "ack" /\ UNCHANGED <<applied, engineRev, blocked>>
          /\ \A c \in outstanding' : c \in outstanding \/ c.expected = op.expected
      BY <1>6 DEF QueueControl, SendControl, TypeOK, Operations, NoOp
    <2> QED  BY <2>1 DEF EngineInv
  <1>7. CASE \/ SendRequest \/ QueueMaintenance \/ CaptureSteps \/ CaptureStartsFrame
             \/ ProcessorTakesSample \/ ProcessorTakesBarrier \/ Retry \/ Report
    <2>1. UNCHANGED <<op, outstanding, applied, engineRev, blocked>>
      BY <1>7, ReportMoves, FaultMoves
         DEF SendRequest, QueueMaintenance, CaptureSteps, CaptureTakesRequest,
             CaptureSendsBarrier, CaptureEndsFrame, CaptureStartsFrame, ProcessorTakesSample,
             ProcessorTakesBarrier, Retry, Report, RestOfCapture, RestOfProcessor, pipeVars,
             vars, writerVars, opVars
    <2> QED  BY <1>1, <2>1
  <1>8. CASE ProcessorSends \/ \E t \in Tasks : TaskEnds(t)
    <2>1. UNCHANGED <<op, applied, engineRev, blocked>>
          /\ outstanding' \in {outstanding, {}}
      BY <1>8 DEF ProcessorSends, TaskEnds, Exit, TaskExits, vars, writerVars, opVars
    <2> QED  BY <2>1 DEF EngineInv
  <1>9. CASE WriterTakesData \/ DrainItem
    <2>1. /\ lane # <<>> /\ ProcessData(Head(lane)) /\ UNCHANGED engineRev
      BY <1>9 DEF WriterTakesData, DrainItem
    <2>2. Head(lane) \in Items
      BY <2>1, TakeHead DEF PipelineTypeOK, Items
    <2> QED  BY <1>1, <2>1, <2>2, DataMoves
  <1>10. CASE WriterTakesMaintenance \/ WriterTakesControl
    BY <1>1, <1>10, FaultMoves DEF WriterTakesMaintenance, WriterTakesControl
  <1>11. CASE MatchPending \/ DrainBarrier \/ DrainGivesUp
    <2>1. job # NoJob /\ (Complete \/ (WriterRefuses(job) /\ UNCHANGED engineRev))
      BY <1>11 DEF MatchPending, DrainBarrier, DrainGivesUp, Draining
    <2>2. CASE Complete
      BY <2>1, <2>2, CompletedEngine
    <2>3. CASE WriterRefuses(job) /\ UNCHANGED engineRev
      <3>1. outstanding' \subseteq outstanding /\ UNCHANGED <<op, applied, engineRev, blocked>>
        BY <2>3 DEF WriterRefuses, Answered, opVars
      <3> QED  BY <3>1 DEF EngineInv
    <2> QED  BY <2>1, <2>2, <2>3
  <1> QED
    BY <1>2, <1>3, <1>4, <1>5, <1>6, <1>7, <1>8, <1>9, <1>10, <1>11
       DEF PipelineNext, CoordinatorSteps, ProcessorSteps, WriterSteps

RevisionInv == LaneInv /\ FrameInv /\ StampInv /\ EngineInv

LEMMA RevisionInvHolds == PipelineSpec => [](PipelineBase /\ RevisionInv)
  <1>1. PipelineInit => RevisionInv
    <2> SUFFICES ASSUME PipelineInit PROVE RevisionInv
      OBVIOUS
    <2>1. /\ op.pc = "idle" /\ outstanding = {} /\ job = NoJob /\ capture.pc = "select"
          /\ fifo = <<>> /\ lane = <<>> /\ controlLane = <<>>
          /\ ~blocked => engineRev = applied
      BY DEF PipelineInit, Init, NoOp
    <2> QED  BY <2>1, EmptySeq DEF RevisionInv, LaneInv, FrameInv, StampInv, EngineInv
  <1>2. PipelineBase /\ RevisionInv /\ [PipelineNext]_allVars => RevisionInv'
    BY LaneStep, FrameStep, StampStep, EngineStep DEF RevisionInv
  <1> QED
    BY <1>1, <1>2, PipelineBaseHolds, PTL DEF PipelineSpec

(* A sample keeps the revision its frame was taken under, and after a      *)
(* start on trusted settings every control the Writer drains for expects   *)
(* exactly the revision of the engine: verify_engine_revision never        *)
(* refuses a live operation. *)
THEOREM PipelineRevisions == PipelineSpec => []RevisionsInStep
  <1>1. PipelineBase /\ RevisionInv => RevisionsInStep
    <2> SUFFICES ASSUME PipelineBase, RevisionInv PROVE RevisionsInStep
      OBVIOUS
    <2>1. ASSUME NEW i \in 1 .. Len(fifo), fifo[i].type = "sample"
          PROVE  fifo[i].rev = fifo[i].taken
      <3>1. fifo[i] \in StampedItems
        BY <2>1, ElementOfSeq DEF RevisionInv, StampInv
      <3> QED  BY <2>1, <3>1 DEF StampedItems, Barriers, Item
    <2>2. ASSUME NEW i \in 1 .. Len(lane), lane[i].type = "sample"
          PROVE  lane[i].rev = lane[i].taken
      <3>1. lane[i] \in StampedItems \cup {Mismatch}
        BY <2>2, ElementOfSeq DEF RevisionInv, StampInv
      <3> QED  BY <2>2, <3>1 DEF StampedItems, Barriers, Item, Mismatch
    <2>3. ~blocked /\ job # NoJob => job.expected = engineRev
      BY DEF RevisionInv, LaneInv, EngineInv
    <2> QED  BY <2>1, <2>2, <2>3 DEF RevisionsInStep
  <1> QED
    BY <1>1, RevisionInvHolds, PTL

-----------------------------------------------------------------------------
(* Operation numbers: no barrier on its way is of an operation to come.    *)

LowTokens == {t \in Tokens : t.id < nextId}
LowItems  == Samples \cup {Item(t) : t \in LowTokens}

(* Wherever a barrier is, its operation has been begun. *)
IdInv ==
    /\ op.pc # "idle" => op.id < nextId
    /\ \A c \in outstanding : c.id < nextId
    /\ requests \in Seq(LowTokens)
    /\ capture.pc = "sending" => capture.token \in LowTokens
    /\ fifo \in Seq(LowItems) /\ lane \in Seq(LowItems \cup {Mismatch})
    /\ processor.pc = "sending" => processor.item \in LowItems \cup {Mismatch}
    /\ pending \subseteq LowTokens
    /\ \A id \in poisoned : id < nextId

(* A new operation raises the next number: what was low stays low. *)
LEMMA LowGrows ==
    ASSUME PipelineBase, IdInv, nextId' = nextId + 1, op'.id = nextId,
           UNCHANGED <<requests, capture, fifo, lane, processor, pending, poisoned, outstanding>>
    PROVE  IdInv'
  <1> USE DEF PipelineBase
  <1>1. \A id \in Ids : id < nextId => id < nextId'
    BY DEF TypeOK, Ids
  <1>2. LowTokens \subseteq LowTokens'
    BY <1>1 DEF LowTokens, Tokens
  <1>3. LowItems \subseteq LowItems'
    BY <1>2 DEF LowItems
  <1>4. requests' \in Seq(LowTokens')
    BY <1>2, SeqMonotonic DEF IdInv
  <1>5. fifo' \in Seq(LowItems')
    BY <1>3, SeqMonotonic DEF IdInv
  <1>6. lane' \in Seq(LowItems' \cup {Mismatch})
    <2>1. LowItems \cup {Mismatch} \subseteq LowItems' \cup {Mismatch}
      BY <1>3
    <2> QED  BY <2>1, SeqMonotonic DEF IdInv
  <1>7. /\ capture'.pc = "sending" => capture'.token \in LowTokens'
        /\ processor'.pc = "sending" => processor'.item \in LowItems' \cup {Mismatch}
        /\ pending' \subseteq LowTokens'
    BY <1>2, <1>3 DEF IdInv
  <1>8. \A id \in poisoned' : id < nextId'
    BY <1>1 DEF IdInv, PipelineTypeOK
  <1>9. \A c \in outstanding' : c.id < nextId'
    BY <1>1 DEF IdInv, TypeOK, Controls
  <1>10. op'.id < nextId'
    BY DEF TypeOK, Ids
  <1> QED
    BY <1>4, <1>5, <1>6, <1>7, <1>8, <1>9, <1>10 DEF IdInv

LEMMA IdStep ==
    ASSUME PipelineBase, LaneInv, IdInv, [PipelineNext]_allVars
    PROVE  IdInv'
  <1> USE DEF PipelineBase
  <1>0. nextId' = nextId => LowTokens' = LowTokens /\ LowItems' = LowItems
    BY DEF LowTokens, LowItems
  <1>1. fifo' \in Seq(LowItems) /\ lane' \in Seq(LowItems \cup {Mismatch})
    <2>1. capture.pc = "sending" => Item(capture.token) \in LowItems
      BY DEF IdInv, LowItems
    <2>2. capture.pc = "capturing" => FrameSample \in LowItems
      BY DEF FrameSample, LowItems, Samples, TypeOK, PipelineTypeOK
    <2> QED  BY <2>1, <2>2, ItemFlow DEF IdInv
  <1>2. ASSUME UNCHANGED <<nextId, requests, capture, processor, pending, poisoned>>,
               outstanding' \subseteq outstanding,
               op'.pc # "idle" => op.pc # "idle" /\ op'.id = op.id
        PROVE  IdInv'
    BY <1>0, <1>1, <1>2 DEF IdInv
  <1>3. CASE UNCHANGED allVars
    BY <1>2, <1>3 DEF allVars, pipeVars, vars, writerVars, opVars
  <1>4. CASE Call
    <2>1. /\ Caller
          /\ UNCHANGED <<requests, capture, fifo, lane, processor, pending, poisoned>>
      BY <1>4 DEF Call, Caller, Offered, OpeningCommands, ClosingCommands, Sources, Commands
    <2> QED  BY <1>2, <2>1, CallerMoves, LowGrows
  <1>5. CASE InjectionLost \/ ControlLost \/ Settle
    <2>1. Ending /\ UNCHANGED pipeVars
      BY <1>5 DEF InjectionLost, ControlLost, Settle, Ending
    <2> QED  BY <1>2, <2>1, EndingMoves DEF NoOp, pipeVars
  <1>6. CASE SendRequest
    <2>1. op.pc = "inject" /\ op \in Operations
      BY <1>6 DEF SendRequest, TypeOK, NoOp
    <2>2. TokenOf(op) \in LowTokens
      BY <2>1, TokenType DEF LowTokens, IdInv, Operations, TokenOf
    <2>3. requests' \in Seq(LowTokens)
      BY <1>6, <2>2, AppendLast DEF SendRequest, IdInv
    <2>4. UNCHANGED <<nextId, op, outstanding, capture, processor, pending, poisoned>>
      BY <1>6 DEF SendRequest, vars, writerVars, opVars
    <2> QED  BY <1>0, <1>1, <2>3, <2>4 DEF IdInv
  <1>7. CASE InjectionAcked
    <2>1. op'.id = op.id /\ op.pc # "idle" /\ UNCHANGED <<nextId, outstanding, pipeVars>>
      BY <1>7 DEF InjectionAcked, Injected, writerVars, TypeOK, Operations, NoOp
    <2> QED  BY <1>2, <2>1 DEF pipeVars
  <1>8. CASE QueueControl
    <2>1. /\ op'.id = op.id /\ op.pc # "idle"
          /\ UNCHANGED <<nextId, requests, capture, processor, pending, poisoned>>
          /\ \A c \in outstanding' : c \in outstanding \/ c.id = op.id
      BY <1>8 DEF QueueControl, SendControl, TypeOK, Operations, NoOp
    <2> QED  BY <1>0, <1>1, <2>1 DEF IdInv
  <1>9. CASE CaptureTakesRequest
    <2>1. Head(requests) \in LowTokens /\ requests' \in Seq(LowTokens)
      BY <1>9, TakeHead DEF CaptureTakesRequest, IdInv
    <2>2. capture'.token = Head(requests)
      BY <1>9 DEF CaptureTakesRequest, PipelineTypeOK
    <2>3. UNCHANGED <<nextId, op, outstanding, processor, pending, poisoned>>
      BY <1>9 DEF CaptureTakesRequest, RestOfCapture, vars, writerVars, opVars
    <2> QED  BY <1>0, <1>1, <2>1, <2>2, <2>3 DEF IdInv
  <1>10. CASE CaptureSendsBarrier \/ CaptureEndsFrame \/ CaptureStartsFrame
    <2>1. /\ capture'.pc # "sending"
          /\ UNCHANGED <<nextId, op, outstanding, requests, processor, pending, poisoned>>
      BY <1>10 DEF CaptureSendsBarrier, CaptureEndsFrame, CaptureStartsFrame, RestOfCapture,
                   vars, writerVars, opVars, PipelineTypeOK
    <2> QED  BY <1>0, <1>1, <2>1 DEF IdInv
  <1>11. CASE QueueMaintenance \/ Retry \/ Report
    <2>1. UNCHANGED <<nextId, op, outstanding, requests, capture, processor, pending, poisoned>>
      BY <1>11, ReportMoves, FaultMoves DEF QueueMaintenance, Retry, Report, pipeVars, vars,
                   writerVars, opVars
    <2> QED  BY <1>2, <2>1
  <1>12. CASE ProcessorTakesSample \/ ProcessorTakesBarrier
    <2>1. UNCHANGED <<nextId, op, outstanding, requests, capture, pending, poisoned>>
      BY <1>12 DEF ProcessorTakesSample, ProcessorTakesBarrier, RestOfProcessor, vars,
                   writerVars, opVars
    <2>2. fifo # <<>> => Head(fifo) \in LowItems
      BY TakeHead DEF IdInv
    <2>3. processor'.pc = "sending" => processor'.item \in LowItems \cup {Mismatch}
      BY <1>12, <2>2 DEF ProcessorTakesSample, ProcessorTakesBarrier, IdInv
    <2> QED  BY <1>0, <1>1, <2>1, <2>3 DEF IdInv
  <1>13. CASE ProcessorSends
    <2>1. /\ UNCHANGED <<nextId, op, capture, pending, poisoned>>
          /\ outstanding' \subseteq outstanding
          /\ requests' = requests
          /\ processor'.pc # "sending"
      BY <1>13 DEF ProcessorSends, Exit, TaskExits, vars, writerVars, opVars, PipelineTypeOK
    <2> QED  BY <1>0, <1>1, <2>1 DEF IdInv
  <1>14. ASSUME NEW t \in Tasks, TaskEnds(t) PROVE IdInv'
    <2>1. /\ UNCHANGED <<nextId, op, capture, processor, pending, poisoned>>
          /\ outstanding' \subseteq outstanding
          /\ requests' \in {requests, <<>>}
      BY <1>14 DEF TaskEnds, Exit, TaskExits, opVars
    <2>2. requests' \in Seq(LowTokens)
      BY <2>1, EmptySeq DEF IdInv
    <2> QED  BY <1>0, <1>1, <2>1, <2>2 DEF IdInv
  <1>15. CASE WriterTakesData \/ DrainItem
    <2>1. /\ lane # <<>> /\ ProcessData(Head(lane))
          /\ UNCHANGED <<requests, capture, processor, poisoned>>
      BY <1>15 DEF WriterTakesData, DrainItem, RestOfWriter
    <2>2. Head(lane) \in Items /\ Head(lane) \in LowItems \cup {Mismatch}
      BY <2>1, TakeHead DEF PipelineTypeOK, Items, IdInv
    <2>3. Head(lane).type = "barrier" => Head(lane).token \in LowTokens
      BY <2>2 DEF LowItems, Item, Samples, Mismatch
    <2>4. pending' \subseteq LowTokens
      BY <2>1, <2>2, <2>3, ItemKinds DEF ProcessData, IdInv
    <2>5. UNCHANGED <<nextId, op, outstanding>>
      BY <2>1, <2>2, DataMoves
    <2> QED  BY <1>0, <1>1, <2>1, <2>4, <2>5 DEF IdInv
  <1>16. CASE WriterTakesMaintenance \/ WriterTakesControl
    BY <1>2, <1>16, FaultMoves DEF WriterTakesMaintenance, WriterTakesControl, RestOfWriter
  <1>17. CASE MatchPending \/ DrainBarrier \/ DrainGivesUp
    <2>1. job # NoJob /\ (WriterCommits(job) \/ WriterRefuses(job) \/ WriterBreaks(job))
      BY <1>17 DEF MatchPending, DrainBarrier, DrainGivesUp, Draining, Complete
    <2>2. UNCHANGED <<nextId, op>> /\ outstanding' \subseteq outstanding /\ job.id < nextId
      BY <2>1, CompletionMoves DEF IdInv
    <2>3. /\ UNCHANGED <<requests, capture, processor>> /\ pending' \subseteq pending
          /\ poisoned' \subseteq poisoned \cup {job.id}
      BY <1>17 DEF MatchPending, DrainBarrier, DrainGivesUp, Complete, RestOfWriter
    <2> QED  BY <1>0, <1>1, <2>2, <2>3 DEF IdInv
  <1> QED
    BY <1>3, <1>4, <1>5, <1>6, <1>7, <1>8, <1>9, <1>10, <1>11, <1>12, <1>13, <1>14, <1>15,
       <1>16, <1>17
       DEF PipelineNext, CoordinatorSteps, CaptureSteps, ProcessorSteps, WriterSteps

-----------------------------------------------------------------------------
(* The order of samples and barriers.                                      *)

SampleFree(q) == \A i \in 1 .. Len(q) : q[i].type # "sample"
BarrierOf(item, id) == item.type = "barrier" /\ item.token.id = id
OrderedBehind(q, id) ==
    \A i, j \in 1 .. Len(q) : i < j /\ BarrierOf(q[i], id) => q[j].type # "sample"

InLane(id)      == \E i \in 1 .. Len(lane) : BarrierOf(lane[i], id)
InProcessor(id) == processor.pc = "sending" /\ BarrierOf(processor.item, id)
InPending(id)   == \E t \in pending : t.id = id

(* Behind the barrier of an operation there is no sample any more, in      *)
(* whatever queue the barrier has arrived. *)
Trail(id) ==
    /\ OrderedBehind(fifo, id) /\ OrderedBehind(lane, id)
    /\ InLane(id) \/ InProcessor(id) \/ InPending(id) => SampleFree(fifo)
    /\ InPending(id) => SampleFree(lane)

(* The operations whose barrier still matters: the one in progress, and    *)
(* the one of a control the Writer may complete after it was given up.     *)
Watched(id) == \/ op.pc # "idle" /\ id = op.id
               \/ \E c \in outstanding : id = c.id

(* Once a boundary is committed no sample is left on its way until Running *)
(* is published again, because none was behind the boundary's barrier. *)
OrderInv ==
    /\ published = "Running" => ~bounded
    /\ bounded => SampleFree(fifo) /\ SampleFree(lane)
    /\ \A id \in Ids : Watched(id) => Trail(id)

(* Nothing is watched while samples are taken. *)
LEMMA WatchedIsClosed ==
    ASSUME PipelineBase, NEW id, Watched(id)
    PROVE  published # "Running"
  BY DEF PipelineBase, CoordinatorInv, GateInv, ControlInv, GateOpen, Watched

(* Being free of samples is being a queue of the other items. *)
LEMMA SampleFreeSeq ==
    ASSUME NEW q \in Seq(Items)
    PROVE  SampleFree(q) <=> q \in Seq(Barriers \cup {Mismatch})
  <1>1. ASSUME SampleFree(q) PROVE q \in Seq(Barriers \cup {Mismatch})
    <2>1. \A i \in 1 .. Len(q) : q[i] \in Barriers \cup {Mismatch}
      BY <1>1, ElementOfSeq, ItemKinds DEF SampleFree, Items
    <2>2. Len(q) \in Nat /\ q \in [1 .. Len(q) -> Items]
      BY LenProperties
    <2>3. q \in [1 .. Len(q) -> Barriers \cup {Mismatch}]
      BY <2>1, <2>2
    <2> QED  BY <2>2, <2>3, SeqDef
  <1>2. ASSUME q \in Seq(Barriers \cup {Mismatch}) PROVE SampleFree(q)
    <2>1. \A i \in 1 .. Len(q) : q[i] \in Barriers \cup {Mismatch}
      BY <1>2, ElementOfSeq
    <2> QED  BY <2>1 DEF SampleFree, Barriers, Item, Mismatch
  <1> QED
    BY <1>1, <1>2

(* Taking the head keeps the order, and behind a barrier at the head there *)
(* is no sample. *)
LEMMA TakeOrdered ==
    ASSUME NEW q \in Seq(Items), q # <<>>, NEW id
    PROVE  /\ OrderedBehind(q, id) => OrderedBehind(Tail(q), id)
           /\ OrderedBehind(q, id) /\ BarrierOf(Head(q), id) => SampleFree(Tail(q))
           /\ SampleFree(q) => SampleFree(Tail(q))
           /\ (\E i \in 1 .. Len(Tail(q)) : BarrierOf(Tail(q)[i], id))
                => \E i \in 1 .. Len(q) : BarrierOf(q[i], id)
           /\ BarrierOf(Head(q), id) => \E i \in 1 .. Len(q) : BarrierOf(q[i], id)
  <1>1. /\ Head(q) = q[1] /\ 1 \in 1 .. Len(q) /\ Len(Tail(q)) \in Nat
        /\ \A i \in 1 .. Len(Tail(q)) : i + 1 \in 1 .. Len(q) /\ Tail(q)[i] = q[i + 1]
    BY TakeHead, LenProperties
  <1>2. OrderedBehind(q, id) => OrderedBehind(Tail(q), id)
    <2> SUFFICES ASSUME OrderedBehind(q, id),
                        NEW i \in 1 .. Len(Tail(q)), NEW j \in 1 .. Len(Tail(q)),
                        i < j, BarrierOf(Tail(q)[i], id)
                 PROVE  Tail(q)[j].type # "sample"
      BY DEF OrderedBehind
    <2>1. i + 1 < j + 1
      OBVIOUS
    <2> QED  BY <1>1, <2>1 DEF OrderedBehind
  <1>3. OrderedBehind(q, id) /\ BarrierOf(Head(q), id) => SampleFree(Tail(q))
    <2> SUFFICES ASSUME OrderedBehind(q, id), BarrierOf(Head(q), id),
                        NEW j \in 1 .. Len(Tail(q))
                 PROVE  Tail(q)[j].type # "sample"
      BY DEF SampleFree
    <2>1. 1 < j + 1
      OBVIOUS
    <2> QED  BY <1>1, <2>1 DEF OrderedBehind
  <1>4. SampleFree(q) => SampleFree(Tail(q))
    BY <1>1 DEF SampleFree
  <1> QED
    BY <1>1, <1>2, <1>3, <1>4

(* Appending a barrier or a mismatch keeps the order; a sample does if no  *)
(* such barrier is before it. *)
LEMMA AppendOrdered ==
    ASSUME NEW q \in Seq(Items), NEW item \in Items, NEW id
    PROVE  /\ OrderedBehind(q, id)
              /\ (item.type # "sample" \/ ~\E i \in 1 .. Len(q) : BarrierOf(q[i], id))
                => OrderedBehind(Append(q, item), id)
           /\ SampleFree(q) /\ item.type # "sample" => SampleFree(Append(q, item))
           /\ (\E i \in 1 .. Len(Append(q, item)) : BarrierOf(Append(q, item)[i], id))
                => BarrierOf(item, id) \/ \E i \in 1 .. Len(q) : BarrierOf(q[i], id)
  <1>1. /\ Len(q) \in Nat /\ Len(Append(q, item)) = Len(q) + 1
        /\ \A i \in 1 .. Len(q) + 1 :
              Append(q, item)[i] = IF i = Len(q) + 1 THEN item ELSE q[i]
    BY AppendLast
  <1>2. OrderedBehind(q, id)
        /\ (item.type # "sample" \/ ~\E i \in 1 .. Len(q) : BarrierOf(q[i], id))
          => OrderedBehind(Append(q, item), id)
    <2> SUFFICES ASSUME OrderedBehind(q, id),
                        item.type # "sample" \/ ~\E i \in 1 .. Len(q) : BarrierOf(q[i], id),
                        NEW i \in 1 .. Len(q) + 1, NEW j \in 1 .. Len(q) + 1,
                        i < j, BarrierOf(Append(q, item)[i], id)
                 PROVE  Append(q, item)[j].type # "sample"
      BY <1>1 DEF OrderedBehind
    <2>1. i \in 1 .. Len(q) /\ BarrierOf(q[i], id) /\ item.type # "sample"
      BY <1>1
    <2>2. CASE j = Len(q) + 1
      BY <1>1, <2>1, <2>2
    <2>3. CASE j \in 1 .. Len(q)
      BY <1>1, <2>1, <2>3 DEF OrderedBehind
    <2> QED  BY <1>1, <2>2, <2>3
  <1>3. SampleFree(q) /\ item.type # "sample" => SampleFree(Append(q, item))
    BY <1>1 DEF SampleFree
  <1>4. (\E i \in 1 .. Len(Append(q, item)) : BarrierOf(Append(q, item)[i], id))
          => BarrierOf(item, id) \/ \E i \in 1 .. Len(q) : BarrierOf(q[i], id)
    BY <1>1
  <1> QED
    BY <1>2, <1>3, <1>4

(* An empty queue is in order. *)
LEMMA EmptyOrdered ==
    ASSUME NEW id
    PROVE  OrderedBehind(<<>>, id) /\ SampleFree(<<>>) /\ 1 .. Len(<<>>) = {}
  BY EmptySeq DEF OrderedBehind, SampleFree

(* The barrier of a watched operation keeps its trail free of samples.     *)
LEMMA TrailStep ==
    ASSUME PipelineBase, [PipelineNext]_allVars, NEW id, Trail(id), published # "Running"
    PROVE  Trail(id)'
  <1> USE DEF PipelineBase
  <1>0. /\ fifo \in Seq(Items) /\ lane \in Seq(Items)
        /\ processor.item \in Items /\ processor.item.type # "sample"
    <2>1. Samples \cup Barriers \subseteq Items /\ Samples \cup Barriers \cup {Mismatch} = Items
      BY DEF Items
    <2>2. processor.item \in Barriers \cup {Mismatch}
      BY DEF PipelineTypeOK
    <2>3. fifo \in Seq(Items)
      BY <2>1, SeqMonotonic DEF PipelineTypeOK
    <2>4. lane \in Seq(Items)
      BY <2>1 DEF PipelineTypeOK
    <2> QED  BY <2>2, <2>3, <2>4 DEF Items, Barriers, Item, Mismatch
  <1>1. ASSUME UNCHANGED <<fifo, lane, processor>>, pending' \subseteq pending PROVE Trail(id)'
    BY <1>1 DEF Trail, InLane, InProcessor, InPending
  <1>2. CASE \/ UNCHANGED allVars
             \/ Call \/ QueueMaintenance \/ CaptureStartsFrame \/ CoordinatorSteps
             \/ CaptureTakesRequest \/ Retry \/ Report
    <2>1. UNCHANGED <<fifo, lane, processor, pending>>
      BY <1>2 DEF allVars, pipeVars, Call, QueueMaintenance, CaptureStartsFrame,
                  CoordinatorSteps, SendRequest, InjectionAcked, InjectionLost, QueueControl,
                  ControlLost, Settle, CaptureTakesRequest, Retry, Report, RestOfCapture
    <2> QED  BY <1>1, <2>1
  <1>3. CASE CaptureSendsBarrier
    <2> DEFINE item == Item(capture.token)
    <2>1. fifo' = Append(fifo, item) /\ UNCHANGED <<lane, processor, pending>>
      BY <1>3 DEF CaptureSendsBarrier, RestOfCapture
    <2>2. item \in Items /\ item.type # "sample"
      BY DEF PipelineTypeOK, Items, Barriers, Item
    <2> HIDE DEF item
    <2>3. /\ OrderedBehind(fifo', id)
          /\ SampleFree(fifo) => SampleFree(fifo')
      BY <1>0, <2>1, <2>2, AppendOrdered DEF Trail
    <2> QED  BY <2>1, <2>3 DEF Trail, InLane, InProcessor, InPending
  <1>4. CASE CaptureEndsFrame
    <2>1. UNCHANGED <<fifo, lane, processor, pending>>
      BY <1>4 DEF CaptureEndsFrame, RestOfCapture
    <2> QED  BY <1>1, <2>1
  <1>5. CASE ProcessorTakesSample
    <2>1. /\ fifo # <<>> /\ Head(fifo).type = "sample" /\ fifo' = Tail(fifo)
          /\ UNCHANGED pending
          /\ \/ lane' = lane /\ ~InProcessor(id)'
             \/ lane' = Append(lane, Head(fifo)) /\ ~InProcessor(id)'
      BY <1>5 DEF ProcessorTakesSample, RestOfProcessor, InProcessor, BarrierOf, Mismatch
    <2>2. Head(fifo) \in Items /\ Head(fifo) = fifo[1] /\ 1 \in 1 .. Len(fifo)
      BY <1>0, <2>1, TakeHead
    <2>3. ~SampleFree(fifo)
      BY <2>1, <2>2 DEF SampleFree
    <2>4. ~InLane(id) /\ ~InPending(id)
      BY <2>3 DEF Trail
    <2>5. OrderedBehind(fifo', id) /\ OrderedBehind(lane', id)
      <3>1. OrderedBehind(fifo', id)
        BY <1>0, <2>1, TakeOrdered DEF Trail
      <3>2. OrderedBehind(Append(lane, Head(fifo)), id)
        BY <1>0, <2>2, <2>4, AppendOrdered DEF Trail, InLane
      <3> QED  BY <2>1, <3>1, <3>2 DEF Trail
    <2>6. ~InLane(id)'
      BY <1>0, <2>1, <2>2, <2>4, AppendOrdered DEF InLane, BarrierOf
    <2>7. ~InPending(id)'
      BY <2>1, <2>4 DEF InPending
    <2> QED  BY <2>1, <2>5, <2>6, <2>7 DEF Trail
  <1>6. CASE ProcessorTakesBarrier
    <2>1. /\ fifo # <<>> /\ fifo' = Tail(fifo)
          /\ UNCHANGED <<lane, pending>> /\ processor'.item = Head(fifo)
      BY <1>6 DEF ProcessorTakesBarrier, RestOfProcessor
    <2>2. /\ OrderedBehind(fifo', id)
          /\ BarrierOf(Head(fifo), id) => SampleFree(fifo')
          /\ SampleFree(fifo) => SampleFree(fifo')
      BY <1>0, <2>1, TakeOrdered DEF Trail
    <2> QED  BY <2>1, <2>2 DEF Trail, InLane, InProcessor, InPending
  <1>7. CASE ProcessorSends
    <2>1. /\ lane' = Append(lane, processor.item) /\ fifo' \in {fifo, <<>>}
          /\ UNCHANGED pending /\ processor.pc = "sending" /\ processor'.pc = "recv"
      BY <1>7 DEF ProcessorSends, Exit, PipelineTypeOK
    <2>2. /\ OrderedBehind(lane', id)
          /\ SampleFree(lane) => SampleFree(lane')
          /\ InLane(id)' => BarrierOf(processor.item, id) \/ InLane(id)
      BY <1>0, <2>1, AppendOrdered DEF Trail, InLane
    <2>3. OrderedBehind(fifo', id) /\ (SampleFree(fifo) => SampleFree(fifo'))
      BY <2>1, EmptyOrdered DEF Trail
    <2> QED  BY <2>1, <2>2, <2>3 DEF Trail, InProcessor, InPending
  <1>8. ASSUME NEW t \in Tasks, TaskEnds(t) PROVE Trail(id)'
    <2>1. /\ fifo' \in {fifo, <<>>} /\ lane' \in {lane, <<>>}
          /\ UNCHANGED <<processor, pending>>
      BY <1>8 DEF TaskEnds, Exit
    <2>2. OrderedBehind(fifo', id) /\ (SampleFree(fifo) => SampleFree(fifo'))
      BY <2>1, EmptyOrdered DEF Trail
    <2>3. /\ OrderedBehind(lane', id) /\ (SampleFree(lane) => SampleFree(lane'))
          /\ InLane(id)' => InLane(id)
      BY <2>1, EmptyOrdered DEF Trail, InLane
    <2> QED  BY <2>1, <2>2, <2>3 DEF Trail, InProcessor, InPending
  <1>9. lane # <<>> =>
          /\ Head(lane) \in Items
          /\ OrderedBehind(Tail(lane), id)
          /\ BarrierOf(Head(lane), id) => SampleFree(Tail(lane)) /\ SampleFree(fifo)
          /\ SampleFree(lane) => SampleFree(Tail(lane))
          /\ (\E i \in 1 .. Len(Tail(lane)) : BarrierOf(Tail(lane)[i], id)) => InLane(id)
    BY <1>0, TakeHead, TakeOrdered DEF Trail, InLane
  <1>10. CASE WriterTakesData \/ DrainItem
    <2>1. /\ lane # <<>> /\ ProcessData(Head(lane)) /\ lane' = Tail(lane)
          /\ UNCHANGED <<fifo, processor>>
      BY <1>10 DEF WriterTakesData, DrainItem, RestOfWriter
    <2>2. InPending(id)' => InPending(id) \/ BarrierOf(Head(lane), id)
      BY <1>9, <2>1, ItemKinds DEF ProcessData, InPending, BarrierOf
    <2> QED  BY <1>9, <2>1, <2>2 DEF Trail, InLane, InProcessor
  <1>11. CASE WriterTakesMaintenance \/ WriterTakesControl \/ MatchPending \/ DrainGivesUp
    <2>1. UNCHANGED <<fifo, lane, processor>> /\ pending' \subseteq pending
      BY <1>11 DEF WriterTakesMaintenance, WriterTakesControl, MatchPending, DrainGivesUp,
                   RestOfWriter
    <2> QED  BY <1>1, <2>1
  <1>12. CASE DrainBarrier
    <2>1. lane # <<>> /\ lane' = Tail(lane) /\ UNCHANGED <<fifo, processor, pending>>
      BY <1>12 DEF DrainBarrier, RestOfWriter
    <2> QED  BY <1>9, <2>1 DEF Trail, InLane, InProcessor, InPending
  <1> QED
    BY <1>2, <1>3, <1>4, <1>5, <1>6, <1>7, <1>8, <1>10, <1>11, <1>12
       DEF PipelineNext, CaptureSteps, ProcessorSteps, WriterSteps

(* The history variable of the ledger follows the gate in every step but a *)
(* commit of the Writer. *)
GateFollows == bounded' = (bounded /\ published' # "Running")

LEMMA GateMoves ==
    ASSUME bounded \in BOOLEAN, published = "Running" => ~bounded, [QuietNext]_vars
    PROVE  GateFollows
  <1>1. ASSUME NEW c, NEW state, ShowState(c, state) PROVE GateFollows
    BY <1>1 DEF ShowState, GateFollows
  <1>2. ASSUME UNCHANGED <<published, bounded>> PROVE GateFollows
    BY <1>2 DEF GateFollows
  <1>3. ASSUME MarkFatal PROVE GateFollows
    BY <1>3 DEF MarkFatal, GateFollows
  <1>4. ASSUME NEW c, \/ PublishOrStop(c) \/ PublishOrStopSuppressed(c) \/ PublishOrKeep(c)
                      \/ KeepUnpublished(c) \/ ForceStopped(c)
        PROVE  GateFollows
    BY <1>1, <1>4 DEF PublishOrStop, PublishOrStopSuppressed, PublishOrKeep, Publish,
                      ForceStopped, ForceStoppedKeepSuppression, KeepUnpublished
  <1>5. ASSUME NEW kind, NEW c, NEW target, BeginTransition(kind, c, target) PROVE GateFollows
    BY <1>4, <1>5 DEF BeginTransition
  <1>6. ASSUME LatchWriterFault PROVE GateFollows
    BY <1>1, <1>6 DEF LatchWriterFault
  <1>7. ASSUME NEW kind, EndUncommitted(kind) \/ EndRefused(kind) \/ EndCommitted(kind)
        PROVE  GateFollows
    BY <1>4, <1>7 DEF EndUncommitted, EndRefused, EndCommitted
  <1>8. CASE Caller
    BY <1>1, <1>4, <1>5, <1>8 DEF Caller, AnswerCommand, OpenGate, BeginClose, BeginSettings,
       BeginEnter, Release, LatchMonitorFault
  <1>9. CASE Operation
    BY <1>2, <1>6, <1>7, <1>9 DEF Operation, Injected, InjectFailed, SendControl,
       ControlNotQueued, AckCommitted, AckRefused, AckUnknown, gateVars, writerVars
  <1>10. CASE Cancel \/ Supervisor
    BY <1>2, <1>6, <1>10 DEF Cancel, Supervisor, ReportExit, gateVars
  <1>11. CASE WriterFails \/ WriterRetries \/ (\E t \in Tasks : TaskExits(t)) \/ UNCHANGED vars
    BY <1>2, <1>3, <1>11 DEF WriterFails, WriterRetries, TaskExits, gateVars, writerVars, vars
  <1>12. ASSUME NEW c \in outstanding, WriterRefuses(c) \/ WriterBreaks(c) PROVE GateFollows
    BY <1>2, <1>3, <1>12 DEF WriterRefuses, WriterBreaks, gateVars
  <1> QED
    BY <1>8, <1>9, <1>10, <1>11, <1>12 DEF QuietNext

(* A commit of a boundary leaves no sample on its way. *)
LEMMA CommitFindsNoSample ==
    ASSUME PipelineBase, LaneInv, IdInv, OrderInv, CommitsBoundary
    PROVE  /\ published # "Running" /\ UNCHANGED published
           /\ SampleFree(fifo') /\ SampleFree(lane')
  <1> USE DEF PipelineBase
  <1>1. job \in outstanding /\ Watched(job.id)
    BY DEF CommitsBoundary, FoundBarrier, LaneInv, Watched
  <1>2. published # "Running"
    BY <1>1, WatchedIsClosed
  <1>3. UNCHANGED published
    BY DEF CommitsBoundary, WriterCommits, gateVars
  <1>4. job.id \in Ids
    BY <1>1 DEF TypeOK, Controls
  <1>5. Trail(job.id)
    BY <1>1, <1>4 DEF OrderInv
  <1>6. TokenOf(job).id = job.id /\ BarrierOf(Item(TokenOf(job)), job.id)
    BY DEF TokenOf, BarrierOf, Item
  <1>7. CASE TokenOf(job) \in pending /\ UNCHANGED <<fifo, lane>>
    <2>1. InPending(job.id)
      BY <1>6, <1>7 DEF InPending
    <2> QED  BY <1>2, <1>3, <1>5, <1>7, <2>1 DEF Trail
  <1>8. CASE lane # <<>> /\ Head(lane) = Item(TokenOf(job)) /\ lane' = Tail(lane) /\ UNCHANGED fifo
    <2>1. lane \in Seq(Items)
      BY DEF PipelineTypeOK, Items
    <2>2. SampleFree(Tail(lane)) /\ InLane(job.id)
      BY <1>5, <1>6, <1>8, <2>1, TakeOrdered DEF Trail, InLane
    <2> QED  BY <1>2, <1>3, <1>5, <1>8, <2>2 DEF Trail
  <1> QED
    BY <1>7, <1>8 DEF CommitsBoundary, FoundBarrier

(* While the gate is closed no sample enters a queue that has none. *)
LEMMA StaysSampleFree ==
    ASSUME PipelineBase, PipelineTypeOK', [PipelineNext]_allVars, published # "Running",
           SampleFree(fifo), SampleFree(lane)
    PROVE  SampleFree(fifo') /\ SampleFree(lane')
  <1> USE DEF PipelineBase
  <1> DEFINE F == Barriers \cup {Mismatch}
  <1>1. fifo \in Seq(Items) /\ fifo' \in Seq(Items)
    <2>1. Samples \cup Barriers \subseteq Items
      BY DEF Items
    <2> QED  BY <2>1, SeqMonotonic DEF PipelineTypeOK
  <1>2. lane \in Seq(Items) /\ lane' \in Seq(Items)
    BY DEF PipelineTypeOK, Items
  <1>3. fifo \in Seq(F) /\ lane \in Seq(F)
    BY <1>1, <1>2, SampleFreeSeq
  <1>4. Item(capture.token) \in F /\ processor.item \in F
    BY DEF PipelineTypeOK, Barriers
  <1> HIDE DEF F
  <1>5. fifo' \in Seq(F) /\ lane' \in Seq(F)
    BY <1>3, <1>4, ItemFlow
  <1> QED
    BY <1>1, <1>2, <1>5, SampleFreeSeq DEF F

(* An operation that begins is watched under a number no barrier has yet. *)
LEMMA FreshTrail ==
    ASSUME PipelineBase, IdInv
    PROVE  Trail(nextId)
  <1> USE DEF PipelineBase
  <1>1. \A item \in LowItems \cup {Mismatch} : ~BarrierOf(item, nextId)
    BY DEF LowItems, LowTokens, Tokens, Ids, TypeOK, BarrierOf, Item, Samples, Mismatch
  <1>2. \A i \in 1 .. Len(fifo) : ~BarrierOf(fifo[i], nextId)
    BY <1>1, ElementOfSeq DEF IdInv
  <1>3. \A i \in 1 .. Len(lane) : ~BarrierOf(lane[i], nextId)
    BY <1>1, ElementOfSeq DEF IdInv
  <1>4. ~InProcessor(nextId)
    BY <1>1 DEF IdInv, InProcessor
  <1>5. ~InPending(nextId)
    BY DEF IdInv, InPending, LowTokens, TypeOK, Ids
  <1> QED
    BY <1>2, <1>3, <1>4, <1>5 DEF Trail, OrderedBehind, InLane

(* What is watched after a step was watched before it, but for the         *)
(* operation a caller begins. *)
LEMMA WatchedStep ==
    ASSUME PipelineBase, [PipelineNext]_allVars, NEW id, Watched(id)'
    PROVE  Watched(id) \/ (id = nextId /\ UNCHANGED <<fifo, lane, processor, pending>>)
  <1> USE DEF PipelineBase
  <1>1. ASSUME op'.pc # "idle" => op.pc # "idle" /\ op'.id = op.id,
               \A c \in outstanding' : c \in outstanding \/ (op.pc # "idle" /\ c.id = op.id)
        PROVE  Watched(id)
    BY <1>1 DEF Watched
  <1>2. CASE Call
    <2>1. Caller /\ UNCHANGED <<fifo, lane, processor, pending>>
      BY <1>2 DEF Call, Caller, Offered, OpeningCommands, ClosingCommands, Sources, Commands
    <2> QED  BY <2>1, CallerMoves DEF Watched
  <1>3. CASE InjectionLost \/ ControlLost \/ Settle
    <2>1. Ending
      BY <1>3 DEF InjectionLost, ControlLost, Settle, Ending
    <2> QED  BY <1>1, <2>1, EndingMoves DEF NoOp
  <1>4. CASE InjectionAcked
    <2>1. op'.id = op.id /\ op.pc # "idle" /\ UNCHANGED outstanding
      BY <1>4 DEF InjectionAcked, Injected, writerVars, TypeOK, Operations, NoOp
    <2> QED  BY <1>1, <2>1
  <1>5. CASE QueueControl
    <2>1. /\ op'.id = op.id /\ op.pc # "idle"
          /\ \A c \in outstanding' : c \in outstanding \/ c.id = op.id
      BY <1>5 DEF QueueControl, SendControl, TypeOK, Operations, NoOp
    <2> QED  BY <1>1, <2>1
  <1>6. CASE \/ UNCHANGED allVars
             \/ SendRequest \/ QueueMaintenance \/ CaptureSteps \/ CaptureStartsFrame
             \/ ProcessorTakesSample \/ ProcessorTakesBarrier \/ Retry \/ Report
    <2>1. UNCHANGED <<op, outstanding>>
      BY <1>6, ReportMoves, FaultMoves
         DEF allVars, SendRequest, QueueMaintenance, CaptureSteps, CaptureTakesRequest,
             CaptureSendsBarrier, CaptureEndsFrame, CaptureStartsFrame, ProcessorTakesSample,
             ProcessorTakesBarrier, Retry, Report, RestOfCapture, RestOfProcessor,
             vars, writerVars, opVars
    <2> QED  BY <1>1, <2>1
  <1>7. CASE ProcessorSends \/ \E t \in Tasks : TaskEnds(t)
    <2>1. UNCHANGED op /\ outstanding' \in {outstanding, {}}
      BY <1>7 DEF ProcessorSends, TaskEnds, Exit, TaskExits, vars, writerVars, opVars
    <2> QED  BY <1>1, <2>1
  <1>8. CASE WriterSteps
    <2>1. lane # <<>> => Head(lane) \in Items
      BY TakeHead DEF PipelineTypeOK, Items
    <2>2. UNCHANGED op /\ outstanding' \subseteq outstanding
      BY <1>8, <2>1, DataMoves, FaultMoves, CompletionMoves
         DEF WriterSteps, WriterTakesData, WriterTakesMaintenance, WriterTakesControl,
             MatchPending, DrainItem, DrainBarrier, DrainGivesUp, Complete
    <2> QED  BY <1>1, <2>2
  <1> QED
    BY <1>2, <1>3, <1>4, <1>5, <1>6, <1>7, <1>8
       DEF PipelineNext, CoordinatorSteps, ProcessorSteps

LEMMA OrderStep ==
    ASSUME PipelineBase, PipelineBase', LaneInv, IdInv, OrderInv, [PipelineNext]_allVars
    PROVE  OrderInv'
  <1>1. published' = "Running" => ~bounded'
    <2>1. CASE CommitsBoundary
      BY <2>1, CommitFindsNoSample
    <2>2. CASE ~CommitsBoundary
      <3>1. [QuietNext]_vars
        BY <2>2, StepKinds DEF PipelineBase, RecordsSample
      <3> QED  BY <3>1, GateMoves DEF PipelineBase, TypeOK, OrderInv, GateFollows
    <2> QED  BY <2>1, <2>2
  <1>2. bounded' => SampleFree(fifo') /\ SampleFree(lane')
    <2>1. CASE bounded
      BY <2>1, StaysSampleFree DEF PipelineBase, OrderInv
    <2>2. CASE ~bounded /\ bounded'
      <3>1. ~[QuietNext]_vars /\ ~RecordsSample
        BY <2>2, GateMoves DEF PipelineBase, TypeOK, OrderInv, GateFollows, RecordsSample, vars,
                               writerVars
      <3>2. CommitsBoundary
        BY <3>1, StepKinds DEF PipelineBase
      <3> QED  BY <3>2, CommitFindsNoSample
    <2> QED  BY <2>1, <2>2
  <1>3. ASSUME NEW id \in Ids, Watched(id)' PROVE Trail(id)'
    <2>1. CASE Watched(id)
      <3>1. published # "Running" /\ Trail(id)
        BY <2>1, WatchedIsClosed DEF OrderInv
      <3> QED  BY <3>1, TrailStep
    <2>2. CASE id = nextId /\ UNCHANGED <<fifo, lane, processor, pending>>
      <3>1. Trail(id)
        BY <2>2, FreshTrail
      <3> QED  BY <2>2, <3>1 DEF Trail, InLane, InProcessor, InPending
    <2> QED  BY <1>3, <2>1, <2>2, WatchedStep
  <1> QED
    BY <1>1, <1>2, <1>3 DEF OrderInv

-----------------------------------------------------------------------------
(* The pipeline implements the ledger it promises.                         *)

OrderBase == PipelineBase /\ RevisionInv /\ IdInv /\ OrderInv

LEMMA OrderInvHolds == PipelineSpec => []OrderBase
  <1>1. PipelineInit => IdInv /\ OrderInv
    <2> SUFFICES ASSUME PipelineInit PROVE IdInv /\ OrderInv
      OBVIOUS
    <2>1. /\ op.pc = "idle" /\ outstanding = {} /\ capture.pc = "select" /\ processor.pc = "recv"
          /\ requests = <<>> /\ fifo = <<>> /\ lane = <<>> /\ pending = {} /\ poisoned = {}
          /\ bounded = (published = "Stopped")
      BY DEF PipelineInit, Init, NoOp
    <2>2. IdInv
      BY <2>1, EmptySeq DEF IdInv
    <2>3. OrderInv
      BY <2>1, EmptyOrdered DEF OrderInv, Watched
    <2> QED  BY <2>2, <2>3
  <1>2. PipelineBase /\ PipelineBase' /\ RevisionInv /\ IdInv /\ OrderInv
          /\ [PipelineNext]_allVars
        => IdInv' /\ OrderInv'
    BY IdStep, OrderStep DEF RevisionInv
  <1> QED
    BY <1>1, <1>2, RevisionInvHolds, PTL DEF PipelineSpec, OrderBase

(* A step that leaves the ledger alone opens the gate, closes it, fails,   *)
(* or is not seen from outside. *)
LEMMA GateStepOfLedger ==
    ASSUME OrderBase, PipelineBase', [QuietNext]_vars, ledger' = ledger
    PROVE  [Ledger!Next]_(Ledger!vars)
  <1> USE DEF OrderBase
  <1>1. bounded' = (bounded /\ published' # "Running") /\ bounded \in BOOLEAN
    BY GateMoves DEF GateFollows, OrderInv, PipelineBase, TypeOK
  <1>2. writerState = "Faulted" => writerState' = "Faulted"
    BY FaultStays DEF QuietNext, Next, Environment
  <1>3. writerState' = "Faulted" => published' # "Running"
    BY DEF PipelineBase, CoordinatorInv, GateInv
  <1>4. writerState = "Faulted" => published # "Running"
    BY DEF PipelineBase, CoordinatorInv, GateInv
  <1>5. CASE writerState # "Faulted" /\ writerState' = "Faulted"
    BY <1>1, <1>3, <1>5 DEF Ledger!Next, Ledger!Fail
  <1>6. CASE (writerState = "Faulted") <=> (writerState' = "Faulted")
    <2>1. CASE published # "Running" /\ published' = "Running"
      BY <1>1, <1>3, <1>6, <2>1 DEF Ledger!Next, Ledger!Open
    <2>2. CASE published = "Running" /\ published' # "Running"
      BY <1>1, <1>6, <2>2 DEF Ledger!Next, Ledger!Close
    <2>3. CASE (published = "Running") <=> (published' = "Running")
      BY <1>1, <1>6, <2>3 DEF Ledger!vars, OrderInv
    <2> QED  BY <2>1, <2>2, <2>3
  <1> QED
    BY <1>2, <1>5, <1>6

(* The Writer's commit of a boundary, and of settings. *)
LEMMA CommitStepOfLedger ==
    ASSUME OrderBase, CommitsBoundary
    PROVE  [Ledger!Next]_(Ledger!vars)
  <1>1. published # "Running" /\ UNCHANGED <<published, writerState>>
    BY CommitFindsNoSample DEF OrderBase, RevisionInv, CommitsBoundary, WriterCommits
  <1>2. CASE job.kind = "settings"
    BY <1>1, <1>2 DEF CommitsBoundary, WriterCommits, Ledger!vars, OrderBase, PipelineBase, TypeOK
  <1>3. CASE job.kind # "settings"
    BY <1>1, <1>3 DEF CommitsBoundary, WriterCommits, Ledger!Next, Ledger!Commit
  <1> QED
    BY <1>2, <1>3

(* A recorded sample: the gate has been open since the last boundary. *)
LEMMA RecordStepOfLedger ==
    ASSUME OrderBase, RecordsSample
    PROVE  [Ledger!Next]_(Ledger!vars)
  <1>1. Head(lane) = lane[1] /\ 1 \in 1 .. Len(lane)
    BY TakeHead DEF RecordsSample, OrderBase, PipelineBase, PipelineTypeOK
  <1>2. ~bounded
    BY <1>1 DEF RecordsSample, OrderBase, OrderInv, SampleFree
  <1> QED
    BY <1>2 DEF RecordsSample, Ledger!Next, Ledger!Record, vars, gateVars, writerVars

(* A boundary is only committed while the gate is closed, and after it no  *)
(* sample is recorded before Running has been published again, whatever    *)
(* was still in the queues, however late the Writer answers, and whichever *)
(* task dies: the coordinator, the capture loop, the processor and the     *)
(* Writer together implement RecordingLedger. *)
THEOREM PipelineImplementsLedger == PipelineSpec => BoundaryOrder
  <1>1. PipelineInit => Ledger!Init
    <2> SUFFICES ASSUME PipelineInit PROVE Ledger!Init
      OBVIOUS
    <2>1. /\ published \in {"Stopped", "Running"} /\ writerState = "Healthy"
          /\ bounded = (published = "Stopped") /\ ledger = "boundary"
      BY DEF PipelineInit, Init
    <2> QED  BY <2>1 DEF Ledger!Init
  <1>2. OrderBase /\ OrderBase' /\ [PipelineNext]_allVars => [Ledger!Next]_(Ledger!vars)
    BY StepKinds, GateStepOfLedger, CommitStepOfLedger, RecordStepOfLedger
       DEF OrderBase, PipelineBase
  <1> QED
    BY <1>1, <1>2, OrderInvHolds, PTL DEF PipelineSpec, BoundaryOrder, Ledger!Spec

-----------------------------------------------------------------------------
(* The revision protocol.                                                  *)

(* Every sample on its way has the revision of the processor's watch and   *)
(* of the Writer's engine; both change only when no sample is on its way.  *)
CurrentItems == {s \in Samples : s.rev = settings /\ s.rev = engineRev} \cup Barriers
ProtocolInv ==
    /\ fifo \in Seq(CurrentItems) /\ lane \in Seq(CurrentItems)
    /\ processor.pc = "sending" => processor.item # Mismatch
    /\ AnsweredSettings => SampleFree(fifo) /\ SampleFree(lane)
    /\ ~violated

(* Without samples the queues are current under any pair of revisions. *)
LEMMA SampleFreeIsCurrent ==
    ASSUME NEW q \in Seq(CurrentItems), SampleFree(q)
    PROVE  q \in Seq(Barriers)
  <1>1. CurrentItems \subseteq Items
    BY DEF CurrentItems, Items
  <1>2. \A i \in 1 .. Len(q) : q[i] \in Barriers
    BY ElementOfSeq DEF SampleFree, CurrentItems, Samples
  <1>3. Len(q) \in Nat /\ q \in [1 .. Len(q) -> CurrentItems]
    BY LenProperties
  <1>4. q \in [1 .. Len(q) -> Barriers]
    BY <1>2, <1>3
  <1> QED
    BY <1>3, <1>4, SeqDef

(* The settings watch moves when a committed settings change is answered,  *)
(* the engine's revision when it is committed; nothing else moves them,    *)
(* and only a commit makes an answer. *)
LEMMA RevisionMoves ==
    ASSUME PipelineBase, LaneInv, [PipelineNext]_allVars
    PROVE  /\ \/ UNCHANGED <<settings, engineRev>>
              \/ CommitsBoundary
              \/ AnsweredSettings /\ UNCHANGED <<engineRev, fifo, lane>>
           /\ AnsweredSettings' => AnsweredSettings \/ CommitsBoundary
  <1> USE DEF PipelineBase
  <1>1. CASE Call
    <2>1. Caller /\ UNCHANGED engineRev
      BY <1>1 DEF Call, Caller, Offered, OpeningCommands, ClosingCommands, Sources, Commands
    <2> QED  BY <2>1, CallerMoves DEF AnsweredSettings, LockFree
  <1>2. CASE InjectionLost \/ ControlLost \/ Settle
    <2>1. Ending /\ UNCHANGED <<engineRev, fifo, lane>>
      BY <1>2 DEF InjectionLost, ControlLost, Settle, Ending, pipeVars
    <2> QED  BY <2>1, EndingMoves DEF NoOp, AnsweredSettings
  <1>3. CASE InjectionAcked
    <2>1. UNCHANGED <<settings, engineRev, ack>> /\ op'.pc = "control"
      BY <1>3 DEF InjectionAcked, Injected, writerVars, pipeVars, TypeOK, Operations, NoOp
    <2> QED  BY <2>1 DEF AnsweredSettings
  <1>4. CASE QueueControl
    <2>1. UNCHANGED <<settings, engineRev, ack>> /\ op.pc = "control"
      BY <1>4 DEF QueueControl, SendControl
    <2> QED  BY <2>1 DEF AnsweredSettings, CoordinatorInv, ControlInv
  <1>5. CASE \/ UNCHANGED allVars
             \/ SendRequest \/ QueueMaintenance \/ CaptureSteps \/ CaptureStartsFrame
             \/ ProcessorSteps \/ Retry \/ Report \/ \E t \in Tasks : TaskEnds(t)
    <2>1. UNCHANGED <<settings, engineRev, ack, op>>
      BY <1>5, ReportMoves, FaultMoves
         DEF allVars, SendRequest, QueueMaintenance, CaptureSteps, CaptureTakesRequest,
             CaptureSendsBarrier, CaptureEndsFrame, CaptureStartsFrame, ProcessorSteps,
             ProcessorTakesSample, ProcessorTakesBarrier, ProcessorSends, TaskEnds, Exit,
             TaskExits, Retry, Report, RestOfCapture, RestOfProcessor,
             pipeVars, vars, writerVars, opVars
    <2> QED  BY <2>1 DEF AnsweredSettings
  <1>6. CASE WriterTakesData \/ DrainItem \/ WriterTakesMaintenance \/ WriterTakesControl
    <2>1. lane # <<>> => Head(lane) \in Items
      BY TakeHead DEF PipelineTypeOK, Items
    <2>2. UNCHANGED <<settings, engineRev, ack, op>>
      BY <1>6, <2>1, DataMoves, FaultMoves
         DEF WriterTakesData, WriterTakesMaintenance, WriterTakesControl, DrainItem
    <2> QED  BY <2>2 DEF AnsweredSettings
  <1>7. ASSUME WriterRefuses(job) \/ WriterBreaks(job)
        PROVE  UNCHANGED <<op, settings>> /\ ack' \in {ack, "err"}
    BY <1>7 DEF WriterRefuses, WriterBreaks, Answered, opVars
  <1>8. CASE MatchPending \/ DrainBarrier \/ DrainGivesUp
    <2>1. CASE CommitsBoundary
      BY <2>1
    <2>2. CASE ~CommitsBoundary
      <3>1. CASE Complete /\ FoundBarrier
        BY <1>7, <2>2, <3>1 DEF Complete, CommitsBoundary, AnsweredSettings
      <3>2. CASE WriterRefuses(job) /\ UNCHANGED engineRev
        BY <1>7, <3>2 DEF AnsweredSettings
      <3> QED  BY <1>8, <3>1, <3>2 DEF MatchPending, DrainBarrier, DrainGivesUp, Draining,
                  FoundBarrier, RestOfWriter
    <2> QED  BY <2>1, <2>2
  <1> QED
    BY <1>1, <1>2, <1>3, <1>4, <1>5, <1>6, <1>8
       DEF PipelineNext, CoordinatorSteps, WriterSteps

(* A sample at the head of a current queue has the revision its reader     *)
(* compares it with. *)
LEMMA CurrentHead ==
    ASSUME NEW q \in Seq(CurrentItems), q # <<>>
    PROVE  /\ Head(q) \in CurrentItems /\ Head(q) \in Items /\ Head(q).type # "mismatch"
           /\ Head(q).type = "sample" => Head(q).rev = settings /\ Head(q).rev = engineRev
           /\ Head(q).type = "barrier" => Head(q) # Mismatch
  <1>1. Head(q) \in CurrentItems
    BY TakeHead
  <1> QED
    BY <1>1 DEF CurrentItems, Items, Samples, Barriers, Item, Mismatch

(* Samples are only taken under the revision the engine has. *)
LEMMA FrameIsCurrent ==
    ASSUME PipelineBase, EngineInv, published = "Running"
    PROVE  FrameSample \in CurrentItems
  <1>1. ~blocked /\ settings = applied
    BY DEF PipelineBase, CoordinatorInv, GateInv, SettingsInv, AnsweredSettings, GateOpen
  <1>2. settings = engineRev
    BY <1>1 DEF EngineInv
  <1> QED
    BY <1>2 DEF FrameSample, CurrentItems, Samples, PipelineBase, TypeOK, PipelineTypeOK

LEMMA ProtocolStep ==
    ASSUME OrderBase, PipelineBase', ProtocolInv, [PipelineNext]_allVars
    PROVE  ProtocolInv'
  <1> USE DEF OrderBase, RevisionInv
  <1>1. fifo' \in Seq(CurrentItems) /\ lane' \in Seq(CurrentItems)
    <2>1. Item(capture.token) \in CurrentItems
      BY DEF PipelineBase, PipelineTypeOK, CurrentItems, Barriers
    <2>2. processor.pc = "sending" => processor.item \in CurrentItems
      BY DEF PipelineBase, PipelineTypeOK, CurrentItems, ProtocolInv
    <2> QED  BY <2>1, <2>2, FrameIsCurrent, ItemFlow DEF ProtocolInv, PipelineBase
  <1>2. CommitsBoundary => SampleFree(fifo') /\ SampleFree(lane')
    BY CommitFindsNoSample
  <1>3. AnsweredSettings => SampleFree(fifo') /\ SampleFree(lane')
    <2>1. AnsweredSettings => published # "Running"
      BY DEF AnsweredSettings, PipelineBase, CoordinatorInv, GateInv
    <2> QED  BY <2>1, StaysSampleFree DEF ProtocolInv, PipelineBase
  <1>4. fifo' \in Seq(CurrentItems') /\ lane' \in Seq(CurrentItems')
    <2>1. CASE UNCHANGED <<settings, engineRev>>
      BY <1>1, <2>1 DEF CurrentItems
    <2>2. CASE SampleFree(fifo') /\ SampleFree(lane')
      <3>1. fifo' \in Seq(Barriers) /\ lane' \in Seq(Barriers)
        BY <1>1, <2>2, SampleFreeIsCurrent
      <3>2. Barriers \subseteq CurrentItems'
        BY DEF CurrentItems
      <3> QED  BY <3>1, <3>2, SeqMonotonic
    <2> QED  BY <1>2, <1>3, <2>1, <2>2, RevisionMoves
  <1>5. processor'.pc = "sending" => processor'.item # Mismatch
    <2>1. CASE ProcessorTakesSample
      BY <2>1, CurrentHead DEF ProcessorTakesSample, ProtocolInv
    <2>2. CASE ProcessorTakesBarrier
      BY <2>2, CurrentHead DEF ProcessorTakesBarrier, ProtocolInv
    <2>3. CASE ProcessorSends
      BY <2>3 DEF ProcessorSends, PipelineBase, PipelineTypeOK
    <2>4. CASE ~ProcessorSteps
      <3>1. UNCHANGED processor
        BY <2>4 DEF PipelineNext, allVars, pipeVars, Call, QueueMaintenance, CaptureStartsFrame,
              CoordinatorSteps, SendRequest, InjectionAcked, InjectionLost, QueueControl,
              ControlLost, Settle, CaptureSteps, CaptureTakesRequest, CaptureSendsBarrier,
              CaptureEndsFrame, RestOfCapture, WriterSteps, WriterTakesData,
              WriterTakesMaintenance, WriterTakesControl, MatchPending, DrainItem, DrainBarrier,
              DrainGivesUp, RestOfWriter, Retry, Report, TaskEnds
      <3> QED  BY <3>1 DEF ProtocolInv
    <2> QED  BY <2>1, <2>2, <2>3, <2>4 DEF ProcessorSteps
  <1>6. AnsweredSettings' => SampleFree(fifo') /\ SampleFree(lane')
    BY <1>2, <1>3, RevisionMoves
  <1>7. ~violated'
    <2>1. CASE WriterTakesData \/ DrainItem
      <3>1. lane # <<>> /\ ProcessData(Head(lane))
        BY <2>1 DEF WriterTakesData, DrainItem
      <3> QED  BY <3>1, CurrentHead, ItemKinds DEF ProcessData, Apply, ProtocolInv
    <2>2. CASE ~(WriterTakesData \/ DrainItem)
      <3>1. UNCHANGED violated
        BY <2>2 DEF PipelineNext, allVars, pipeVars, Call, QueueMaintenance, CaptureStartsFrame,
              CoordinatorSteps, SendRequest, InjectionAcked, InjectionLost, QueueControl,
              ControlLost, Settle, CaptureSteps, CaptureTakesRequest, CaptureSendsBarrier,
              CaptureEndsFrame, RestOfCapture, ProcessorSteps, ProcessorTakesSample,
              ProcessorTakesBarrier, ProcessorSends, RestOfProcessor, WriterSteps,
              WriterTakesMaintenance, WriterTakesControl, MatchPending, DrainBarrier,
              DrainGivesUp, Retry, Report, TaskEnds
      <3> QED  BY <3>1 DEF ProtocolInv
    <2> QED  BY <2>1, <2>2
  <1> QED
    BY <1>4, <1>5, <1>6, <1>7 DEF ProtocolInv

LEMMA ProtocolInvHolds == PipelineSpec => [](OrderBase /\ ProtocolInv)
  <1>1. PipelineInit => ProtocolInv
    <2> SUFFICES ASSUME PipelineInit PROVE ProtocolInv
      OBVIOUS
    <2>1. /\ op.pc = "idle" /\ processor.pc = "recv" /\ fifo = <<>> /\ lane = <<>> /\ ~violated
      BY DEF PipelineInit, Init, NoOp
    <2> QED  BY <2>1, EmptySeq DEF ProtocolInv, AnsweredSettings
  <1>2. OrderBase /\ OrderBase' /\ ProtocolInv /\ [PipelineNext]_allVars => ProtocolInv'
    BY ProtocolStep DEF OrderBase
  <1> QED
    BY <1>1, <1>2, OrderInvHolds, PTL DEF PipelineSpec

(* The revision protocol never trips over its own traffic: no sample       *)
(* reaches the processor or the Writer with a revision other than theirs,  *)
(* so reject_protocol_violation is never called. *)
THEOREM PipelineProtocol == PipelineSpec => []NoProtocolViolation
  <1>1. ProtocolInv => NoProtocolViolation
    BY DEF ProtocolInv, NoProtocolViolation
  <1> QED
    BY <1>1, ProtocolInvHolds, PTL

-----------------------------------------------------------------------------
(* The barrier of the operation in progress is never lost and never        *)
(* doubled.                                                                *)

Has(q, x)  == \E i \in 1 .. Len(q) : q[i] = x
Once(q, x) == \A i, j \in 1 .. Len(q) : q[i] = x /\ q[j] = x => i = j

(* The places of a token, in the order it passes them. *)
AtRequests(t)  == Has(requests, t)
AtCapture(t)   == capture.pc = "sending" /\ capture.token = t
AtFifo(t)      == Has(fifo, Item(t))
AtProcessor(t) == processor.pc = "sending" /\ processor.item = Item(t)
AtLane(t)      == Has(lane, Item(t))
AtPending(t)   == t \in pending

Arrived(t) == AtFifo(t) \/ AtProcessor(t) \/ AtLane(t) \/ AtPending(t)
Nowhere(t) == ~AtRequests(t) /\ ~AtCapture(t) /\ ~Arrived(t)
OnePlace(t) ==
    /\ Once(requests, t) /\ Once(fifo, Item(t)) /\ Once(lane, Item(t))
    /\ AtRequests(t)  => ~AtCapture(t) /\ ~Arrived(t)
    /\ AtCapture(t)   => ~Arrived(t)
    /\ AtFifo(t)      => ~AtProcessor(t) /\ ~AtLane(t) /\ ~AtPending(t)
    /\ AtProcessor(t) => ~AtLane(t) /\ ~AtPending(t)
    /\ AtLane(t)      => ~AtPending(t)

(* A head that is taken is what leaves the queue. *)
LEMMA TakeOnce ==
    ASSUME NEW S, NEW q \in Seq(S), q # <<>>, NEW x
    PROVE  /\ Has(q, x) <=> Head(q) = x \/ Has(Tail(q), x)
           /\ Once(q, x) => Once(Tail(q), x) /\ ~(Head(q) = x /\ Has(Tail(q), x))
  <1>1. /\ Head(q) = q[1] /\ 1 \in 1 .. Len(q)
        /\ Len(q) \in Nat /\ Len(Tail(q)) = Len(q) - 1
        /\ \A i \in 1 .. Len(Tail(q)) : i + 1 \in 1 .. Len(q) /\ Tail(q)[i] = q[i + 1]
    BY TakeHead
  <1>2. \A i \in 1 .. Len(q) : i = 1 \/ (i - 1 \in 1 .. Len(Tail(q)) /\ Tail(q)[i - 1] = q[i])
    BY <1>1
  <1>3. Has(q, x) <=> Head(q) = x \/ Has(Tail(q), x)
    BY <1>1, <1>2 DEF Has
  <1>4. ASSUME Once(q, x) PROVE Once(Tail(q), x) /\ ~(Head(q) = x /\ Has(Tail(q), x))
    <2>1. Once(Tail(q), x)
      <3> SUFFICES ASSUME NEW i \in 1 .. Len(Tail(q)), NEW j \in 1 .. Len(Tail(q)),
                          Tail(q)[i] = x, Tail(q)[j] = x
                   PROVE  i = j
        BY DEF Once
      <3>1. i + 1 = j + 1
        BY <1>1, <1>4 DEF Once
      <3> QED  BY <3>1
    <2>2. ~(Head(q) = x /\ Has(Tail(q), x))
      <3> SUFFICES ASSUME Head(q) = x, NEW i \in 1 .. Len(Tail(q)), Tail(q)[i] = x
                   PROVE  FALSE
        BY DEF Has
      <3>1. i + 1 = 1
        BY <1>1, <1>4 DEF Once
      <3> QED  BY <3>1
    <2> QED  BY <2>1, <2>2
  <1> QED
    BY <1>3, <1>4

(* An appended item is in the queue once, if it was not there before. *)
LEMMA AppendOnce ==
    ASSUME NEW S, NEW q \in Seq(S), NEW item \in S, NEW x
    PROVE  /\ Has(Append(q, item), x) <=> Has(q, x) \/ item = x
           /\ Once(q, x) /\ ~(Has(q, x) /\ item = x) => Once(Append(q, item), x)
  <1>1. /\ Len(q) \in Nat /\ Len(Append(q, item)) = Len(q) + 1
        /\ \A i \in 1 .. Len(q) + 1 :
              Append(q, item)[i] = IF i = Len(q) + 1 THEN item ELSE q[i]
    BY AppendLast
  <1>2. Has(Append(q, item), x) <=> Has(q, x) \/ item = x
    BY <1>1 DEF Has
  <1>3. Once(q, x) /\ ~(Has(q, x) /\ item = x) => Once(Append(q, item), x)
    <2> SUFFICES ASSUME Once(q, x), ~(Has(q, x) /\ item = x),
                        NEW i \in 1 .. Len(q) + 1, NEW j \in 1 .. Len(q) + 1,
                        Append(q, item)[i] = x, Append(q, item)[j] = x
                 PROVE  i = j
      BY <1>1 DEF Once
    <2>1. CASE item = x
      BY <1>1, <2>1 DEF Has
    <2>2. CASE item # x
      BY <1>1, <2>2 DEF Once
    <2> QED  BY <2>1, <2>2
  <1> QED
    BY <1>2, <1>3

LEMMA EmptyOnce ==
    ASSUME NEW x
    PROVE  ~Has(<<>>, x) /\ Once(<<>>, x)
  BY EmptySeq DEF Has, Once

(* Every step moves a token by at most one place; only a request makes it  *)
(* appear. *)
LEMMA PlaceStep ==
    ASSUME PipelineBase, [PipelineNext]_allVars, NEW t \in Tokens, OnePlace(t),
           SendRequest /\ TokenOf(op) = t => Nowhere(t)
    PROVE  /\ OnePlace(t)'
           /\ Nowhere(t) /\ ~SendRequest => Nowhere(t)'
  <1> DEFINE Goal == OnePlace(t)' /\ (Nowhere(t) /\ ~SendRequest => Nowhere(t)')
  <1>0. \A u \in Tokens : Item(u) = Item(t) <=> u = t
    BY DEF Item
  <1>t. /\ requests \in Seq(Tokens) /\ capture.token \in Tokens
        /\ fifo \in Seq(Samples \cup Barriers)
        /\ lane \in Seq(Samples \cup Barriers \cup {Mismatch})
        /\ processor.item \in Samples \cup Barriers \cup {Mismatch}
        /\ pending \subseteq Tokens
    BY DEF PipelineBase, PipelineTypeOK
  <1> USE <1>t
  <1>1. CASE \/ UNCHANGED allVars
             \/ Call \/ QueueMaintenance \/ CaptureStartsFrame
             \/ InjectionAcked \/ InjectionLost \/ QueueControl \/ ControlLost \/ Settle
             \/ Retry \/ Report \/ CaptureEndsFrame
             \/ WriterTakesMaintenance \/ WriterTakesControl \/ MatchPending \/ DrainGivesUp
    <2>1. /\ UNCHANGED <<requests, processor, lane>>
          /\ pending' \subseteq pending
          /\ capture' = capture \/ (capture'.pc # "sending" /\ capture.pc # "sending")
      BY <1>1 DEF allVars, pipeVars, Call, QueueMaintenance, CaptureStartsFrame, InjectionAcked,
                  InjectionLost, QueueControl, ControlLost, Settle, Retry, Report, RestOfCapture,
                  CaptureEndsFrame, WriterTakesMaintenance, WriterTakesControl, MatchPending,
                  DrainGivesUp, RestOfWriter, PipelineBase, PipelineTypeOK
    <2>2. (AtFifo(t)' <=> AtFifo(t)) /\ Once(fifo', Item(t))
      <3>1. CASE UNCHANGED fifo
        BY <3>1 DEF AtFifo, OnePlace
      <3>2. CASE fifo' = Append(fifo, FrameSample)
        <4>1. FrameSample \in Samples \cup Barriers /\ FrameSample # Item(t)
          BY DEF FrameSample, Samples, Item, PipelineBase, TypeOK, PipelineTypeOK
        <4>2. /\ Has(fifo', Item(t)) <=> Has(fifo, Item(t))
              /\ Once(fifo, Item(t)) => Once(fifo', Item(t))
          BY <3>2, <4>1, AppendOnce
        <4> QED  BY <4>2 DEF AtFifo, OnePlace
      <3> QED
        BY <1>1, <3>1, <3>2 DEF allVars, pipeVars, Call, QueueMaintenance, CaptureStartsFrame,
           InjectionAcked, InjectionLost, QueueControl, ControlLost, Settle, Retry, Report,
           RestOfCapture, CaptureEndsFrame, FrameSample, WriterTakesMaintenance,
           WriterTakesControl, MatchPending, DrainGivesUp, RestOfWriter
    <2> QED  BY <2>1, <2>2 DEF OnePlace, Nowhere, Arrived, AtRequests, AtCapture, AtProcessor,
                               AtLane, AtPending
  <1>2. CASE SendRequest
    <2>1. /\ requests' = Append(requests, TokenOf(op))
          /\ UNCHANGED <<capture, fifo, processor, lane, pending>>
      BY <1>2 DEF SendRequest
    <2>2. TokenOf(op) \in Tokens
      <3>1. op \in Operations
        BY <1>2 DEF SendRequest, PipelineBase, TypeOK, NoOp
      <3> QED  BY <3>1, TokenType DEF Operations
    <2>3. /\ AtRequests(t)' <=> AtRequests(t) \/ TokenOf(op) = t
          /\ Once(requests', t)
      BY <1>2, <2>1, <2>2, AppendOnce DEF OnePlace, Nowhere, AtRequests
    <2> QED  BY <1>2, <2>1, <2>3 DEF OnePlace, Nowhere, Arrived, AtCapture, AtFifo, AtProcessor,
                                     AtLane, AtPending
  <1>3. CASE CaptureTakesRequest
    <2>1. /\ requests # <<>> /\ requests' = Tail(requests) /\ capture.pc = "select"
          /\ capture'.token = Head(requests)
          /\ UNCHANGED <<fifo, processor, lane, pending>>
      BY <1>3 DEF CaptureTakesRequest, RestOfCapture, PipelineBase, PipelineTypeOK
    <2>2. /\ Once(requests', t)
          /\ AtRequests(t)' \/ AtCapture(t)' => AtRequests(t)
          /\ ~(AtRequests(t)' /\ AtCapture(t)')
      BY <2>1, TakeOnce DEF OnePlace, AtRequests, AtCapture
    <2> QED  BY <2>1, <2>2 DEF OnePlace, Nowhere, Arrived, AtFifo, AtProcessor, AtLane, AtPending
  <1>4. CASE CaptureSendsBarrier
    <2>1. /\ capture.pc = "sending" /\ capture'.pc = "select"
          /\ fifo' = Append(fifo, Item(capture.token))
          /\ UNCHANGED <<requests, processor, lane, pending>>
      BY <1>4 DEF CaptureSendsBarrier, RestOfCapture, PipelineBase, PipelineTypeOK
    <2>2. Item(capture.token) \in Samples \cup Barriers
      BY DEF Barriers
    <2>3. Has(fifo', Item(t)) <=> Has(fifo, Item(t)) \/ Item(capture.token) = Item(t)
      BY <2>1, <2>2, AppendOnce
    <2>4. AtFifo(t)' <=> AtFifo(t) \/ AtCapture(t)
      BY <1>0, <2>1, <2>3 DEF AtFifo, AtCapture
    <2>5. Once(fifo', Item(t))
      BY <1>0, <2>1, <2>2, AppendOnce DEF OnePlace, Arrived, AtFifo, AtCapture
    <2> QED  BY <2>1, <2>4, <2>5 DEF OnePlace, Nowhere, Arrived, AtRequests, AtCapture,
                                     AtProcessor, AtLane, AtPending
  <1>5. CASE ProcessorTakesSample
    <2>1. /\ fifo # <<>> /\ fifo' = Tail(fifo) /\ Head(fifo).type = "sample"
          /\ lane' = lane \/ lane' = Append(lane, Head(fifo))
          /\ UNCHANGED <<requests, capture, pending>>
          /\ processor.pc = "recv" /\ ~AtProcessor(t)'
      BY <1>5 DEF ProcessorTakesSample, RestOfProcessor, AtProcessor, Item, Mismatch
    <2>2. Head(fifo) # Item(t) /\ Head(fifo) \in Samples \cup Barriers \cup {Mismatch}
      BY <2>1, TakeHead DEF Item
    <2>3. Once(fifo', Item(t)) /\ (AtFifo(t)' <=> AtFifo(t))
      BY <2>1, <2>2, TakeOnce DEF OnePlace, AtFifo
    <2>4. Once(lane', Item(t)) /\ (AtLane(t)' <=> AtLane(t))
      <3>1. /\ Has(Append(lane, Head(fifo)), Item(t)) <=> Has(lane, Item(t))
            /\ Once(lane, Item(t)) => Once(Append(lane, Head(fifo)), Item(t))
        BY <2>2, AppendOnce
      <3> QED  BY <2>1, <3>1 DEF OnePlace, AtLane
    <2> QED  BY <2>1, <2>3, <2>4 DEF OnePlace, Nowhere, Arrived, AtRequests, AtCapture, AtPending
  <1>6. CASE ProcessorTakesBarrier
    <2>1. /\ fifo # <<>> /\ fifo' = Tail(fifo) /\ processor.pc = "recv"
          /\ processor'.item = Head(fifo)
          /\ UNCHANGED <<requests, capture, lane, pending>>
      BY <1>6 DEF ProcessorTakesBarrier, RestOfProcessor
    <2>2. /\ Once(fifo', Item(t))
          /\ AtFifo(t)' \/ AtProcessor(t)' => AtFifo(t)
          /\ ~(AtFifo(t)' /\ AtProcessor(t)')
      BY <2>1, TakeOnce DEF OnePlace, AtFifo, AtProcessor
    <2> QED  BY <2>1, <2>2 DEF OnePlace, Nowhere, Arrived, AtRequests, AtCapture, AtProcessor,
                               AtLane, AtPending
  <1>7. CASE ProcessorSends
    <2>1. /\ processor.pc = "sending" /\ processor'.pc = "recv"
          /\ lane' = Append(lane, processor.item)
          /\ requests' = requests /\ fifo' \in {fifo, <<>>}
          /\ UNCHANGED <<capture, pending>>
      BY <1>7 DEF ProcessorSends, Exit, PipelineBase, PipelineTypeOK
    <2>2. processor.item \in Samples \cup Barriers \cup {Mismatch}
      OBVIOUS
    <2>3. Once(lane', Item(t)) /\ (AtLane(t)' <=> AtLane(t) \/ AtProcessor(t))
      <3>1. /\ Has(lane', Item(t)) <=> Has(lane, Item(t)) \/ processor.item = Item(t)
            /\ Once(lane, Item(t)) /\ ~(Has(lane, Item(t)) /\ processor.item = Item(t))
                 => Once(lane', Item(t))
        BY <2>1, <2>2, AppendOnce
      <3> QED  BY <2>1, <3>1 DEF OnePlace, AtLane, AtProcessor
    <2>4. Once(fifo', Item(t)) /\ (AtFifo(t)' => AtFifo(t))
      BY <2>1, EmptyOnce DEF OnePlace, AtFifo
    <2> QED  BY <2>1, <2>3, <2>4 DEF OnePlace, Nowhere, Arrived, AtRequests, AtCapture,
                                     AtProcessor, AtPending
  <1>8. ASSUME NEW task \in Tasks, TaskEnds(task) PROVE Goal
    <2>1. /\ requests' \in {requests, <<>>} /\ fifo' \in {fifo, <<>>} /\ lane' \in {lane, <<>>}
          /\ UNCHANGED <<capture, processor, pending>>
      BY <1>8 DEF TaskEnds, Exit
    <2>2. /\ Once(requests', t) /\ (AtRequests(t)' => AtRequests(t))
          /\ Once(fifo', Item(t)) /\ (AtFifo(t)' => AtFifo(t))
          /\ Once(lane', Item(t)) /\ (AtLane(t)' => AtLane(t))
      BY <2>1, EmptyOnce DEF OnePlace, AtRequests, AtFifo, AtLane
    <2> QED  BY <2>1, <2>2 DEF OnePlace, Nowhere, Arrived, AtCapture, AtProcessor, AtPending
  <1>9. lane # <<>> =>
          /\ Head(lane) \in Items
          /\ Once(Tail(lane), Item(t))
          /\ Has(Tail(lane), Item(t)) => AtLane(t) /\ Head(lane) # Item(t)
          /\ Head(lane) = Item(t) => AtLane(t)
    BY TakeHead, TakeOnce DEF OnePlace, AtLane, Items
  <1>10. CASE WriterTakesData \/ DrainItem
    <2>1. /\ lane # <<>> /\ ProcessData(Head(lane)) /\ lane' = Tail(lane)
          /\ UNCHANGED <<requests, capture, fifo, processor>>
      BY <1>10 DEF WriterTakesData, DrainItem, RestOfWriter
    <2>2. AtPending(t)' => AtPending(t) \/ Head(lane) = Item(t)
      <3>1. CASE Head(lane).type = "barrier"
        BY <1>9, <2>1, <3>1, ItemKinds DEF ProcessData, AtPending
      <3>2. CASE Head(lane).type # "barrier"
        BY <1>9, <2>1, <3>2, ItemKinds DEF ProcessData, AtPending
      <3> QED  BY <3>1, <3>2
    <2> QED  BY <1>9, <2>1, <2>2 DEF OnePlace, Nowhere, Arrived, AtRequests, AtCapture, AtFifo,
                                     AtProcessor, AtLane
  <1>11. CASE DrainBarrier
    <2>1. /\ lane # <<>> /\ lane' = Tail(lane)
          /\ UNCHANGED <<requests, capture, fifo, processor, pending>>
      BY <1>11 DEF DrainBarrier, RestOfWriter
    <2> QED  BY <1>9, <2>1 DEF OnePlace, Nowhere, Arrived, AtRequests, AtCapture, AtFifo,
                               AtProcessor, AtLane, AtPending
  <1> QED
    BY <1>1, <1>2, <1>3, <1>4, <1>5, <1>6, <1>7, <1>8, <1>10, <1>11
       DEF PipelineNext, CoordinatorSteps, CaptureSteps, ProcessorSteps, WriterSteps

(* The Writer completes its job. *)
Completes == MatchPending \/ DrainBarrier \/ DrainGivesUp

(* While the tasks live and the Writer completes nothing, an arrived       *)
(* barrier that may still match stays on its way. *)
LEMMA ArrivalStep ==
    ASSUME PipelineBase, [PipelineNext]_allVars, NEW t \in Tokens, Arrived(t),
           t.id \notin poisoned, alive' = Tasks, ~Completes
    PROVE  Arrived(t)'
  <1> USE DEF PipelineBase
  <1>0. \A u \in Tokens : Item(u) = Item(t) <=> u = t
    BY DEF Item
  <1>t. /\ fifo \in Seq(Samples \cup Barriers)
        /\ lane \in Seq(Samples \cup Barriers \cup {Mismatch})
        /\ processor.item \in Samples \cup Barriers \cup {Mismatch}
    BY DEF PipelineTypeOK
  <1>x. \A task : ~TaskExits(task)
    BY DEF TypeOK, TaskExits
  <1>1. CASE \/ UNCHANGED allVars
             \/ Call \/ QueueMaintenance \/ CaptureStartsFrame \/ CoordinatorSteps
             \/ CaptureTakesRequest \/ Retry \/ Report
             \/ WriterTakesMaintenance \/ WriterTakesControl
    <2>1. UNCHANGED <<fifo, lane, processor, pending>>
      BY <1>1 DEF allVars, pipeVars, Call, QueueMaintenance, CaptureStartsFrame,
                  CoordinatorSteps, SendRequest, InjectionAcked, InjectionLost, QueueControl,
                  ControlLost, Settle, CaptureTakesRequest, Retry, Report, RestOfCapture,
                  WriterTakesMaintenance, WriterTakesControl, RestOfWriter
    <2> QED  BY <2>1 DEF Arrived, AtFifo, AtProcessor, AtLane, AtPending
  <1>2. CASE CaptureSendsBarrier \/ CaptureEndsFrame
    <2>1. /\ \/ UNCHANGED fifo
             \/ \E item \in Samples \cup Barriers : fifo' = Append(fifo, item)
          /\ UNCHANGED <<lane, processor, pending>>
      <3>1. FrameSample \in Samples
        BY DEF FrameSample, Samples, TypeOK, PipelineTypeOK
      <3>2. Item(capture.token) \in Barriers
        BY DEF Barriers, PipelineTypeOK
      <3> QED  BY <1>2, <3>1, <3>2 DEF CaptureSendsBarrier, CaptureEndsFrame, RestOfCapture,
                                       FrameSample
    <2>2. AtFifo(t) => AtFifo(t)'
      <3>1. \A item \in Samples \cup Barriers :
              Has(fifo, Item(t)) => Has(Append(fifo, item), Item(t))
        BY <1>t, AppendOnce
      <3> QED  BY <2>1, <3>1 DEF AtFifo
    <2> QED  BY <2>1, <2>2 DEF Arrived, AtProcessor, AtLane, AtPending
  <1>3. CASE ProcessorTakesSample
    <2>1. /\ fifo # <<>> /\ fifo' = Tail(fifo) /\ Head(fifo).type = "sample"
          /\ lane' = lane \/ lane' = Append(lane, Head(fifo))
          /\ UNCHANGED pending /\ processor.pc = "recv"
      BY <1>3 DEF ProcessorTakesSample, RestOfProcessor
    <2>2. Head(fifo) # Item(t) /\ Head(fifo) \in Samples \cup Barriers \cup {Mismatch}
      BY <1>t, <2>1, TakeHead DEF Item
    <2>3. AtFifo(t) => AtFifo(t)'
      BY <1>t, <2>1, <2>2, TakeOnce DEF AtFifo
    <2>4. AtLane(t) => AtLane(t)'
      <3>1. Has(lane, Item(t)) => Has(Append(lane, Head(fifo)), Item(t))
        BY <1>t, <2>2, AppendOnce
      <3> QED  BY <2>1, <3>1 DEF AtLane
    <2> QED  BY <2>1, <2>3, <2>4 DEF Arrived, AtProcessor, AtPending
  <1>4. CASE ProcessorTakesBarrier
    <2>1. /\ fifo # <<>> /\ fifo' = Tail(fifo) /\ processor.pc = "recv"
          /\ processor' = [pc |-> "sending", item |-> Head(fifo)]
          /\ UNCHANGED <<lane, pending>>
      BY <1>4 DEF ProcessorTakesBarrier, RestOfProcessor
    <2>2. AtFifo(t) => AtFifo(t)' \/ AtProcessor(t)'
      BY <1>t, <2>1, TakeOnce DEF AtFifo, AtProcessor
    <2> QED  BY <2>1, <2>2 DEF Arrived, AtProcessor, AtLane, AtPending
  <1>5. CASE ProcessorSends
    <2>1. /\ lane' = Append(lane, processor.item) /\ UNCHANGED <<fifo, pending>>
      BY <1>5, <1>x DEF ProcessorSends, Exit
    <2>2. AtLane(t) \/ AtProcessor(t) => AtLane(t)'
      BY <1>t, <2>1, AppendOnce DEF AtLane, AtProcessor
    <2> QED  BY <2>1, <2>2 DEF Arrived, AtFifo, AtPending
  <1>6. ASSUME NEW task \in Tasks, TaskEnds(task) PROVE FALSE
    BY <1>6, <1>x DEF TaskEnds, Exit
  <1>7. CASE WriterTakesData \/ DrainItem
    <2>1. /\ lane # <<>> /\ ProcessData(Head(lane)) /\ lane' = Tail(lane)
          /\ UNCHANGED <<fifo, processor>>
      BY <1>7 DEF WriterTakesData, DrainItem, RestOfWriter
    <2>2. Head(lane) \in Items
      BY <1>t, <2>1, TakeHead DEF Items
    <2>3. Head(lane) = Item(t) => AtPending(t)'
      <3> SUFFICES ASSUME Head(lane) = Item(t) PROVE AtPending(t)'
        OBVIOUS
      <3>1. Head(lane).type = "barrier" /\ Head(lane).token = t
        BY DEF Item
      <3>2. pending' = pending \cup {t}
        BY <2>1, <3>1 DEF ProcessData
      <3> QED  BY <3>2 DEF AtPending
    <2>4. AtPending(t) => AtPending(t)'
      BY <2>1, <2>2, ItemKinds DEF ProcessData, AtPending
    <2>5. AtLane(t) => AtLane(t)' \/ AtPending(t)'
      BY <1>t, <2>1, <2>3, TakeOnce DEF AtLane
    <2> QED  BY <2>1, <2>4, <2>5 DEF Arrived, AtFifo, AtProcessor
  <1> QED
    BY <1>1, <1>2, <1>3, <1>4, <1>5, <1>6, <1>7
       DEF PipelineNext, CaptureSteps, ProcessorSteps, WriterSteps, Completes

(* The operation goes on under its number, kind and revision until it      *)
(* ends; a new one begins with nothing of it sent. *)
OperationBegins ==
    /\ Call /\ op.pc = "idle" /\ op'.pc = "inject" /\ op'.id = nextId /\ injection' = "unsent"
    /\ UNCHANGED <<outstanding, requests, capture, fifo, processor, lane, pending, poisoned>>

OperationStays ==
    /\ op.pc # "idle" /\ op'.pc # "idle" /\ ~Call
    /\ op'.id = op.id /\ TokenOf(op)' = TokenOf(op)
    /\ op'.pc = op.pc \/ InjectionAcked \/ QueueControl

LEMMA OperationSteps ==
    ASSUME PipelineBase, [PipelineNext]_allVars
    PROVE  \/ op'.pc = "idle" \/ OperationBegins \/ OperationStays
           \/ UNCHANGED <<op, outstanding, requests, injection, capture, fifo, processor, lane,
                          pending, poisoned, alive>>
  <1> USE DEF PipelineBase
  <1>1. CASE Call
    <2>1. /\ Caller /\ injection' = IF op' # op THEN "unsent" ELSE injection
          /\ UNCHANGED <<requests, capture, fifo, processor, lane, pending, poisoned>>
      BY <1>1 DEF Call, Caller, Offered, OpeningCommands, ClosingCommands, Sources, Commands
    <2> QED  BY <1>1, <2>1, CallerMoves DEF OperationBegins, LockFree
  <1>2. CASE InjectionLost \/ ControlLost \/ Settle
    <2>1. Ending
      BY <1>2 DEF InjectionLost, ControlLost, Settle, Ending
    <2> QED  BY <2>1, EndingMoves DEF NoOp
  <1>3. CASE (InjectionAcked \/ QueueControl) /\ ~Call
    <2>1. op \in Operations /\ op.pc # "idle" /\ op' = [op EXCEPT !.pc = op'.pc]
          /\ op'.pc \in {"control", "ack"}
      BY <1>3 DEF InjectionAcked, Injected, QueueControl, SendControl, TypeOK, Operations, NoOp
    <2> QED  BY <1>3, <2>1 DEF OperationStays, TokenOf, Operations
  <1>4. ASSUME UNCHANGED op, ~Call PROVE op'.pc = "idle" \/ OperationStays
    BY <1>4 DEF OperationStays, TokenOf
  <1>5. CASE /\ ~Call
             /\ \/ UNCHANGED allVars
                \/ SendRequest \/ QueueMaintenance \/ CaptureSteps \/ CaptureStartsFrame
                \/ ProcessorSteps \/ Retry \/ Report \/ \E t \in Tasks : TaskEnds(t)
    <2>1. UNCHANGED op
      BY <1>5, ReportMoves, FaultMoves
         DEF allVars, SendRequest, QueueMaintenance, CaptureSteps, CaptureTakesRequest,
             CaptureSendsBarrier, CaptureEndsFrame, CaptureStartsFrame, ProcessorSteps,
             ProcessorTakesSample, ProcessorTakesBarrier, ProcessorSends, TaskEnds, Exit,
             TaskExits, Retry, Report, RestOfCapture, RestOfProcessor, vars, opVars
    <2> QED  BY <1>4, <1>5, <2>1
  <1>6. CASE ~Call /\ WriterSteps
    <2>1. lane # <<>> => Head(lane) \in Items
      BY TakeHead DEF PipelineTypeOK, Items
    <2>2. UNCHANGED op
      BY <1>6, <2>1, DataMoves, FaultMoves, CompletionMoves
         DEF WriterSteps, WriterTakesData, WriterTakesMaintenance, WriterTakesControl,
             MatchPending, DrainItem, DrainBarrier, DrainGivesUp, Complete, vars, opVars
    <2> QED  BY <1>4, <1>6, <2>2
  <1> QED
    BY <1>1, <1>2, <1>3, <1>5, <1>6 DEF PipelineNext, CoordinatorSteps

(* A request under the number of the operation is the operation's own. *)
OwnTokens == {t \in Tokens : t.id = op.id => t = TokenOf(op)}
KnownInv ==
    op.pc # "idle" =>
        /\ requests \in Seq(OwnTokens)
        /\ capture.pc = "sending" => capture.token \in OwnTokens

LEMMA KnownStep ==
    ASSUME PipelineBase, IdInv, KnownInv, [PipelineNext]_allVars
    PROVE  KnownInv'
  <1> USE DEF PipelineBase
  <1>1. CASE OperationBegins
    <2>1. LowTokens \subseteq OwnTokens'
      BY <1>1 DEF OperationBegins, LowTokens, OwnTokens, Tokens, TypeOK, Ids
    <2>2. requests' \in Seq(OwnTokens')
      BY <1>1, <2>1, SeqMonotonic DEF OperationBegins, IdInv
    <2> QED  BY <1>1, <2>1, <2>2 DEF OperationBegins, IdInv, KnownInv
  <1>2. CASE UNCHANGED <<op, requests, capture>>
    BY <1>2 DEF KnownInv, OwnTokens, TokenOf
  <1>3. CASE OperationStays
    <2>1. OwnTokens' = OwnTokens
      BY <1>3 DEF OperationStays, OwnTokens
    <2>2. op.pc # "idle" /\ ~Call
      BY <1>3 DEF OperationStays
    <2>3. CASE SendRequest
      <3>1. op \in Operations
        BY <2>2 DEF TypeOK, NoOp
      <3>2. TokenOf(op) \in OwnTokens
        BY <3>1, TokenType DEF Operations, OwnTokens
      <3>3. requests' \in Seq(OwnTokens)
        BY <2>2, <2>3, <3>2, AppendProperties DEF SendRequest, KnownInv
      <3> QED  BY <2>1, <2>2, <2>3, <3>3 DEF SendRequest, KnownInv
    <2>4. CASE CaptureTakesRequest
      <3>1. Head(requests) \in OwnTokens /\ requests' \in Seq(OwnTokens)
        BY <2>2, <2>4, TakeHead DEF CaptureTakesRequest, KnownInv
      <3>2. capture'.token = Head(requests)
        BY <2>4 DEF CaptureTakesRequest, PipelineTypeOK
      <3> QED  BY <2>1, <3>1, <3>2 DEF KnownInv
    <2>5. CASE CaptureSendsBarrier \/ CaptureStartsFrame \/ CaptureEndsFrame
      <3>1. UNCHANGED requests /\ capture'.pc # "sending"
        BY <2>5 DEF CaptureSendsBarrier, CaptureStartsFrame, CaptureEndsFrame, RestOfCapture,
                    PipelineTypeOK
      <3> QED  BY <2>1, <2>2, <3>1 DEF KnownInv
    <2>6. CASE ProcessorSends \/ \E t \in Tasks : TaskEnds(t)
      <3>1. requests' \in {requests, <<>>} /\ UNCHANGED capture
        BY <2>6 DEF ProcessorSends, TaskEnds, Exit
      <3> QED  BY <2>1, <2>2, <3>1, EmptySeq DEF KnownInv
    <2>7. CASE /\ ~SendRequest /\ ~CaptureSteps /\ ~CaptureStartsFrame /\ ~ProcessorSends
               /\ \A t \in Tasks : ~TaskEnds(t)
      <3>1. UNCHANGED <<requests, capture>>
        BY <2>2, <2>7 DEF PipelineNext, allVars, pipeVars, QueueMaintenance, CoordinatorSteps,
              InjectionAcked, InjectionLost, QueueControl, ControlLost, Settle, CaptureSteps,
              ProcessorSteps, ProcessorTakesSample, ProcessorTakesBarrier, RestOfProcessor,
              WriterSteps, WriterTakesData, WriterTakesMaintenance, WriterTakesControl,
              MatchPending, DrainItem, DrainBarrier, DrainGivesUp, RestOfWriter, Retry, Report
      <3> QED  BY <2>1, <2>2, <3>1 DEF KnownInv
    <2> QED  BY <2>3, <2>4, <2>5, <2>6, <2>7 DEF CaptureSteps
  <1>4. CASE op'.pc = "idle"
    BY <1>4 DEF KnownInv
  <1> QED
    BY <1>1, <1>2, <1>3, <1>4, OperationSteps

(* The operation counts on its barrier from the injected ack until the     *)
(* Writer's answer. *)
CountsOnBarrier ==
    \/ op.pc = "inject" /\ injection = "ok"
    \/ op.pc = "control"
    \/ op.pc = "ack" /\ \E c \in outstanding : c.id = op.id

(* The barrier of the running operation has one place at most and none     *)
(* before its request is sent; once the operation counts on it, it has     *)
(* left the capture loop, and its number is not poisoned. *)
BarrierInv ==
    op.pc # "idle" =>
        /\ OnePlace(TokenOf(op))
        /\ op.pc = "inject" /\ injection = "unsent" => Nowhere(TokenOf(op))
        /\ op.pc = "inject" \/ CountsOnBarrier => op.id \notin poisoned
        /\ CountsOnBarrier /\ alive = Tasks => Arrived(TokenOf(op))

(* A completion answers the only control there is, so nobody counts on a   *)
(* barrier afterwards. *)
LEMMA CompletionEndsCount ==
    ASSUME PipelineBase, LaneInv, Completes
    PROVE  op'.pc # "inject" /\ ~CountsOnBarrier'
  <1> USE DEF PipelineBase
  <1>1. job # NoJob /\ job \in outstanding
    BY DEF Completes, MatchPending, DrainBarrier, DrainGivesUp, Draining, LaneInv
  <1>2. WriterCommits(job) \/ WriterRefuses(job) \/ WriterBreaks(job)
    BY DEF Completes, MatchPending, DrainBarrier, DrainGivesUp, Complete
  <1>3. op.pc \notin {"inject", "control"} /\ outstanding = {job}
    BY <1>1, NothingOutstanding DEF CoordinatorInv, ControlInv, OneControlAtATime
  <1>4. outstanding' = {} /\ UNCHANGED op
    BY <1>2, <1>3, CompletionMoves
  <1> QED
    BY <1>3, <1>4 DEF CountsOnBarrier

(* Nothing of an operation to come is anywhere. *)
LEMMA FreshPlaces ==
    ASSUME PipelineBase, IdInv, NEW t, t.id = nextId
    PROVE  Nowhere(t) /\ nextId \notin poisoned
  <1> USE DEF PipelineBase
  <1>1. t \notin LowTokens /\ Item(t) \notin LowItems \cup {Mismatch}
    <2>1. t \notin LowTokens
      BY DEF LowTokens, TypeOK, Ids
    <2>2. \A u \in LowTokens : Item(u) # Item(t)
      BY <2>1 DEF Item
    <2> QED  BY <2>1, <2>2 DEF LowItems, Samples, Item, Mismatch
  <1>2. ~Has(requests, t) /\ ~Has(fifo, Item(t)) /\ ~Has(lane, Item(t))
    <2>1. ASSUME NEW S, NEW q \in Seq(S), NEW x, x \notin S PROVE ~Has(q, x)
      BY <2>1, ElementOfSeq DEF Has
    <2> QED  BY <1>1, <2>1 DEF IdInv
  <1>3. ~AtCapture(t) /\ ~AtProcessor(t) /\ ~AtPending(t)
    BY <1>1 DEF IdInv, AtCapture, AtProcessor, AtPending
  <1>4. nextId \notin poisoned
    BY DEF IdInv, TypeOK, Ids
  <1> QED
    BY <1>2, <1>3, <1>4 DEF Nowhere, Arrived, AtRequests, AtFifo, AtLane

(* What is nowhere is in one place at most. *)
LEMMA NowhereIsOnePlace ==
    ASSUME NEW t, Nowhere(t)
    PROVE  OnePlace(t)
  BY DEF Nowhere, Arrived, OnePlace, AtRequests, AtFifo, AtLane, Has, Once

(* An operation comes to count on its barrier when the capture loop acks   *)
(* the injection, and stops with the Writer's answer. *)
LEMMA CountStep ==
    ASSUME PipelineBase, OperationStays, CountsOnBarrier', [PipelineNext]_allVars
    PROVE  \/ CountsOnBarrier
           \/ CaptureSendsBarrier /\ op.pc = "inject" /\ op.id = capture.token.id
  <1> USE DEF PipelineBase
  <1>1. op.pc # "idle" /\ op'.id = op.id /\ ~Call
    BY DEF OperationStays
  <1>2. CASE InjectionAcked \/ QueueControl
    BY <1>2 DEF InjectionAcked, Injected, QueueControl, SendControl, CountsOnBarrier
  <1>3. CASE op'.pc = op.pc /\ ~InjectionAcked /\ ~QueueControl
    <2>1. injection' = "ok" => injection = "ok" \/ CaptureSendsBarrier
      BY <1>1 DEF PipelineNext, allVars, pipeVars, QueueMaintenance, CaptureStartsFrame,
            CoordinatorSteps, SendRequest, InjectionAcked, InjectionLost, QueueControl,
            ControlLost, Settle, CaptureSteps, CaptureTakesRequest, CaptureEndsFrame,
            ProcessorSteps, ProcessorTakesSample, ProcessorTakesBarrier, ProcessorSends,
            RestOfProcessor, WriterSteps, WriterTakesData, WriterTakesMaintenance,
            WriterTakesControl, MatchPending, DrainItem, DrainBarrier, DrainGivesUp,
            RestOfWriter, Retry, Report, TaskEnds, AckInjection
    <2>2. CASE op.pc = "inject"
      BY <1>3, <2>1, <2>2 DEF CountsOnBarrier, CaptureSendsBarrier, AckInjection
    <2>3. CASE op.pc = "ack"
      <3>1. \A c \in outstanding' : c \in outstanding
        <4>1. lane # <<>> => Head(lane) \in Items
          BY TakeHead DEF PipelineTypeOK, Items
        <4>2. CASE WriterSteps
          BY <4>1, <4>2, DataMoves, FaultMoves, CompletionMoves
             DEF WriterSteps, WriterTakesData, WriterTakesMaintenance, WriterTakesControl,
                 MatchPending, DrainItem, DrainBarrier, DrainGivesUp, Complete, vars, writerVars
        <4>3. CASE Settle
          BY <1>3, <4>3, EndingMoves DEF Settle, Ending
        <4>4. CASE ~WriterSteps /\ ~Settle
          BY <1>1, <1>3, <2>3, <4>4, ReportMoves, FaultMoves
             DEF PipelineNext, allVars, CoordinatorSteps, SendRequest, InjectionAcked, Injected,
                 InjectionLost, InjectFailed, ControlLost, ControlNotQueued, QueueMaintenance,
                 CaptureSteps, CaptureTakesRequest, CaptureSendsBarrier, CaptureEndsFrame,
                 CaptureStartsFrame, ProcessorSteps, ProcessorTakesSample, ProcessorTakesBarrier,
                 ProcessorSends, TaskEnds, Exit, TaskExits, Retry, Report, RestOfCapture,
                 RestOfProcessor, vars, writerVars
        <4> QED  BY <4>2, <4>3, <4>4
      <3> QED  BY <1>1, <1>3, <2>3, <3>1 DEF CountsOnBarrier
    <2>4. CASE op.pc = "control"
      BY <2>4 DEF CountsOnBarrier
    <2> QED  BY <1>1, <2>2, <2>3, <2>4 DEF TypeOK, Operations, NoOp
  <1> QED
    BY <1>2, <1>3 DEF OperationStays

(* No task is ever started again. *)
LEMMA AliveShrinks ==
    ASSUME PipelineBase, [PipelineNext]_allVars
    PROVE  alive' \subseteq alive
  <1> USE DEF PipelineBase
  <1>1. lane # <<>> => Head(lane) \in Items
    BY TakeHead DEF PipelineTypeOK, Items
  <1>2. CASE Call
    <2>1. Caller
      BY <1>2 DEF Call, Caller, Offered, OpeningCommands, ClosingCommands, Sources, Commands
    <2> QED  BY <2>1, CallerMoves
  <1>3. CASE InjectionLost \/ ControlLost \/ Settle
    <2>1. Ending
      BY <1>3 DEF InjectionLost, ControlLost, Settle, Ending
    <2> QED  BY <2>1, EndingMoves
  <1>4. CASE WriterSteps
    BY <1>1, <1>4, DataMoves, FaultMoves, CompletionMoves
       DEF WriterSteps, WriterTakesData, WriterTakesMaintenance, WriterTakesControl,
           MatchPending, DrainItem, DrainBarrier, DrainGivesUp, Complete, vars, taskVars
  <1>5. CASE ~Call /\ ~InjectionLost /\ ~ControlLost /\ ~Settle /\ ~WriterSteps
    BY <1>5, ReportMoves, FaultMoves
       DEF PipelineNext, allVars, CoordinatorSteps, SendRequest, InjectionAcked, Injected,
           QueueControl, SendControl, QueueMaintenance, CaptureSteps, CaptureTakesRequest,
           CaptureSendsBarrier, CaptureEndsFrame, CaptureStartsFrame, ProcessorSteps,
           ProcessorTakesSample, ProcessorTakesBarrier, ProcessorSends, TaskEnds, Exit,
           TaskExits, Retry, Report, RestOfCapture, RestOfProcessor, vars, taskVars
  <1> QED
    BY <1>2, <1>3, <1>4, <1>5

LEMMA BarrierStep ==
    ASSUME PipelineBase, LaneInv, IdInv, KnownInv, BarrierInv, [PipelineNext]_allVars
    PROVE  BarrierInv'
  <1> USE DEF PipelineBase
  <1>1. CASE op'.pc = "idle"
    BY <1>1 DEF BarrierInv
  <1>2. CASE OperationBegins
    <2>1. PICK t : t = TokenOf(op)'
      OBVIOUS
    <2>2. /\ op'.pc = "inject" /\ injection' = "unsent" /\ t.id = nextId
          /\ UNCHANGED <<requests, capture, fifo, processor, lane, pending, poisoned>>
      BY <1>2, <2>1 DEF OperationBegins, TokenOf
    <2>3. Nowhere(t) /\ nextId \notin poisoned
      BY <2>2, FreshPlaces
    <2>4. OnePlace(t)
      BY <2>3, NowhereIsOnePlace
    <2>5. Nowhere(t)' /\ OnePlace(t)'
      BY <2>2, <2>3, <2>4 DEF Nowhere, Arrived, OnePlace, AtRequests, AtCapture, AtFifo,
                              AtProcessor, AtLane, AtPending
    <2>6. Nowhere(TokenOf(op))' /\ OnePlace(TokenOf(op))'
      BY <2>1, <2>5 DEF Nowhere, Arrived, OnePlace, AtRequests, AtCapture, AtFifo, AtProcessor,
                        AtLane, AtPending
    <2> QED  BY <1>2, <2>2, <2>3, <2>6 DEF BarrierInv, CountsOnBarrier, OperationBegins
  <1>3. CASE UNCHANGED <<op, outstanding, requests, injection, capture, fifo, processor, lane,
                         pending, poisoned, alive>>
    BY <1>3 DEF BarrierInv, CountsOnBarrier, Nowhere, Arrived, OnePlace, AtRequests, AtCapture,
                AtFifo, AtProcessor, AtLane, AtPending, TokenOf
  <1>4. CASE OperationStays
    <2>1. /\ op.pc # "idle" /\ op'.pc # "idle" /\ op'.id = op.id /\ ~Call
          /\ TokenOf(op)' = TokenOf(op) /\ TokenOf(op).id = op.id
          /\ op'.pc = "inject" => op.pc = "inject"
      BY <1>4 DEF OperationStays, TokenOf, InjectionAcked, Injected, QueueControl, SendControl,
                  TypeOK, Operations, NoOp
    <2>2. PICK t \in Tokens : t = TokenOf(op)
      <3>1. op \in Operations
        BY <2>1 DEF TypeOK, NoOp
      <3> QED  BY <3>1, TokenType DEF Operations
    <2>3. OnePlace(t) /\ (SendRequest => Nowhere(t))
      BY <2>1, <2>2 DEF BarrierInv, SendRequest
    <2>4. OnePlace(t)' /\ (Nowhere(t) /\ ~SendRequest => Nowhere(t)')
      BY <2>2, <2>3, PlaceStep
    <2>5. op'.pc = "inject" /\ injection' = "unsent" => Nowhere(t)'
      <3>1. injection' = "unsent" => injection = "unsent" /\ ~SendRequest
        BY <2>1 DEF PipelineNext, allVars, pipeVars, QueueMaintenance, CaptureStartsFrame,
              CoordinatorSteps, SendRequest, InjectionAcked, InjectionLost, QueueControl,
              ControlLost, Settle, CaptureSteps, CaptureTakesRequest, CaptureSendsBarrier,
              CaptureEndsFrame, ProcessorSteps, ProcessorTakesSample, ProcessorTakesBarrier,
              ProcessorSends, RestOfProcessor, WriterSteps, WriterTakesData,
              WriterTakesMaintenance, WriterTakesControl, MatchPending, DrainItem, DrainBarrier,
              DrainGivesUp, RestOfWriter, Retry, Report, TaskEnds, AckInjection
      <3> QED  BY <2>1, <2>2, <2>4, <3>1 DEF BarrierInv
    <2>6. (op'.pc = "inject" \/ CountsOnBarrier') => ~Completes
      BY CompletionEndsCount
    <2>7. op'.pc = "inject" \/ CountsOnBarrier' => op.id \notin poisoned'
      <3>1. (op'.pc = "inject" \/ CountsOnBarrier') => op.pc = "inject" \/ CountsOnBarrier
        BY <1>4, <2>1, CountStep
      <3>2. ~Completes => UNCHANGED poisoned
        BY <2>1 DEF PipelineNext, allVars, pipeVars, QueueMaintenance, CaptureStartsFrame,
              CoordinatorSteps, SendRequest, InjectionAcked, InjectionLost, QueueControl,
              ControlLost, Settle, CaptureSteps, CaptureTakesRequest, CaptureSendsBarrier,
              CaptureEndsFrame, RestOfCapture, ProcessorSteps, ProcessorTakesSample,
              ProcessorTakesBarrier, ProcessorSends, RestOfProcessor, WriterSteps,
              WriterTakesData, WriterTakesMaintenance, WriterTakesControl, DrainItem, Retry,
              Report, TaskEnds, Completes
      <3> QED  BY <2>1, <2>6, <3>1, <3>2 DEF BarrierInv
    <2>8. ASSUME CountsOnBarrier', alive' = Tasks PROVE Arrived(t)'
      <3>1. CASE CountsOnBarrier
        <4>1. alive' \subseteq alive
          BY <1>4, AliveShrinks
        <4>2. Arrived(t) /\ t.id \notin poisoned
          BY <2>1, <2>2, <2>8, <3>1, <4>1 DEF BarrierInv, TypeOK
        <4> QED  BY <2>2, <2>6, <2>8, <4>2, ArrivalStep
      <3>2. CASE CaptureSendsBarrier /\ op.pc = "inject" /\ op.id = capture.token.id
        <4>1. capture.token = t
          BY <2>1, <2>2, <3>2 DEF KnownInv, OwnTokens, CaptureSendsBarrier
        <4>2. fifo' = Append(fifo, Item(t)) /\ Item(t) \in Samples \cup Barriers
          BY <2>2, <3>2, <4>1 DEF CaptureSendsBarrier, Barriers
        <4>3. fifo \in Seq(Samples \cup Barriers)
          BY DEF PipelineTypeOK
        <4>4. Has(fifo', Item(t))
          BY <4>2, <4>3, AppendOnce
        <4> QED  BY <4>4 DEF Arrived, AtFifo
      <3> QED  BY <1>4, <2>8, <3>1, <3>2, CountStep
    <2>9. /\ OnePlace(TokenOf(op))'
          /\ Nowhere(t)' => Nowhere(TokenOf(op))'
          /\ Arrived(t)' => Arrived(TokenOf(op))'
      BY <2>1, <2>2, <2>4 DEF Nowhere, Arrived, OnePlace, AtRequests, AtCapture, AtFifo,
                              AtProcessor, AtLane, AtPending
    <2> QED  BY <2>1, <2>5, <2>7, <2>8, <2>9 DEF BarrierInv
  <1> QED
    BY <1>1, <1>2, <1>3, <1>4, OperationSteps

(* What has arrived and has one place at most is in exactly one. *)
LEMMA ExactlyOnePlace ==
    ASSUME PipelineBase, NEW t, OnePlace(t), Arrived(t)
    PROVE  \E p \in Places(t) : Places(t) = {p}
  <1> DEFINE InQueue(name, q) == {<<name, i>> : i \in {j \in 1 .. Len(q) : q[j] = Item(t)}}
             HeldBack == {p \in {<<"processor", 0>>} : AtProcessor(t)}
             Early    == {p \in {<<"pending", 0>>} : AtPending(t)}
  <1>1. AtProcessor(t) <=> processor = [pc |-> "sending", item |-> Item(t)]
    BY DEF AtProcessor, PipelineBase, PipelineTypeOK
  <1>2. Places(t) = InQueue("fifo", fifo) \cup InQueue("lane", lane) \cup HeldBack \cup Early
    BY <1>1 DEF Places, AtPending
  <1>3. ASSUME NEW name, NEW q, Once(q, Item(t)), Has(q, Item(t))
        PROVE  \E p : InQueue(name, q) = {p}
    <2>1. PICK i \in 1 .. Len(q) : q[i] = Item(t)
      BY <1>3 DEF Has
    <2>2. \A j \in 1 .. Len(q) : q[j] = Item(t) => j = i
      BY <1>3, <2>1 DEF Once
    <2>3. InQueue(name, q) = {<<name, i>>}
      BY <2>1, <2>2
    <2> QED  BY <2>3
  <1>4. ASSUME NEW name, NEW q, ~Has(q, Item(t)) PROVE InQueue(name, q) = {}
    BY <1>4 DEF Has
  <1>5. HeldBack = IF AtProcessor(t) THEN {<<"processor", 0>>} ELSE {}
    OBVIOUS
  <1>6. Early = IF AtPending(t) THEN {<<"pending", 0>>} ELSE {}
    OBVIOUS
  <1> HIDE DEF InQueue, HeldBack, Early
  <1>7. /\ AtFifo(t) => \E p : InQueue("fifo", fifo) = {p}
        /\ AtLane(t) => \E p : InQueue("lane", lane) = {p}
        /\ ~AtFifo(t) => InQueue("fifo", fifo) = {}
        /\ ~AtLane(t) => InQueue("lane", lane) = {}
    <2>1. Once(fifo, Item(t)) /\ Once(lane, Item(t))
      BY DEF OnePlace
    <2>2. AtFifo(t) => \E p : InQueue("fifo", fifo) = {p}
      BY <1>3, <2>1 DEF AtFifo
    <2>3. AtLane(t) => \E p : InQueue("lane", lane) = {p}
      BY <1>3, <2>1 DEF AtLane
    <2> QED  BY <1>4, <2>2, <2>3 DEF AtFifo, AtLane
  <1>8. \E p : Places(t) = {p}
    BY <1>2, <1>5, <1>6, <1>7 DEF OnePlace, Arrived
  <1> QED
    BY <1>8

LEMMA BarrierInvHolds == PipelineSpec => [](PipelineBase /\ KnownInv /\ BarrierInv)
  <1>1. PipelineInit => KnownInv /\ BarrierInv
    BY DEF PipelineInit, Init, NoOp, KnownInv, BarrierInv
  <1>2. OrderBase /\ KnownInv /\ BarrierInv /\ [PipelineNext]_allVars
          => KnownInv' /\ BarrierInv'
    BY KnownStep, BarrierStep DEF OrderBase, RevisionInv
  <1> QED
    BY <1>1, <1>2, OrderInvHolds, PipelineBaseHolds, PTL DEF PipelineSpec

(* An injected barrier is not lost while its operation counts on it: until *)
(* the Writer answers, it is in exactly one place between the capture loop *)
(* and the Writer's table of early barriers, whatever the capacities and   *)
(* whoever had to wait for a slot. *)
THEOREM PipelineBarrier == PipelineSpec => []InjectedBarrierIsSomewhere
  <1>1. PipelineBase /\ BarrierInv => InjectedBarrierIsSomewhere
    <2> SUFFICES ASSUME PipelineBase, BarrierInv, alive = Tasks,
                        \/ op.pc = "control"
                        \/ op.pc = "ack" /\ \E c \in outstanding : c.id = op.id
                 PROVE  \E p \in Places(TokenOf(op)) : Places(TokenOf(op)) = {p}
      BY DEF InjectedBarrierIsSomewhere
    <2>1. OnePlace(TokenOf(op)) /\ Arrived(TokenOf(op))
      BY DEF BarrierInv, CountsOnBarrier
    <2> QED  BY <2>1, ExactlyOnePlace
  <1> QED
    BY <1>1, BarrierInvHolds, PTL
=============================================================================
