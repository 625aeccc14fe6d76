-------------------------- MODULE CaptureCoordinator --------------------------
(***************************************************************************)
(* The Agent's single control entry (capture_coordinator.rs): capture      *)
(* commands, settings application, Lock/Sleep events, task-exit reports    *)
(* and monitor faults, serialised by one transition lock that is held      *)
(* across the awaits of an operation.                                      *)
(*                                                                         *)
(* The Agent runs on a current-thread runtime, so everything between two   *)
(* awaits is one action here.  The pipeline the coordinator talks to is    *)
(* seen from the coordinator's side only: a barrier is injected or not, a  *)
(* control is queued or not, and the Writer completes an accepted control  *)
(* at any later time - even after the coordinator stopped waiting for it.  *)
(* CapturePipeline replaces that environment by the real queues and tasks. *)
(***************************************************************************)
EXTENDS CaptureGate, Integers

CONSTANTS
    Times,      \* time stamps of Lock/Sleep events
    NoTime,     \* "no first time recorded"
    MaxRev,     \* bound on settings revisions
    MaxOps,     \* bound on the operations that take the lock and await
    Timeouts,   \* may the server-side deadlines fire? (FALSE: they never do)
    AllowCancel \* may a lock/sleep operation be aborted while it awaits?

ASSUME CoordinatorAssumption ==
    /\ NoTime \notin Times
    /\ MaxRev \in Nat /\ MaxOps \in Nat
    /\ Timeouts \in BOOLEAN /\ AllowCancel \in BOOLEAN

VARIABLES
    co,           \* CoordinatorState + Suppressions (std Mutex, no await inside)
    published,    \* capture watch and SharedState.capture_state: always written together
    writerState,  \* SharedState.writer_state (process_state is Faulted with it)
    applied,      \* SharedState.applied_settings_revision, written by the Writer
    settings,     \* revision in the settings watch: what capture and processor use
    blocked,      \* SharedState.capture_blocked, fixed at startup
    alive,        \* tasks whose health guard is Alive
    exits,        \* exit events queued for supervise_pipeline_exits
    op,           \* the operation that holds the transition lock
    nextId,       \* next barrier id / operation number
    outstanding,  \* controls accepted by the control lane, not completed by the Writer
    ack,          \* what the Writer put in the ack channel of the current operation
    bounded,      \* history: the engine has an open boundary gap and Running was not published since
    commits       \* history: boundaries committed for the present activation of each source

gateVars   == <<co, published>>
writerVars == <<writerState, applied, outstanding, ack, bounded, commits>>
taskVars   == <<alive, exits>>
opVars     == <<op, nextId>>
vars == <<gateVars, writerVars, taskVars, opVars, settings, blocked>>

Revisions == 0 .. MaxRev
Ids       == 0 .. MaxOps
OpKinds   == ClosingCommands \cup Sources \cup {"settings"}
NoOp      == [kind |-> "none", pc |-> "idle", id |-> 0, expected |-> 0, target |-> 0]
Operations == [kind : OpKinds, pc : {"inject", "control", "ack"},
               id : Ids, expected : Revisions, target : Revisions]
LockFree  == op.pc = "idle"

Controls == [kind : OpKinds, id : Ids, target : Revisions, expected : Revisions,
             at : Times \cup {NoTime}]

SourceStates == [active : BOOLEAN, committed : BOOLEAN, first : Times \cup {NoTime}]

CoordinatorStates ==
    [desired : CaptureStates, lastPublished : CaptureStates,
     transition : BOOLEAN, fault : BOOLEAN, writerFault : BOOLEAN, monitorFault : BOOLEAN,
     source : [Sources -> SourceStates]]

TypeOK ==
    /\ co \in CoordinatorStates
    /\ published \in CaptureStates
    /\ writerState \in WriterStates
    /\ applied \in Revisions /\ settings \in Revisions
    /\ blocked \in BOOLEAN
    /\ alive \in SUBSET Tasks /\ exits \in SUBSET Tasks
    /\ op \in Operations \cup {NoOp}
    /\ nextId \in Ids
    /\ outstanding \in SUBSET Controls
    /\ ack \in {"none", "ok", "err"}
    /\ bounded \in BOOLEAN
    /\ commits \in [Sources -> 0 .. 2]

-----------------------------------------------------------------------------
(* main.rs: Running only with --capture-on-start on trusted settings.  A   *)
(* blocked start keeps the database revision as applied while the settings *)
(* in force are the built-in defaults.                                     *)
Init ==
    /\ blocked \in BOOLEAN
    /\ published \in IF blocked THEN {"Stopped"} ELSE {"Stopped", "Running"}
    /\ co = [desired |-> published, lastPublished |-> published, transition |-> FALSE,
             fault |-> FALSE, writerFault |-> FALSE, monitorFault |-> FALSE,
             source |-> [s \in Sources |-> Released(NoTime)]]
    /\ writerState = "Healthy"
    /\ applied \in IF blocked THEN Revisions \ {0} ELSE Revisions
    /\ settings = IF blocked THEN 0 ELSE applied
    /\ alive = Tasks /\ exits = {}
    /\ op = NoOp /\ nextId = 0
    /\ outstanding = {} /\ ack = "none"
    /\ bounded = (published = "Stopped")
    /\ commits = [s \in Sources |-> 0]

-----------------------------------------------------------------------------
(* The state transformers every path is made of.                           *)

(* Operators named "Faulty..." are deliberately wrong variants of the      *)
(* definition that follows them.  No specification uses them: each stands  *)
(* for a bug some property below has to notice.                            *)

(* Faulty: a fault behind the coordinator is taken for an ordinary stop.   *)
FaultySyncExternal(c) ==
    IF published # c.lastPublished
    THEN [c EXCEPT !.desired = published, !.lastPublished = published]
    ELSE c

(* sync_external: adopt what mark_fatal wrote behind the coordinator.      *)
SyncExternal(c) ==
    IF writerState = "Faulted"
    THEN [c EXCEPT !.writerFault = TRUE, !.desired = "Stopped", !.lastPublished = "Stopped"]
    ELSE IF published # c.lastPublished
         THEN [c EXCEPT !.desired = published, !.lastPublished = published]
         ELSE c

(* The history variable follows the gate: a published Running may reopen.  *)
ShowState(c, state) ==
    /\ co' = c
    /\ published' = state
    /\ bounded' = (bounded /\ state # "Running")

(* publish: refused without a capture consumer, and for Running without a  *)
(* healthy control plane; a refusal writes nothing.                        *)
CanPublish(c) ==
    /\ "capture" \in alive
    /\ Effective(c) = "Running" => alive = Tasks

Publish(c) == ShowState([c EXCEPT !.lastPublished = Effective(c)], Effective(c))

(* The three fallbacks of a failed publication.                            *)
ForceStopped(c) ==
    ShowState([c EXCEPT !.desired = "Stopped", !.transition = FALSE, !.fault = TRUE,
                        !.lastPublished = "Stopped"], "Stopped")

ForceStoppedKeepSuppression(c) ==
    ShowState([c EXCEPT !.desired = "Stopped", !.transition = FALSE,
                        !.lastPublished = "Stopped"], "Stopped")

KeepUnpublished(c) == ShowState(c, published)

PublishOrStop(c) == IF CanPublish(c) THEN Publish(c) ELSE ForceStopped(c)

PublishOrStopSuppressed(c) ==
    IF CanPublish(c) THEN Publish(c) ELSE ForceStoppedKeepSuppression(c)

PublishOrKeep(c) == IF CanPublish(c) THEN Publish(c) ELSE KeepUnpublished(c)

(* latch_writer_fault: permanent for this process.                         *)
LatchWriterFault ==
    /\ ShowState([co EXCEPT !.transition = FALSE, !.writerFault = TRUE, !.desired = "Stopped",
                            !.lastPublished = "Stopped"], "Stopped")
    /\ writerState' = "Faulted"

(* end_transition(fault), before it publishes.                             *)
Ended(c, fault) ==
    SyncExternal([c EXCEPT !.transition = FALSE, !.fault = @ \/ fault])

-----------------------------------------------------------------------------
(* apply_capture_command: everything up to the first await.                *)

Fenced(c, command) ==
    \/ command \in OpeningCommands /\ c.writerFault
    \/ command = "ensure" /\ c.monitorFault
    \/ command \in {"start", "ensure"} /\ blocked

(* Fenced, invalid or idempotent: an immediate reply, no boundary.         *)
AnswerCommand(command) ==
    LET c == SyncExternal(co) IN
    /\ LockFree
    /\ Fenced(c, command) \/ ~Proceeds(command, c.desired)
    /\ KeepUnpublished(c)
    /\ UNCHANGED <<writerState, applied, outstanding, ack, commits, taskVars, opVars,
                   settings, blocked>>

(* start / resume / ensure clear the lifecycle freeze and publish.         *)
OpenGate(command) ==
    LET c == SyncExternal(co) IN
    /\ LockFree
    /\ command \in OpeningCommands
    /\ ~Fenced(c, command) /\ Proceeds(command, c.desired)
    /\ PublishOrStop([c EXCEPT !.desired = "Running", !.fault = FALSE])
    /\ UNCHANGED <<writerState, applied, outstanding, ack, commits, taskVars, opVars,
                   settings, blocked>>

(* Faulty: the freeze is noted but not published before the awaits.        *)
FaultyBeginTransition(kind, c, target) ==
    /\ nextId < MaxOps
    /\ KeepUnpublished([c EXCEPT !.transition = TRUE])
    /\ op' = [kind |-> kind, pc |-> "inject", id |-> nextId,
              expected |-> applied, target |-> target]
    /\ nextId' = nextId + 1
    /\ ack' = "none"
    /\ UNCHANGED <<writerState, applied, outstanding, taskVars, settings, blocked>>

(* begin_transition: freeze, publish, and only then await the injection.   *)
BeginTransition(kind, c, target) ==
    LET frozen == [c EXCEPT !.transition = TRUE] IN
    /\ nextId < MaxOps
    /\ IF kind \in Sources THEN PublishOrStopSuppressed(frozen) ELSE PublishOrStop(frozen)
    /\ IF CanPublish(frozen)
       THEN /\ op' = [kind |-> kind, pc |-> "inject", id |-> nextId,
                      expected |-> applied, target |-> target]
            /\ nextId' = nextId + 1
       ELSE UNCHANGED opVars
    /\ ack' = "none"
    /\ UNCHANGED <<writerState, applied, outstanding, taskVars, settings, blocked>>

BeginClose(command) ==
    LET c == SyncExternal(co) IN
    /\ LockFree
    /\ command \in ClosingCommands
    /\ Proceeds(command, c.desired)
    /\ BeginTransition(command, [c EXCEPT !.desired = Target(command)], applied)
    /\ UNCHANGED commits

(* apply_settings: fenced by a writer fault and against a downgrade.       *)
BeginSettings(target) ==
    LET c == SyncExternal(co) IN
    /\ LockFree
    /\ IF c.writerFault \/ target < applied
       THEN /\ KeepUnpublished(c)
            /\ UNCHANGED <<writerState, applied, outstanding, ack, taskVars, opVars,
                           settings, blocked>>
       ELSE BeginTransition("settings", c, target)
    /\ UNCHANGED commits

(* Faulty: a repeated event commits its boundary again.                    *)
FaultyRepeatedEnter(s, at) ==
    LET c      == SyncExternal(co)
        active == IF c.source[s].active THEN c
                  ELSE [c EXCEPT !.source[s] = Activated(at)] IN
    /\ LockFree
    /\ ~c.writerFault /\ ~c.monitorFault
    /\ BeginTransition(s, active, applied)
    /\ UNCHANGED commits

(* apply_enter_event: a retry keeps the time of the first event.           *)
BeginEnter(s, at) ==
    LET c      == SyncExternal(co)
        active == IF c.source[s].active THEN c
                  ELSE [c EXCEPT !.source[s] = Activated(at)] IN
    /\ LockFree
    /\ IF c.writerFault \/ c.monitorFault \/ (c.source[s].active /\ c.source[s].committed)
       THEN /\ KeepUnpublished(c)
            /\ UNCHANGED <<writerState, applied, outstanding, ack, taskVars, opVars,
                           settings, blocked>>
       ELSE BeginTransition(s, active, applied)
    /\ UNCHANGED commits

(* Faulty: the source is cleared, but nothing is published.                *)
FaultyRelease(s) ==
    LET c == SyncExternal(co) IN
    /\ LockFree
    /\ ~c.writerFault /\ ~c.monitorFault /\ c.source[s].active
    /\ KeepUnpublished([c EXCEPT !.source[s] = Released(NoTime)])
    /\ commits' = [commits EXCEPT ![s] = 0]
    /\ UNCHANGED <<writerState, applied, outstanding, ack, taskVars, opVars, settings, blocked>>

(* apply_release_event: clears one source, publishes, commits nothing.     *)
Release(s) ==
    LET c == SyncExternal(co) IN
    /\ LockFree
    /\ IF c.writerFault \/ c.monitorFault \/ ~c.source[s].active
       THEN KeepUnpublished(c) /\ UNCHANGED commits
       ELSE /\ PublishOrStop([c EXCEPT !.source[s] = Released(NoTime)])
            /\ commits' = [commits EXCEPT ![s] = 0]
    /\ UNCHANGED <<writerState, applied, outstanding, ack, taskVars, opVars, settings, blocked>>

-----------------------------------------------------------------------------
(* The awaits of an operation.  Each kind has its own way to end.          *)

(* Faulty: a failed close ends without the lifecycle freeze.               *)
FaultyEndUncommitted(kind) ==
    \/ kind \in ClosingCommands /\ PublishOrKeep(Ended(co, FALSE))
    \/ kind = "settings"        /\ PublishOrStop(Ended(co, FALSE))
    \/ kind \in Sources         /\ PublishOrStopSuppressed(Ended(co, FALSE))

(* The operation ended without a commit: a close keeps the lifecycle       *)
(* freeze, settings keep the last known good and unfreeze, an entered      *)
(* source stays suppressed and uncommitted so that it can be retried.      *)
EndUncommitted(kind) ==
    \/ kind \in ClosingCommands /\ PublishOrKeep(Ended(co, TRUE))
    \/ kind = "settings"        /\ PublishOrStop(Ended(co, FALSE))
    \/ kind \in Sources         /\ PublishOrStopSuppressed(Ended(co, FALSE))

(* An explicit Writer refusal ends an entered source without the fallback. *)
EndRefused(kind) ==
    IF kind \in Sources THEN PublishOrKeep(Ended(co, FALSE))
    ELSE EndUncommitted(kind)

(* Committed.  The settings watch is switched before the gate is released, *)
(* and only if a task is left to read it.                                  *)
SettingsConsumed == alive \intersect {"capture", "processor"} # {}

EndCommitted(kind) ==
    \/ kind \in ClosingCommands /\ PublishOrStop(Ended(co, FALSE))
    \/ /\ kind = "settings"
       /\ IF SettingsConsumed THEN PublishOrStop(Ended(co, FALSE))
          ELSE ForceStopped(co)
    \/ /\ kind \in Sources
       /\ PublishOrStopSuppressed(Ended([co EXCEPT !.source[kind].committed = TRUE], FALSE))

Finish == op' = NoOp /\ UNCHANGED nextId

Injected ==
    /\ op.pc = "inject"
    /\ op' = [op EXCEPT !.pc = "control"]
    /\ UNCHANGED <<gateVars, writerVars, taskVars, nextId, settings, blocked>>

(* Not injected, or the deadline passed: the control is never sent.        *)
InjectFailed ==
    /\ op.pc = "inject"
    /\ EndUncommitted(op.kind)
    /\ Finish
    /\ UNCHANGED <<writerState, applied, outstanding, ack, commits, taskVars, settings, blocked>>

(* send_control got a permit.  The boundary time of a source is the time   *)
(* of the event that activated it, not of the retry.                       *)
SendControl ==
    /\ op.pc = "control"
    /\ "writer" \in alive
    /\ op' = [op EXCEPT !.pc = "ack"]
    /\ outstanding' = outstanding \cup
            {[kind |-> op.kind, id |-> op.id, target |-> op.target, expected |-> op.expected,
              at |-> IF op.kind \in Sources THEN co.source[op.kind].first ELSE NoTime]}
    /\ UNCHANGED <<gateVars, writerState, applied, ack, bounded, commits, taskVars, nextId,
                   settings, blocked>>

ControlNotQueued ==
    /\ op.pc = "control"
    /\ EndUncommitted(op.kind)
    /\ Finish
    /\ UNCHANGED <<writerState, applied, outstanding, ack, commits, taskVars, settings, blocked>>

AckCommitted ==
    /\ op.pc = "ack" /\ ack = "ok"
    /\ EndCommitted(op.kind)
    /\ settings' = IF op.kind = "settings" /\ SettingsConsumed THEN op.target ELSE settings
    /\ Finish
    /\ UNCHANGED <<writerState, applied, outstanding, ack, commits, taskVars, blocked>>

AckRefused ==
    /\ op.pc = "ack" /\ ack = "err"
    /\ EndRefused(op.kind)
    /\ Finish
    /\ UNCHANGED <<writerState, applied, outstanding, ack, commits, taskVars, settings, blocked>>

(* Faulty: no answer in time is taken for "not committed".                 *)
FaultyAckUnknown ==
    /\ op.pc = "ack" /\ ack = "none"
    /\ Timeouts \/ "writer" \notin alive
    /\ EndUncommitted(op.kind)
    /\ Finish
    /\ UNCHANGED <<writerState, applied, outstanding, ack, commits, taskVars, settings, blocked>>

(* enter_unknown_outcome_fault: the deadline passed or the ack channel was *)
(* dropped, so the commit may or may not happen; nothing is sent again.    *)
AckUnknown ==
    /\ op.pc = "ack" /\ ack = "none"
    /\ Timeouts \/ "writer" \notin alive
    /\ LatchWriterFault
    /\ Finish
    /\ UNCHANGED <<applied, outstanding, ack, commits, taskVars, settings, blocked>>

(* The task of a lock/sleep operation is aborted (the bridge consumer at   *)
(* shutdown).  AcceptedControlGuard fences an accepted control; an abort   *)
(* before that drops the lock and leaves the transition frozen.            *)
Cancel ==
    /\ AllowCancel /\ op.kind \in Sources
    /\ IF op.pc = "ack" THEN LatchWriterFault
       ELSE UNCHANGED <<gateVars, bounded, writerState>>
    /\ Finish
    /\ UNCHANGED <<applied, outstanding, ack, commits, taskVars, settings, blocked>>

-----------------------------------------------------------------------------
(* Actors that do not go through an operation.                             *)

(* latch_monitor_fault: the event pump is gone.  It does not take the      *)
(* transition lock.                                                        *)
LatchMonitorFault ==
    /\ ~co.monitorFault
    /\ ShowState([co EXCEPT !.monitorFault = TRUE, !.desired = "Stopped",
                            !.lastPublished = "Stopped"], "Stopped")
    /\ UNCHANGED <<writerState, applied, outstanding, ack, commits, taskVars, opVars,
                   settings, blocked>>

(* supervise_pipeline_exits -> report_pipeline_exit, under the lock.       *)
ReportExit(t) ==
    /\ LockFree /\ t \in exits
    /\ exits' = exits \ {t}
    /\ LatchWriterFault
    /\ UNCHANGED <<applied, outstanding, ack, commits, alive, opVars, settings, blocked>>

(* Faulty: the health guard drops without an exit event.                   *)
FaultyTaskExits(t) ==
    /\ t \in alive
    /\ alive' = alive \ {t}
    /\ outstanding' = IF t = "writer" THEN {} ELSE outstanding
    /\ UNCHANGED <<gateVars, writerState, applied, ack, bounded, commits, exits, opVars,
                   settings, blocked>>

(* A task returns, panics or is aborted: its health guard drops.  With the *)
(* Writer go its control lane and every ack sender in it.                  *)
TaskExits(t) ==
    /\ t \in alive
    /\ alive' = alive \ {t}
    /\ exits' = exits \cup {t}
    /\ outstanding' = IF t = "writer" THEN {} ELSE outstanding
    /\ UNCHANGED <<gateVars, writerState, applied, ack, bounded, commits, opVars, settings, blocked>>

(* The Writer completes an accepted control, whether or not anybody still  *)
(* waits for the answer.                                                   *)
Answered(c, result) ==
    /\ outstanding' = outstanding \ {c}
    /\ ack' = IF op.pc = "ack" /\ op.id = c.id THEN result ELSE ack

WriterCommits(c) ==
    /\ "writer" \in alive /\ c \in outstanding
    /\ Answered(c, "ok")
    /\ applied' = IF c.kind = "settings" THEN c.target ELSE applied
    /\ bounded' = (bounded \/ c.kind # "settings")
    /\ commits' = IF c.kind \in Sources
                  THEN [commits EXCEPT ![c.kind] = IF @ < 2 THEN @ + 1 ELSE @]
                  ELSE commits
    /\ UNCHANGED <<gateVars, writerState, taskVars, opVars, settings, blocked>>

(* mark_fatal: the only stop that bypasses the coordinator.                *)
MarkFatal ==
    /\ writerState' = "Faulted"
    /\ published' = "Stopped"
    /\ UNCHANGED <<co, bounded>>

(* Refused without a commit: no barrier, a stale revision, settings that   *)
(* cannot be persisted.                                                    *)
WriterRefuses(c) ==
    /\ "writer" \in alive /\ c \in outstanding
    /\ Answered(c, "err")
    /\ UNCHANGED <<gateVars, writerState, applied, bounded, commits, taskVars, opVars,
                   settings, blocked>>

(* A boundary the engine fails to commit is fatal.                         *)
WriterBreaks(c) ==
    /\ "writer" \in alive /\ c \in outstanding
    /\ c.kind # "settings"
    /\ Answered(c, "err")
    /\ MarkFatal
    /\ UNCHANGED <<applied, commits, taskVars, opVars, settings, blocked>>

(* A sample or heartbeat that cannot be written.                           *)
WriterFails ==
    /\ "writer" \in alive
    /\ MarkFatal
    /\ UNCHANGED <<applied, outstanding, ack, commits, taskVars, opVars, settings, blocked>>

(* Faulty: a late retry overwrites a fault.                                *)
FaultyWriterRetries ==
    /\ "writer" \in alive
    /\ writerState' \in {"Healthy", "Degraded"}
    /\ UNCHANGED <<gateVars, applied, outstanding, ack, bounded, commits, taskVars, opVars,
                   settings, blocked>>

(* A busy database: Degraded while retrying, Healthy when a retry works;   *)
(* neither may overwrite a fault.                                          *)
WriterRetries ==
    /\ "writer" \in alive
    /\ writerState # "Faulted"
    /\ writerState' \in {"Healthy", "Degraded"}
    /\ UNCHANGED <<gateVars, applied, outstanding, ack, bounded, commits, taskVars, opVars,
                   settings, blocked>>

-----------------------------------------------------------------------------
Caller ==
    \/ \E command \in Commands : AnswerCommand(command)
    \/ \E command \in OpeningCommands : OpenGate(command)
    \/ \E command \in ClosingCommands : BeginClose(command)
    \/ \E target \in Revisions : BeginSettings(target)
    \/ \E s \in Sources, at \in Times : BeginEnter(s, at)
    \/ \E s \in Sources : Release(s)
    \/ LatchMonitorFault

Operation ==
    \/ Injected \/ InjectFailed
    \/ SendControl \/ ControlNotQueued
    \/ AckCommitted \/ AckRefused \/ AckUnknown

Environment ==
    \/ Cancel
    \/ \E t \in Tasks : TaskExits(t)
    \/ \E c \in outstanding : WriterCommits(c) \/ WriterRefuses(c) \/ WriterBreaks(c)
    \/ WriterFails
    \/ WriterRetries

Supervisor == \E t \in Tasks : ReportExit(t)

Next == Caller \/ Operation \/ Environment \/ Supervisor

(* An operation's awaits end - by their deadline if by nothing else - and  *)
(* the supervisor gets the lock, which tokio hands out in FIFO order.      *)
Fairness == WF_vars(Operation) /\ SF_vars(Supervisor)

Spec == Init /\ [][Next]_vars /\ Fairness

-----------------------------------------------------------------------------
(***************************************************************************)
(* What the coordinator must guarantee.                                    *)
(***************************************************************************)

(* Samples are only taken while nothing suppresses them: if Running is     *)
(* published, the user wants it, no transition, freeze, fault, lock or     *)
(* sleep is active, and the Writer has not failed behind the coordinator.  *)
RunningMeansGateOpen ==
    published = "Running" => GateOpen(co) /\ writerState # "Faulted"

(* A Writer or pipeline fault is final for this process: no command,       *)
(* settings change, event, late ack or busy retry brings the Writer or     *)
(* the gate back.                                                          *)
FaultIsFinal ==
    [][writerState = "Faulted" => writerState' = "Faulted" /\ published' = "Stopped"]_vars

(* Sampling never resumes on a settings revision other than the one the    *)
(* Writer applied: the watch is switched before the gate is released, and  *)
(* an unknown outcome is fenced.                                           *)
RunningUsesAppliedSettings == published = "Running" => settings = applied

(* A quiet gate is explained by a committed gap: a pause or stop that is   *)
(* neither under way nor reported as failed, and a lock or sleep whose     *)
(* boundary counts as committed, have their boundary in the engine.        *)
QuietCloseIsRecorded ==
    /\ (/\ op.kind \notin ClosingCommands
        /\ co.desired # "Running" /\ ~co.fault /\ ~co.monitorFault
        /\ writerState # "Faulted" /\ alive = Tasks)
       => bounded
    /\ \A s \in Sources : co.source[s].active /\ co.source[s].committed => bounded

(* When no operation is under way the published state is the effective     *)
(* one and nothing is left frozen by a transition: no path forgets to      *)
(* publish, so releasing the last suppression resumes a wanted recording.  *)
IdleGateIsSettled ==
    LockFree /\ "capture" \in alive /\ writerState # "Faulted"
    => published = Effective(co) /\ (AllowCancel \/ ~co.transition)

(* One lock or sleep has one boundary, at the time it began: it is         *)
(* committed at most once however often the event is retried, a retry      *)
(* never postpones the time, and the control carries that time.            *)
OneBoundaryPerActivation ==
    /\ [](\A s \in Sources : commits[s] <= 1)
    /\ [][\A s \in Sources : co.source[s].active /\ co'.source[s].active
              => co'.source[s].first = co.source[s].first]_vars
    /\ [](\A c \in outstanding : c.kind \in Sources /\ op.id = c.id /\ op.pc = "ack"
              => c.at = co.source[c.kind].first)

(* The Writer never holds two controls of the coordinator: an operation    *)
(* whose outcome is unknown blocks every later one.                        *)
OneControlAtATime == \A c, d \in outstanding : c = d

(* A lifecycle freeze never hides behind a wanted recording: start or      *)
(* resume cannot be answered "already running" while the freeze holds.     *)
FreezeIsNotIdempotent == co.fault => co.desired # "Running"

(* The strengthening that makes the properties above inductive.  A fault   *)
(* behind the coordinator stops the gate at once; without one the          *)
(* coordinator knows what it published.                                    *)
GateInv ==
    /\ writerState = "Faulted" => published = "Stopped"
    /\ writerState # "Faulted" => published = co.lastPublished
    /\ published = "Running" => GateOpen(co)
    /\ co.writerFault => writerState = "Faulted"
    /\ op.pc # "idle" => published # "Running"
    /\ op.kind \in ClosingCommands => co.desired # "Running"
    /\ co.fault => co.desired # "Running"
    /\ blocked => co.desired = "Stopped"

(* A control the Writer still holds is the one the running operation waits *)
(* for, or the coordinator has given up for good.                          *)
ControlInv ==
    /\ op.pc \in {"inject", "control"} => ack = "none"
    /\ co.writerFault => op.pc = "idle"
    /\ \/ co.writerFault
       \/ \A c \in outstanding :
             /\ op.pc = "ack" /\ ack = "none"
             /\ c.kind = op.kind /\ c.id = op.id /\ c.target = op.target
    /\ OneControlAtATime

(* The settings watch lags the Writer's revision only between the commit   *)
(* and its answer, or when recording cannot resume in this process.        *)
AnsweredSettings == op.kind = "settings" /\ op.pc = "ack" /\ ack = "ok"
SettingsInv ==
    /\ AnsweredSettings => applied = op.target
    /\ \/ settings = applied
       \/ AnsweredSettings
       \/ co.writerFault
       \/ blocked
       \/ "capture" \notin alive /\ published # "Running"

CoordinatorInv == GateInv /\ ControlInv /\ SettingsInv

(* A production task that died stops recording for good, although the      *)
(* report has to wait for the lock of an operation in progress.            *)
DeadTaskStopsCapture == alive # Tasks ~> [](published = "Stopped")
=============================================================================
