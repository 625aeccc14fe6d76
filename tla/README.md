# TLA+ verification of WUJI Rebuild v0.1

WUJI Rebuild is a Windows application that records which application is in the
foreground and for how long. A Rust **Agent** process samples the foreground window, turns
samples into activity segments and gaps, and writes them to SQLite. A Tauri **Desktop**
process controls the Agent over a named pipe and reads the database.

The history must never claim activity that did not happen or lose a gap that did; a user who
paused must not be recorded; settings must survive every crash. This project models the
system around these promises, model-checks it, and proves the main invariants.

Paths are relative to `src/`. `agent/` stands for `apps/agent/src/`, `desktop/` for
`apps/desktop/src-tauri/src/`, `storage/` for `crates/wuji-storage/src/`, "doc 09" for
`docs/dev/09-Tauri-Rust-Rebuild-v0.1实施基线.md`, "doc 10" for the statistics document beside it.

## 1. The system

The Agent runs on a tokio *current-thread* runtime (`agent/main.rs:73`): its tasks interleave at
their awaits and nowhere else. One action of the models is the code between two awaits, or
between two writes a crash can separate.

| Component | State | Operations | Correct when |
|---|---|---|---|
| Capture coordinator (`agent/capture_coordinator.rs`) | desired state, suppressions (transition, freeze, Writer fault, monitor fault, lock, sleep), last published state, transition lock | capture commands, settings application, lock/sleep enter and release, task-exit report, monitor fault | Running is published only when nothing suppresses it; a closed gate is explained by a committed gap or says it failed; a fault is final |
| Barriers and capture loop (`agent/barrier.rs`, `capture_loop.rs`) | request channel, FIFO | take a request, write the barrier, acknowledge; take a frame | an injected barrier is in the FIFO behind every earlier sample; no sample is taken behind a closed gate |
| Observation processor (`agent/processor_task.rs`) | lane to the Writer | forward or drop a sample, forward a barrier | barriers are never dropped, samples keep their revision |
| Writer task (`agent/writer_task.rs`) | data lane, control lane, pending barriers | drain to a barrier, commit, refuse, retry, fail, heartbeat, shut down | the boundary is committed exactly at its barrier, at most once |
| Pipeline health, shared state (`agent/pipeline_health.rs`, `shared.rs`) | lives of three tasks; process, capture and writer state | register, drop, supervise; setters, status | a dead task stops recording for good; the displayed state is the published one |
| Settings (`agent/settings_persist.rs`, `settings_backup.rs`, `settings_reconciler.rs`, `desktop/settings_service.rs`) | settings file, newest database row, two slots, engine settings, Run key | save, write slot, commit, reconcile at start, re-apply a newer file | no crash or failed write loses the last good settings or falls back silently |
| Command server (`agent/command_server.rs`) | request-id cache, executions | execute, time out, complete late, replay, evict | a command runs at most once per id and never gets two answers |
| Activity engine and storage writer (`agent/activity.rs`, `storage/writer.rs`, `recompute.rs`) | open segment, gap, Work Block; rows and projections | sample, state change, gap events, recovery, snapshot and restore | memory equals database after any failure; only sampled time is counted |
| Session/power bridge (`agent/session_power_events.rs`, `crates/wuji-windows/src/session_power.rs`) | two event queues, three workers, supervisor | forward, consume, supervise, shut down in stages | no lock or sleep event is lost unnoticed |
| Read models and statistics (`storage/reader.rs`, `crates/wuji-core/src/stats.rs`, `desktop/query.rs`) | none of their own | today, timeline pages, heat map, statistics | answers agree with the rows and with each other while the Agent writes |
| Desktop control (`desktop/control.rs`, `agent_controller.rs`, `ipc.rs`) | in-flight lock, start lock, connection; Agent processes | start, pause, resume, stop and wait | a confirmed stop is an Agent that ended |
| Interface, Windows adapters, scripts | presentation, OS handles | – | not modelled |

Interactions: the Desktop's pipe client sends a command at most twice with one request id; the
command server executes it once and calls the coordinator. The settings reconciler and the
session/power consumer call the coordinator too; the pump's supervisor latches the monitor
fault directly. The coordinator publishes the gate in a `watch` channel the capture loop reads,
injects barriers through the request channel, and sends controls to the Writer. The Writer
answers on a one-shot channel, writes the applied revision into the shared state, and - alone
of all - may stop the gate behind the coordinator (`mark_fatal`). The Writer hands every event
to the engine inside one transaction; the Desktop reads the database between any two of them,
and waits for the row of `agent_runtime` as the proof of a stop.

Hard to get right: operations that hold a lock across three awaits, each with a deadline;
commits whose outcome is unknown; state changed without the lock by a fault; one bounded
queue for droppable samples and undroppable barriers; workers that die in the middle; a
revision known in five places; a clock that is set back; answers that are lost and requests
that are repeated. `PROJECT.json` lists each hazard at its line with the properties that look for it.

## 2. Modules

| Module | Models | Run |
|---|---|---|
| `CaptureGate` | the pure part of the coordinator: command/state table, gate, effective state | (used by three others) |
| `CaptureCoordinator` | every operation of the coordinator; the pipeline is an environment that answers or not | `coordinator_safety` |
| `RecordingLedger` | the abstract promise of the whole pipeline | (refined by the next) |
| `CapturePipeline` | coordinator, barrier requests, capture loop, FIFO, processor, both Writer lanes, drain | `pipeline_order`, `pipeline_progress` |
| `PendingBarriers` | the Writer's bounded table of early barriers, with the clock | `pending_barriers` |
| `SettingsPersistence` | file, slots, database row, Agent start, reconciler, Desktop save, Run key | `settings_persistence` |
| `Projections` | recompute: usage per hour and date, work metrics | (used by the next) |
| `ActivityEngine` | the engine's events as transactions on the tables | `activity_engine`, two refutations |
| `Statistics` | the arithmetic of `stats.rs` | (used by the next) |
| `ReadModels` | the Desktop's queries beside a writing Agent | `read_models` |
| `RequestCache` | the command server's memory of request ids and both attempts of a call | `request_cache` |
| `SessionPowerBridge` | pump, bridge thread, consumer, supervisor, shutdown of `main` | `session_power_bridge` |
| `DesktopControl` | Desktop operations, pipe client, Agent processes, mutex, runtime rows | `desktop_control` |
| `...Proofs` | theorems about eight of them | – |
| `MC...` | instances for TLC | |

`CapturePipeline` extends `CaptureCoordinator`; `ReadModels` extends `ActivityEngine` and
`Statistics`; `DesktopControl` extends `CaptureGate`. Operators named `Faulty...` are wrong
variants of the definition below them. No specification uses them; each is a bug that one of
the properties must notice.

### CaptureCoordinator

`co` is `CoordinatorState` with its `Suppressions`; `published` is the capture watch and
`SharedState.capture_state`, which the code always writes together; `settings` is the revision
in the settings watch; `op` is the operation that holds the transition lock with the await it
is in (`inject`, `control`, `ack`). A command that needs no boundary is one action
(`AnswerCommand`, `OpenGate`, `Release`). The others begin with `BeginClose`,
`BeginSettings` or `BeginEnter`, and all go through `Injected`, `SendControl` and
`AckCommitted`, or leave at `InjectFailed`, `ControlNotQueued`, `AckRefused`, `AckUnknown`,
`Cancel`. `EndUncommitted`, `EndRefused` and `EndCommitted` hold what differs between the
kinds: whether a failure freezes, keeps the suppression, or falls back to Stopped when
publication is refused. The Writer completes a control it accepted *at any later time*, even after the coordinator
gave up. Two history variables record what the engine holds: `bounded` (its last boundary
gap is still open) and `commits` (boundaries committed for the present lock or sleep).
The set of safe error codes is left out: it is written, never read, by this control.

### CapturePipeline and RecordingLedger

The coordinator's actions with the channels they use. The capture loop's and the
Writer's `select` are biased, so a request goes before a tick and a control before data. A
frame on the blocking pool lasts from `CaptureStartsFrame` to `CaptureEndsFrame`; the code
reads the gate and the revision again in between, and so does the model. A sample is the
revision stamped on it plus (history) the revision in force when its frame started. The engine is
reduced to its settings revision and whether its last event was a sample or a boundary
(`ledger`). The pipeline implements `RecordingLedger` under
`gate <- published = "Running"`, `armed <- ~bounded`: a boundary is committed only behind a
closed gate, and after it no sample is recorded until the gate has opened again.
A task ends where its loop breaks; with `Deaths` it may also panic or be aborted
at any step. Queues lose what they hold when their reader ends. Heartbeats and
storage maintenance share the control lane (`QueueMaintenance`).

### PendingBarriers

One token is an id and a *variant* (kind and expected revision together). `Purged`,
`Register`, `Poison`, `ControlArrives` and `DrainedBarrierArrives` are the table's methods in
the order `drain_to_barrier` calls them; `Admits` is the saturation check. `CapturePipeline`
abstracts the table to a set without bound or age; there each operation has its own id.

### SettingsPersistence

Settings are a revision and a body; two are equal exactly when their digests are. `job` is
`apply_settings_persistent`, called by the start, by `settings_reload` or by the reconciler, in
its three stages: `PersistCheck`, `PersistSlot` (`ChosenSlot` is the choice of the slot to
overwrite) and `PersistCommit`; each may fail, and a crash may fall between any two. `Start` is the
decision of `reconcile_startup_settings`. Between a caller and its job lies `Turn`: the coordinator
refuses after a Writer fault or for an older revision, the Writer if its engine does not have the applied
revision (`Fenced`), and the barrier may fail on the way (`BarrierFails`). So an Agent whose start was
blocked applies nothing: its engine has revision 0 and the database's counts as applied. `WriterFaults` is
what `CaptureCoordinator` has in detail. The Desktop's save changes the Run key first
(`BeginUpdate`), then replaces the file (`WriteFile`, `WriteFileFails` with its compensation),
then calls the Agent. The re-synchronisation of the Run key reads the file and writes the key in two
steps (`ResyncReads`, `ResyncWrites`), as the code does not take the save's lock for it; one
runs at a time. `excused` remembers what explains a wrong key, `alone` whether a re-synchronisation has met a
save that moves it. `FileTampered` and `SlotLost` are interference from outside.

### Projections, ActivityEngine

A database is a record of sequences of rows; a transaction is an operator that takes rows,
memory and counters and returns them with `ok`, which is FALSE when a CHECK or a unique index
of `schema.sql` would refuse a statement. `recorded` are the dates with a row in `daily_work_metrics`: a
date that is rebuilt has one only if some number of it is positive (`WorthARow`), so a day that was only idle has usage
and no row, and a date can lose its row again. `OnSample`, `OnGapEvent`, `OnShutdown` and `Recovered` are the
engine's four entry points, with the recompute at their end. `Commits`, `BacksOff` and `Fails` are
what can happen to them, `Restored` the snapshot of `process_data`. The queues in front of the
Writer are seen as the engine sees them: a sample carries an epoch between `floor` and the
shared one; `Drop` raises the shared one.

### Statistics, ReadModels

`Statistics` holds the pure functions. `ReadModels` adds to `ActivityEngine` one reader that
opens the timeline and turns its pages, asks the six statements of Today, or fixes the time and
takes the one snapshot of a statistics command; transactions commit in between. The blocks `pace`, `monthly` and
`milestone` of the page are translated too, but no property is about them.

### RequestCache

An entry is absent, active (with `visible` for "outcome unknown" already told) or completed.
`Conflicts`, `Replays`, `Joins`, `Refuses` and `Accepts` are the ways an attempt can find the
cache, each after the purge; `Ends` is the completion guard, run by a finished and by a dropped
execution alike. Both attempts of a call arrive in any order or never, and an id may be used again
with another payload.

### SessionPowerBridge

One action per loop turn of the pump, the bridge thread and the consumer; `main` walks through
the shutdown's waits, each of which may end by its event or by its deadline. The pump may break,
panic or hang; the consumer may panic or be aborted. `StartFails` is the rolled-back start.

### DesktopControl

A client's operation goes `probe`, `arriving` (for a start), then `call`, `wait`, `retry`, `waitAgain`, and
for a stop a second call and `poll`. Processes reach the mutex, recover, serve, close, finish and exit,
or crash anywhere. Requests given up stay in the Agent's `inbox` and are still executed.

## 3. What the runs show

| Run | Question | Instance | Distinct states |
|---|---|---|---|
| `coordinator_safety` | can any order of commands, events, faults, deadlines, aborts and deaths open a suppressed gate, undo a fault, hide an unrecorded close, commit a boundary twice or postpone it; does a dead task stop recording? | 3 awaiting operations, revisions 0-1, event times 1-2 | 518 k |
| `pipeline_order` | do barriers, samples and revisions stay in order on real queues? | queues 1 (lane 2), 3 operations, aborts, Writer and monitor failures | 1.80 M |
| `pipeline_progress` | can the chain of bounded queues wait for itself; is order kept when tasks die? | every queue 1, 2 operations, deaths, maintenance | 498 k |
| `pending_barriers` | can a condemned barrier be accepted within its time to live, or a good one refused? | 3 ids, 2 variants, capacity 2, TTL 2, clock 0-4 | |
| `settings_persistence` | does the Agent always find the settings its database names? | 3 bodies (default, login start, invalid), revisions 0-2, 2 events (crash, fault, interference, re-synchronisation) | 949 k |
| `activity_engine` | do memory, rows and projections agree through failures, drops, clock changes, crashes? | 2 applications, hour of 2 and day of 4 ticks, 5 events over two dates, 1 upset | 771 k |
| `request_cache` | can a repeated or late request run twice or get two answers? | 4 ids, one of them repeated or reused, 3 places, 2 executions, TTL 2, age 1, clock 0-3 | 2.27 M |
| `session_power_bridge` | can an event be lost unnoticed; can the layers wait for one another at shutdown? | 5 events, queue of 2 | 156 k |
| `read_models` | do the pages tell one story while the Agent writes? | 4 events, day of 3 hours, week and month of 3 days, page of 1, ranges 2 and 3 | 1.00 M |
| `desktop_control` | is a confirmed stop an end of recording; does what was paused stay so? | 2 clients, 3 operations, 3 processes | 985 k |
| `schema_never_refuses`, `no_time_across_drop` | two promises of doc 09 that the code breaks | as `activity_engine`, one tick longer | |

**Bounds and why they are enough.** Every bound is a constant used in a guard: `MaxOps`, `MaxRev`,
`MaxTime`, `MaxEvents`, `MaxUpsets`, `MaxNow`, `MaxExtra`, `MaxLaunched`, `MaxReadings`, the
queue capacities, `Capacity`.

* Three operations: one whose outcome is unknown, one that must be blocked by it, one that could
  profit. Capacity 1 is the hardest case for blocking and dropping; a lane of 2 lets a sample and
  a barrier wait together.
* Settings: two events are a crash in the middle of a persist call and one in the start that
  repairs it, a lost slot and a crash, or two re-synchronisations around one save, of which the second
  makes good what the first left; revision 2 gives both slots something to lose.
* Engine: five events open, continue, break and resume a Work Block and leave a gap; hour and date
  boundaries fall inside the interval; the one upset is placed everywhere. A failed transaction and
  its retry count as one upset.
* Cache: a full cache with a place that must be taken from somebody, while two executions run
  past their age, is reached with four ids.
* Bridge: five events fill the bounded channel (2), both workers' hands (2) and leave one waiting.
* Desktop: an operation given up, one that follows it, and the stop. The same specification with
  four operations (4.95 M states) was checked too, without an error.

Deadlock is checked in the coordinator, pipeline, barrier and settings runs. The five others set
`CHECK_DEADLOCK FALSE`: their bounded environment (events, ticks, operations, window messages) runs out,
and a closed bridge or an idle Desktop is where the system rests.

**Properties**, by what they protect:

* The gate: `RunningMeansGateOpen`, `FaultIsFinal`, `IdleGateIsSettled`, `DeadTaskStopsCapture`.
  `IdleGateIsSettled` allows one exception, with `AllowCancel`: aborting a lock or sleep
  operation before its control is accepted leaves the transition frozen. The code knows it
  (`agent/capture_coordinator.rs:364-366`) and only aborts the consumer at shutdown.
* Recorded boundaries: `QuietCloseIsRecorded`, `OneBoundaryPerActivation`, `BoundaryOrder` (the
  refinement of `RecordingLedger`), `InjectedBarrierIsSomewhere`, `NotLaundered`, `PromiseKept`.
* The settings revision from file to sample: `RunningUsesAppliedSettings`, `RevisionsInStep`,
  `NoProtocolViolation`, `EngineMatchesDatabase`, `LkgKept`, `NeverBlockedByItself`, `RunKeyHonest`,
  `ForwardFileIsApplied`.
* The history: `MirrorMatchesDatabase`, `AttributedTimeWasSampled`, `UsageIsFresh`, `BlockSumsItsSegments`.
* What the user sees: `TimelineComplete` (keyset pages over changing rows), `TodayAddsUp` (six
  statements, six states of the database), `LiveMatchesProjection`, `ViewsAgree`, `SpellAroundPeak`.
* Calls: `RunningIsActive`, `AnswersAgree`, `RememberedLongEnough`, `StopIsProven`, `StaysQuiet`.
* Progress: `OperationsComplete`, `MonitorIsHonest`, `ClosesUnaided`, `ForwardFileIsApplied`, `DeadTaskStopsCapture`.
* One type invariant where the code has bounds worth checking: `PipelineTypeOK` (queue
  capacities), `CacheTypeOK` (the two capacities the code asserts in debug builds only),
  `EngineTypeOK` (one open row of each kind, the Writer never ahead of the shared epoch).

### Fairness

* Coordinator: `Operation` is weakly fair, as each await has a deadline (8 s, 2 s, and the two of
  `inject_barrier`) and the runtime polls every ready task. `Supervisor` is strongly fair: the
  report needs the lock, which may be taken and released meanwhile, but tokio's mutex is FIFO.
* Pipeline: `OperationsComplete` asks for an end *without* deadlines, so only the unaided steps are
  fair: weakly, the steps of each task. Strongly, `QueueControl` (a channel's places go to senders in
  order, maintenance cannot overtake for ever) and `WriterTakesData`: the Writer's select prefers
  controls, and heartbeats and maintenance come once a second or less, far apart for a loop turn.
* Settings: the reconciler's tick, its turn at the coordinator's FIFO lock and the Writer's persist steps are
  weakly fair; `SF` on its service, the slot write and the commit says that not *every* attempt fails at the
  barrier or the disk for ever. The Desktop is not assumed to do anything. `ForwardFileIsApplied` is about an Agent
  that is neither blocked nor faulted: those two apply nothing before their next start, and the property
  is false of them.
* Bridge: the threads and tasks run, and `main` resumes from a wait that is over. That deadlines
  pass (`WF` of `MainGivesUp`) is assumed only inside the property that is about them;
  `ClosesUnaided` does without.

Callers, ticks, heartbeats, deaths, aborts and user actions are never assumed.
`ActivityEngine`, `RequestCache`, `ReadModels` and `DesktopControl` promise safety only.

## 4. Disagreements between documents, comments and code

Two have a run that exhibits them:

* **`SchemaNeverRefuses`**: doc 09 line 258 promises a zero-length gap when UTC goes back. Closing
  an *open* gap (`agent/activity.rs:344`, `:738`) uses the event's own time; after the clock went
  back behind the gap's start the row's CHECK refuses it and the Writer is faulted.
* **`NoTimeAcrossDrop`**: doc 09 line 197 says no time is counted across a dropped sample. The epoch
  is stamped at capture (`agent/capture_loop.rs:238`); when the processor drops a sample
  (`agent/processor_task.rs:75`), older samples still queued behind it carry the old epoch.

Met while modelling, without a run of their own:

* A comment on the coordinator's `fault` says start, resume *and stop* clear it; a successful stop
  does not (`agent/capture_coordinator.rs:187`, `:435`). Another says the state changes only inside
  the transition lock; `latch_monitor_fault` changes it without (`:238`, `:887`).
* Re-synchronising the Run key "returns the final, consistent state" (doc 09 line 453). It takes no lock
  (`desktop/settings_service.rs:176`; `update` does at `:93`): if it reads the file before a save replaces it and writes the key after the
  save wrote it, the key says what the old file said, and both answer Ok.
  `RunKeyHonest` has an exception for this overlap; without it TLC finds the four steps.
* The Writer calls a refused revision stale (`agent/writer_task.rs:648`); after a blocked start the
  engine is *behind*, and every barrier is refused until the Agent restarts.
* A heartbeat that finds the database busy faults the Writer at once (`agent/writer_task.rs:494-498`);
  doc 09 section 5.2 retries. The epoch a heartbeat carries is not read by the Writer.
* A failed lifecycle event's memory is not restored (`agent/writer_task.rs:407-410`), unlike a data
  event's; the Writer is faulted then and takes no more samples.
* After the settings file was deleted the next save has revision 1 again, which the Agent refuses as
  older: saved, not applied, until the revision has caught up (`desktop/settings_service.rs:164-166`).
* The pace of work misses what the last day of its window worked after midnight: the query ends
  at the day's end (`storage/reader.rs`, around 1015; doc 10 line 189).
* The `agent_restart` gap of a gracefully stopped Agent starts at its last heartbeat, not at its end.
* A start can be answered Ok by an Agent that is closing and then exits; a start right after a stop
  may find the dying process. `AGENT_STOP_WAIT` (20 s) is shorter than the bridge's longest shutdown (21 s).
* Clock set back between two starts makes `latest_runtime` an older row.

## 5. What is proved

Every theorem holds for every value of the constants. The inductive invariant behind it was first
checked by TLC on the instance of the component's run. None of the properties is inductive alone;
the text below says what had to be added, and why.

`CapturePipelineProofs` (part one), for every number of operations, every set of event times, every bound on revisions:

| Theorem | Statement |
|---|---|
| `TypeInvariant`, `CoordinatorInvariant` | `Spec => []TypeOK`, `Spec => []CoordinatorInv` |
| `GateSafety` | `Spec => []RunningMeansGateOpen` |
| `FaultFinality` | `Spec => FaultIsFinal` |
| `SettingsAgreement` | `Spec => []RunningUsesAppliedSettings` |
| `ControlExclusion`, `FreezeVisible` | the Writer never holds two controls; a freeze never coexists with a wanted recording |
| `OneBoundary` | `Spec => OneBoundaryPerActivation` |
| `QuietCloseRecorded`, `IdleGateSettled` | `Spec => []QuietCloseIsRecorded`, `Spec => []IdleGateIsSettled` |

Assumed: `CoordinatorAssumption` (the constants have their types). `CoordinatorInv` adds `GateInv` (a fault
behind the coordinator shows at once in `published`; without one, `published` is what the coordinator last
published; while an operation runs the gate is closed), `ControlInv` (a control in the Writer's hands is the
one the running operation waits for, or the coordinator has latched the Writer fault and will send nothing
more) and `SettingsInv` (the watch lags the applied revision only between the commit and its answer, or when
recording cannot resume). `ActivationInv` follows one lock or sleep: its control carries the time of the first
event, and after the commit nothing asks for a second boundary. `RecordedInv` says that a wish not to record
is explained by a fault or by a boundary, also for the answer an operation has not read yet. `SettledInv`
says that the published state is the effective one even *during* an operation, which is why nothing remains
to be done when the lock is released. There is a lemma per way an action can write the gate and one per group of actions.

`CapturePipelineProofs`, for any queue capacities, any number of operations and revisions, with and without
aborts and deaths:

| Theorem | Statement |
|---|---|
| `PipelineTypes` | `PSpec => []PipelineTypeOK`: no queue exceeds its capacity |
| `PipelineDrivesCoordinator` | every step of the pipeline is one of the coordinator's or leaves it alone, so its theorems hold here |
| `PipelineRevisions` | `PSpec => []RevisionsInStep` |
| `PipelineImplementsLedger` | `PSpec => BoundaryOrder`: the pipeline implements `RecordingLedger` |
| `PipelineProtocol` | `PSpec => []NoProtocolViolation` |
| `PipelineBarrier` | `PSpec => []InjectedBarrierIsSomewhere` |

Assumed: `PipelineAssumption` (capacities are positive). The argument goes in layers, each using the ones
before it.

1. `PipelineBase`: types, and the coordinator's own invariant. The pipeline's actions are shown to be
   the coordinator's with more conjuncts, so `CoordinatorInv` is not proved again.
2. `RevisionInv`: a control is in the lane or in the Writer's hands, never both (`LaneInv`); no operation
   gets past its injection while the capture loop is away with a frame (`FrameInv`), so the stamp taken
   before the frame is the one after it (`StampInv`); nothing changes the applied revision between the
   start of an operation and its answer (`EngineInv`).
3. `OrderInv`: behind the barrier of the running operation, and of a control that the Writer may still
   complete for an operation that was given up, there is no sample in any queue (`Trail`), and once a
   boundary is committed there is none at all until Running is published. This needs fresh
   operation numbers (`IdInv`). A commit of the Writer is then a step of the ledger; every other
   step is a sample, a change of the gate, or a stutter (`GateFollows`).
4. `ProtocolInv`: a sample on its way has the revision of both watches, as both change only when
   no sample is on its way.
5. `KnownInv` and `BarrierInv`: the barrier of the running operation has one place at most, none before its
   request is sent, and an id that a running operation counts on is not poisoned.

`PendingBarriersProofs`, for any number of ids and variants, any capacity and any time to live:
`NoLaundering` (`Spec => []NotLaundered`), `PromisesKept` (`Spec => PromiseKept`) and `TypeInvariant` (the table
never above its capacity).
`LaunderingInv` says that an id condemned less than a time to live ago is a tombstone, or is outside a
table that is saturated for at least as long as the tombstone would have lived. `PromiseInv` says that a live
promise is in the table as it was registered: a purge, a tombstone for another id or saturation never touch it.

`SettingsPersistenceProofs`, for any bodies, number of revisions and number of events:

| Theorem | Statement |
|---|---|
| `SpecTypeOK`, `SpecInv` | `Spec => []TypeOK`, `Spec => []IInv` |
| `SpecNeverBlockedByItself` | `Spec => []NeverBlockedByItself` |
| `SpecEngineMatchesDatabase` | `Spec => []EngineMatchesDatabase` |
| `SpecLkgKept`, `SpecRefusedTouchesNoSlot` | `Spec => LkgKept`, `Spec => RefusedTouchesNoSlot` |
| `SpecRunKeyHonest` | `Spec => []RunKeyHonest` |

`IInv` says of each stage of a persist call what a crash there leaves behind: after the check the
content is not refused, before the commit a slot holds it; and without damage from outside a row
beyond revision 0 always has its slot; a blocked Agent never has a job, which is what keeps its engine at the
defaults. `RunKeyInv` adds the middle of a save: the key already says what the
file will say, and `keyed` remembers whether it was changed, which is what the compensation
undoes; a re-synchronisation that is alone carries what the file says, or what it says once the save
that does not move the key is done. Assumed: `SettingsAssumption` (the default body is valid and does not start at login).

`ActivityEngineProofs`, for any applications, any times, clock changes and thresholds, any number of events, failures
and processes:

| Theorem | Statement |
|---|---|
| `SpecEngineInv` | `Spec => [](EngineInv /\ WorldInv)` |
| `SpecEngineTypeOK` | `Spec => []EngineTypeOK`: no table ever has two open rows |
| `SpecMirrorMatchesDatabase` | `Spec => []MirrorMatchesDatabase` |
| `SpecAttributedTimeWasSampled` | `Spec => AttributedTimeWasSampled` |
| `SpecUsageIsFresh` | `Spec => []UsageIsFresh`: no bucket of usage is ever stale |
| `SpecBlockSumsItsSegments` | `Spec => []BlockSumsItsSegments` |

There is one lemma per operator of the engine (`CloseGapEffect` to `RecoveredEffect`): which of the
five parts of a transaction (segments, Work Blocks, gaps, log, counters) it leaves alone, and what
it does to the others *if no statement was refused*. They compose along the bodies of `OnSample`,
`OnGapEvent`, `OnShutdown` and `Recovered`; a refused transaction never reaches the database.
`EngineInv` has three parts. `Consistent` holds always, also while the process is down: types, one open row
per table, no segment that ends before it starts. `Mirrors` is the mirror, and holds while there is
no fault. `Trusted` is what `AttributedTimeWasSampled` needs after a fault, when memory and database may differ: a
held segment is still the open row, of this runtime, and ends with the newest sample in the log; a memory
without a gap means there is none. It survives because a data event's memory is restored, and the memory a
failed lifecycle event leaves holds no segment.

`Fresh`, a part of `Consistent`, says that each bucket *is* the usage of the segments. A recomputation rebuilds every
hour of the touched time but only its first and its last date, so that no date lies between the two is what has
to be shown (`TouchedDates`): the gap cap is at most a day. Outside of the touched time a segment that grew tells the
same as before (`ContinuedElsewhere`, `TellSame`), although a bucket may hold a part of it. That a bucket's
sum is the number of its ticks (`TotalCountsTicks`) is shown without an induction theorem: a sum over a set is determined
by the equation of its recursion (`OneSum`, from the least set on which two solutions differ), and counting ticks
satisfies that equation.

`BlocksOK`, another part of `Consistent`, is `BlockSumsItsSegments` with what makes it last: a closed block counts no
open segment, and the open segment is the newest row. That is not enough for the *open* block, whose total is a
running one: `BlockHeld`, a part of `Trusted`, says what else the memory knows of it (`OpenRow`). The active segments
after its last one have length zero, so that nothing is skipped when its range is extended over them; none of its active
segments ends after the idle spell began, so that breaking it there leaves them inside; and while an idle spell
has begun there is no active segment after its last one at all. Without a block, an active segment that is
held still has length zero, so the next block may begin with it (`BlockGoesOn`, `CountActiveSound`, `CountIdleSound`,
`BeginsAnew`, `BeginsOn`). A length is counted as a set of ticks, like the usage. As a failed event leaves
either the old memory or one with neither segment nor block (`MemoryLeftBehind`), this too survives a fault.

Assumed: `EngineConstants` (types, positive steps and which kinds of event there are) and `ProjectionConstants`, which
has `MaxGapCap` between the gap cap and a day (`wuji-storage/writer.rs:27`: 30 seconds).

`RequestCacheProofs`, for any set of ids (finite or not), any capacities and ages:

| Theorem | Statement |
|---|---|
| `SpecRunningIsActive` | `Spec => []RunningIsActive` |
| `SpecAnswersAgree` | `Spec => AnswersAgree` |
| `SpecCacheTypeOK` | `Spec => []CacheTypeOK`: both capacities hold |
| `SpecRememberedLongEnough` | `Spec => []RememberedLongEnough` |

`CacheInv` ties generations to executions: none is given twice, and an answer that is already known of an
execution still running can only be the one that calls its outcome unknown, and its entry says so - which
is the one a completion then keeps. `RoomInv` counts: an attempt is accepted only below the capacity or
after an eviction, and the eviction always finds a completed entry, as fewer than `Capacity` are active. `UseInv` makes the entry's
clock the time the id was last over; with it the ids used later than a forgotten one (`Later`) only grow, and when it
is evicted every other entry is used later than it.

`SessionPowerBridgeProofs`, for any queue capacity and number of events: `SpecEventsInOrder`
(`Spec => []EventsInOrder`). `OnTheWay` numbers the events at every place on the way: what is handled, in the
consumer's hands, in the channel and in the bridge's hands is one interval. `ReturnedWithAll`: the consumer
returns only when nothing can arrive any more. `EndsAreTold`: what the ends of consumer, supervisor and `main` say about
one another, so that an incomplete sequence is never taken for a complete one.

`DesktopControlProofs`, for any number of clients, operations and Agent
processes and whatever call is lost, repeated or given up:

| Theorem | Statement |
|---|---|
| `RowsInOrder` | `Spec => []RowInv` |
| `StopProof` | `Spec => StopIsProven` |
| `QuietProof` | `Spec => []StaysQuiet` |

`RowInv` is what makes the newest row a proof of the stop: a process ends the row before its own, so
older rows are over, and a process that can record has its row open. `QuietInv` says that one
operation runs at a time, that the Agent remembers only clients that wait for it, that a waiting
client's request is the last in the inbox or was executed (so nothing is queued behind a pause when it
is answered), and that nothing that could record is under way while it is quiet. Assumed:
`ControlConstants` (the bounds are numbers; the mark of a forgotten client is not a client).

`ReadModelsProofs`, for any page size, ranges, hours of a day, number of rows and readings, whatever the Agent writes in
between:

| Theorem | Statement |
|---|---|
| `ReadSpecEngineHolds` | `ReadSpec => []EngineHolds`: a reader takes nothing from the engine's invariant |
| `ReadSpecTimelineComplete` | `ReadSpec => []TimelineComplete` |
| `ReadSpecTodayAddsUp` | `ReadSpec => []TodayAddsUp` |
| `ReadSpecSpellAroundPeak` | `ReadSpec => []SpellAroundPeak` |
| `ReadSpecLiveMatchesProjection` | `ReadSpec => []LiveMatchesProjection` |
| `ReadSpecViewsAgree` | `ReadSpec => []ViewsAgree` |

What a reader may rely on between two of its statements is `Moves`, which `ActivityEngineProofs` proves of every
step of the engine: segments stay and only their ends move on (`SegsGrow`), a closed gap never changes (`GapsKept`),
the projections of a date stay or are rebuilt from the new database (`RowsFrom`), and a Work Block keeps its first
segment and reaches over old ones only if no time is in them (`BlocksGo`).

*Timeline.* `InOrder` is a fold; that it ascends and lists each row once is shown from the fold's equation
(`RankedAscends`: the rank of an element is the number of those below it). `TimelineFor` says of a page turned so far
that what is shown ascends, ends at the cursor, and holds every row of the first page's date that still is there and
does not lie behind the cursor. It survives a step because a row's key never changes, and a row
that comes to the date later may be missed but never repeated.

*Today.* Each answer is compared with the active ticks of the day at the time it was asked, and these only become
more (`ActiveTicksGrow`): the longest block is within them (`LongestWithinDay`), the total and the sum of the applications are
exactly their number (`DayTotalCounts`, `AppsSumCounts`). `MetricsWithin` is the part of the invariant that bounds metrics that were
computed long ago. The clock stays in its bounds (`ClockBound`), so the date asked for is one of the tables'.

*The spell of work.* Hours are taken modulo a day: `Clock` is a remainder, equal for two numbers when a whole turn lies
between them (`ClockSame`). The walks to both sides of the peak stop at the first slack hour (`WalkAhead`, `WalkBack`)
and do not meet (`WalksApart`). The profile is a natural number for every hour (`ProfileNatural`), as sums of naturals are
tallies of pairs.

*Live numbers.* A stored projection may be as old as the date's last change. `DaysTold` says that it is right all the
same: its time is the number of the date's active ticks *now*, and its Work Blocks are those with such a tick; a date without a row has neither (`NoRowNoWork`). Two facts
carry it. Every active segment with a length lies in some block (`Covered`), so that the time summed by segment and the
time summed inside of blocks are one number (`InBlocksCounts`). And a date whose usage stayed the same has, application
by application, the very ticks it had (`TicksStay`), as ticks only become more; so no block can have gained or lost a
worked segment there (`WorkedStays`, from `BlocksGo`). That the segments of a block, which are a range of rows, are those
within its times needs `InSequence` (`InsideInSequence`). Until the same moment of the day there are some of these ticks, and all when
nothing ended later (`TicksUntil`, `WorkedUntil`, `SameMomentInDay`).

*One page.* What two views of the page both show is shown to be a third thing that depends on neither. A point of the trend
and the summary are functions of the date and of the tables (`TrendShown`, `SummaryShown`): the range the user picks
decides how many rows are read before them, and there are always enough for the averages (`ReadDaysEnough`,
`TrendSame`, `SummarySame`), so two ranges, and the poll with its one average, agree. A sum of times is a number of
things: `FamilySum` says that a sum over a finite set is the size of a disjoint union, whatever the order of the
fold, and with it a bar, a bucket and a cell of the heat map are each the number of active ticks of their dates or
their hour (`BarSumCounts`, `BucketCounts`, `HourCounts`). What remains is that nothing is lost or counted twice between
them: the applications with a slot of their own and the others are all of them (`PaletteSlots`), days and weeks cut to the
window divide its dates (`DaysDivide`, `WeeksDivide`: no week is left out at the start, none reaches over its end), and in
a zone of whole hours an hour lies in one date and has a cell of its own (`HourDate`, `OneCell`). The invariant adds
`TimeIn`: every stored time, recorded date, remembered sample and event under way lies between 0 and the
clock's bound, so every active tick has an hour and a date among the tables' rows.

Assumed: `ReadConstants` and `StatisticsConstants` (types; there are finitely many applications) besides the engine's.

**Only model-checked**: all liveness (it needs fairness and ENABLED). Every invariant and every safety property over steps
that a passing run checks is a theorem. No module declares a RECURSIVE operator.

Two clauses of the read models' properties have a condition, and the code needs it. The number of Work Blocks in
`LiveMatchesProjection` agrees if the clock was never set back behind a segment (`InSequence`): after it was, a block that goes on may
come to hold an older segment, in the middle of its interval, of a date on which it counts nothing itself; the transaction
rebuilds the dates it touches (`agent/activity.rs:772-790`) and not that one, so the stored number stays behind
the live one until the date is rebuilt for another reason. TLC shows it in a handful of steps when the condition is dropped; the
time agrees nevertheless, for it is counted by segment. In `ViewsAgree` the heat map has the time of the bars
if the zone is of whole hours: an hour of UTC belongs to the local hour its start lies in, so at midnight a zone of
half hours takes half an hour across.

## 6. Not modelled, and why

* React interface, Windows adapters, tray, windows, paths, scripts: presentation and I/O.
* SQL text, pragmas, checkpoints, serialisation, frames and handshakes: the models start from what a
  statement or a message means. The database is what its transactions did; the disk does not lie.
* Time zones are a fixed offset, so the branches for changes to and from summer time are not taken;
  months are alike; the limit of 20 applications and clamps to 32 bits are left out.
* `DesktopControl` assumes that the Agent reads requests in the order they were sent (one thread) and
  that rows are ordered by their start; the packaging smoke test's start without `in_flight` is left out.
* Queue-depth counters, error codes and status wording are written, never read, by the control.
* The Writer's busy loop after the processor died (`agent/writer_task.rs:482`) is a stuttering step here.

## 7. Ideas for later work

A compositional run of `SessionPowerBridge` with the coordinator's lock and sleep operations;
daylight saving in `Projections`.
