--------------------------- MODULE CapturePipeline ---------------------------
(***************************************************************************)
(* The coordinator together with the tasks and queues it drives: the       *)
(* barrier request channel, the capture loop, the capture FIFO, the        *)
(* observation processor, the Writer's data and control lanes, and the     *)
(* Writer's barrier drain.                                                 *)
(*                                                                         *)
(*   coordinator --request--> capture loop --fifo--> processor --lane-->   *)
(*   Writer <--controlLane-- coordinator                                   *)
(*                                                                         *)
(* Only what orders samples, barriers and revisions is kept of an item: a  *)
(* sample is the revision stamped on it and, as history, the revision in   *)
(* force when its frame was taken.  Pending barriers have no capacity or   *)
(* time to live here; PendingBarriers models those.                        *)
(***************************************************************************)
EXTENDS CaptureCoordinator, Sequences

CONSTANTS
    RequestCap,  \* capacity of the barrier request channel
    FifoCap,     \* capacity of the capture FIFO
    LaneCap,     \* capacity of the Writer data lane
    ControlCap,  \* capacity of the Writer control lane
    Callers,     \* kinds of operations and commands offered by this instance
    Deaths       \* may a task die on its own?

ASSUME PipelineAssumption ==
    /\ {RequestCap, FifoCap, LaneCap, ControlCap} \subseteq Nat \ {0}
    /\ Callers \subseteq OpKinds \cup Commands \cup {"monitor", "maintenance", "writerFails"}
    /\ Deaths \in BOOLEAN

VARIABLES
    requests,    \* barrier request channel
    injection,   \* inject_barrier of the current operation: its request and its ack
    capture,     \* what the capture loop is doing
    fifo,        \* CapturePipelineItem FIFO
    processor,   \* what the processor is doing
    lane,        \* Writer data lane
    controlLane, \* Writer control lane
    job,         \* the control the Writer is draining for
    pending,     \* barriers that reached the Writer before their control
    poisoned,    \* barrier ids that may never match
    violated,    \* protocol_violation, latched
    engineRev,   \* the revision of the engine's settings
    ledger       \* history: the last event the engine committed

pipeVars == <<requests, injection, capture, fifo, processor, lane, controlLane, job,
              pending, poisoned, violated, engineRev, ledger>>
allVars  == <<vars, pipeVars>>

Tokens  == [id : Ids, kind : {"lifecycle", "settings"}, expected : Revisions]
Samples == [type : {"sample"}, rev : Revisions, taken : Revisions]
Item(token)     == [type |-> "barrier", token |-> token]
Barriers        == {Item(t) : t \in Tokens}
Mismatch        == [type |-> "mismatch"]
Maintenance     == [kind |-> "maintenance"]
NoJob           == [kind |-> "none"]

BarrierKind(kind) == IF kind = "settings" THEN "settings" ELSE "lifecycle"
TokenOf(c) == [id |-> c.id, kind |-> BarrierKind(c.kind), expected |-> c.expected]

PipelineTypeOK ==
    /\ requests \in Seq(Tokens) /\ Len(requests) <= RequestCap
    /\ injection \in {"unsent", "waiting", "ok", "closed"}
    /\ capture \in [pc : {"select", "capturing", "sending"}, token : Tokens, taken : Revisions]
    /\ fifo \in Seq(Samples \cup Barriers) /\ Len(fifo) <= FifoCap
    /\ processor \in [pc : {"recv", "sending"}, item : Barriers \cup {Mismatch}]
    /\ lane \in Seq(Samples \cup Barriers \cup {Mismatch}) /\ Len(lane) <= LaneCap
    /\ controlLane \in Seq(Controls \cup {Maintenance}) /\ Len(controlLane) <= ControlCap
    /\ job \in Controls \cup {NoJob}
    /\ pending \in SUBSET Tokens /\ poisoned \in SUBSET Ids
    /\ violated \in BOOLEAN
    /\ engineRev \in Revisions
    /\ ledger \in {"sample", "boundary"}

NoToken == [id |-> 0, kind |-> "lifecycle", expected |-> 0]

PipelineInit ==
    /\ Init
    /\ requests = <<>> /\ injection = "unsent"
    /\ capture = [pc |-> "select", token |-> NoToken, taken |-> 0]
    /\ fifo = <<>>
    /\ processor = [pc |-> "recv", item |-> Item(NoToken)]
    /\ lane = <<>> /\ controlLane = <<>>
    /\ job = NoJob /\ pending = {} /\ poisoned = {}
    /\ violated = FALSE
    /\ engineRev = settings
    /\ ledger = "boundary"

-----------------------------------------------------------------------------
(* The coordinator's steps, with the channels they use.                    *)

(* A caller: a new operation starts with its request still unsent.         *)
Offered(kinds) == kinds \cap Callers
Call ==
    /\ \/ \E command \in Offered(Commands) : AnswerCommand(command)
       \/ \E command \in Offered(OpeningCommands) : OpenGate(command)
       \/ \E command \in Offered(ClosingCommands) : BeginClose(command)
       \/ "settings" \in Callers /\ \E target \in Revisions : BeginSettings(target)
       \/ \E s \in Offered(Sources) : Release(s) \/ \E at \in Times : BeginEnter(s, at)
       \/ "monitor" \in Callers /\ LatchMonitorFault
    /\ injection' = IF op' # op THEN "unsent" ELSE injection
    /\ UNCHANGED <<requests, capture, fifo, processor, lane, controlLane, job, pending,
                   poisoned, violated, engineRev, ledger>>

(* inject_barrier: a permit of the request channel, then the injected ack. *)
SendRequest ==
    /\ op.pc = "inject" /\ injection = "unsent"
    /\ "capture" \in alive /\ Len(requests) < RequestCap
    /\ requests' = Append(requests, TokenOf(op))
    /\ injection' = "waiting"
    /\ UNCHANGED <<vars, capture, fifo, processor, lane, controlLane, job, pending,
                   poisoned, violated, engineRev, ledger>>

InjectionAcked == injection = "ok" /\ Injected /\ UNCHANGED pipeVars

InjectionLost ==
    /\ \/ injection = "closed"
       \/ injection # "ok" /\ "capture" \notin alive
       \/ Timeouts /\ injection = "waiting"
       \/ Timeouts /\ injection = "unsent" /\ Len(requests) = RequestCap
    /\ InjectFailed
    /\ UNCHANGED pipeVars

QueueControl ==
    /\ Len(controlLane) < ControlCap
    /\ SendControl
    /\ controlLane' = Append(controlLane, CHOOSE c \in outstanding' : c.id = op.id)
    /\ UNCHANGED <<requests, injection, capture, fifo, processor, lane, job, pending,
                   poisoned, violated, engineRev, ledger>>

ControlLost ==
    /\ "writer" \notin alive \/ (Timeouts /\ Len(controlLane) = ControlCap)
    /\ ControlNotQueued
    /\ UNCHANGED pipeVars

Settle == (AckCommitted \/ AckRefused \/ AckUnknown \/ Cancel) /\ UNCHANGED pipeVars

Report == (\E t \in Tasks : ReportExit(t)) /\ UNCHANGED pipeVars

(* Heartbeats and checkpoints share the control lane.                      *)
QueueMaintenance ==
    /\ "maintenance" \in Callers
    /\ "writer" \in alive /\ Len(controlLane) < ControlCap
    /\ controlLane' = Append(controlLane, Maintenance)
    /\ UNCHANGED <<vars, requests, injection, capture, fifo, processor, lane, job, pending,
                   poisoned, violated, engineRev, ledger>>

-----------------------------------------------------------------------------
(* The capture loop.  Its select is biased: requests go before ticks.      *)

RestOfCapture == <<processor, lane, controlLane, job, pending, poisoned, violated,
                   engineRev, ledger>>

CaptureTakesRequest ==
    /\ "capture" \in alive /\ capture.pc = "select" /\ requests # <<>>
    /\ capture' = [capture EXCEPT !.pc = "sending", !.token = Head(requests)]
    /\ requests' = Tail(requests)
    /\ UNCHANGED <<vars, injection, fifo, RestOfCapture>>

(* The injected ack follows the write into the FIFO; nobody may be         *)
(* waiting for it any more.                                                *)
AckInjection(reply) ==
    injection' = IF op.pc = "inject" /\ op.id = capture.token.id /\ injection = "waiting"
                 THEN reply ELSE injection

(* Faulty: the injected ack is never sent.                                 *)
FaultyCaptureSendsBarrier ==
    /\ "capture" \in alive /\ capture.pc = "sending"
    /\ "processor" \in alive /\ Len(fifo) < FifoCap
    /\ fifo' = Append(fifo, Item(capture.token))
    /\ capture' = [capture EXCEPT !.pc = "select"]
    /\ UNCHANGED <<vars, injection, requests, RestOfCapture>>

CaptureSendsBarrier ==
    /\ "capture" \in alive /\ capture.pc = "sending"
    /\ "processor" \in alive /\ Len(fifo) < FifoCap
    /\ fifo' = Append(fifo, Item(capture.token))
    /\ AckInjection("ok")
    /\ capture' = [capture EXCEPT !.pc = "select"]
    /\ UNCHANGED <<vars, requests, RestOfCapture>>

(* A tick while Running is published starts a frame on the blocking pool.  *)
CaptureStartsFrame ==
    /\ "capture" \in alive /\ capture.pc = "select" /\ requests = <<>>
    /\ published = "Running"
    /\ capture' = [capture EXCEPT !.pc = "capturing", !.taken = settings]
    /\ UNCHANGED <<vars, requests, injection, fifo, RestOfCapture>>

(* Faulty: the sample is queued without a look at the capacity.            *)
FaultyCaptureEndsFrame ==
    /\ "capture" \in alive /\ capture.pc = "capturing"
    /\ published = "Running" => "processor" \in alive
    /\ capture' = [capture EXCEPT !.pc = "select"]
    /\ fifo' = IF published = "Running"
               THEN Append(fifo, [type |-> "sample", rev |-> settings, taken |-> capture.taken])
               ELSE fifo
    /\ UNCHANGED <<vars, requests, injection, RestOfCapture>>

(* The frame is back: dropped if the gate closed meanwhile, else stamped   *)
(* with the revision now in force, and lost if the FIFO is full.           *)
CaptureEndsFrame ==
    /\ "capture" \in alive /\ capture.pc = "capturing"
    /\ published = "Running" => "processor" \in alive
    /\ capture' = [capture EXCEPT !.pc = "select"]
    /\ fifo' = IF published = "Running" /\ Len(fifo) < FifoCap
               THEN Append(fifo, [type |-> "sample", rev |-> settings, taken |-> capture.taken])
               ELSE fifo
    /\ UNCHANGED <<vars, requests, injection, RestOfCapture>>

-----------------------------------------------------------------------------
(* The observation processor.  Samples may be dropped at a full lane,      *)
(* barriers and protocol violations wait for a slot.                       *)

RestOfProcessor == <<requests, injection, capture, controlLane, job, pending, poisoned,
                     violated, engineRev, ledger>>

ProcessorTakesSample ==
    /\ "processor" \in alive /\ processor.pc = "recv"
    /\ fifo # <<>> /\ Head(fifo).type = "sample"
    /\ fifo' = Tail(fifo)
    /\ IF Head(fifo).rev # settings
       THEN /\ processor' = [pc |-> "sending", item |-> Mismatch]
            /\ UNCHANGED lane
       ELSE /\ "writer" \in alive
            /\ lane' = IF Len(lane) < LaneCap THEN Append(lane, Head(fifo)) ELSE lane
            /\ UNCHANGED processor
    /\ UNCHANGED <<vars, RestOfProcessor>>

(* Faulty: a barrier is dropped at a full lane, like a sample.             *)
FaultyProcessorTakesBarrier ==
    /\ "processor" \in alive /\ processor.pc = "recv"
    /\ fifo # <<>> /\ Head(fifo).type = "barrier"
    /\ fifo' = Tail(fifo)
    /\ lane' = IF Len(lane) < LaneCap THEN Append(lane, Head(fifo)) ELSE lane
    /\ UNCHANGED <<vars, processor, RestOfProcessor>>

ProcessorTakesBarrier ==
    /\ "processor" \in alive /\ processor.pc = "recv"
    /\ fifo # <<>> /\ Head(fifo).type = "barrier"
    /\ fifo' = Tail(fifo)
    /\ processor' = [pc |-> "sending", item |-> Head(fifo)]
    /\ UNCHANGED <<vars, lane, RestOfProcessor>>

(* What a task takes with it when it ends.                                 *)
Exit(t) ==
    /\ TaskExits(t)
    /\ requests' = IF t = "capture" THEN <<>> ELSE requests
    /\ fifo' = IF t = "processor" THEN <<>> ELSE fifo
    /\ controlLane' = IF t = "writer" THEN <<>> ELSE controlLane
    /\ job' = IF t = "writer" THEN NoJob ELSE job

(* A waiting item gets its slot.  After a SettingsRevisionMismatch the     *)
(* processor breaks out of its loop.                                       *)
ProcessorSends ==
    /\ "processor" \in alive /\ processor.pc = "sending"
    /\ "writer" \in alive /\ Len(lane) < LaneCap
    /\ lane' = Append(lane, processor.item)
    /\ processor' = [processor EXCEPT !.pc = "recv"]
    /\ IF processor.item = Mismatch THEN Exit("processor")
       ELSE UNCHANGED <<vars, requests, fifo, controlLane, job>>
    /\ UNCHANGED <<injection, capture, pending, poisoned, violated, engineRev, ledger>>

(* A task ends by itself where the code breaks out of its loop: its peer's *)
(* end of a queue is closed.  A panic or an abort may end it anywhere.     *)
LoopEnds(t) ==
    CASE t = "capture"   -> "processor" \notin alive
      [] t = "processor" -> \/ "writer" \notin alive /\ (fifo # <<>> \/ processor.pc # "recv")
                            \/ "capture" \notin alive /\ fifo = <<>> /\ processor.pc = "recv"
      [] t = "writer"    -> FALSE

TaskEnds(t) ==
    /\ Deaths \/ LoopEnds(t)
    /\ Exit(t)
    /\ IF t = "capture" /\ capture.pc = "sending" THEN AckInjection("closed")
       ELSE UNCHANGED injection
    /\ lane' = IF t = "writer" THEN <<>> ELSE lane
    /\ UNCHANGED <<capture, processor, pending, poisoned, violated, engineRev, ledger>>

-----------------------------------------------------------------------------
(* The Writer.  Its select is biased too: controls go before data.         *)

RestOfWriter == <<requests, injection, capture, fifo, processor>>

(* reject_protocol_violation: latched, and fatal the first time.           *)
Violate ==
    /\ violated' = TRUE
    /\ IF violated THEN UNCHANGED vars ELSE WriterFails

(* process_data of a sample: recorded, or the engine fails for good.       *)
Apply ==
    \/ UNCHANGED vars /\ ledger' = "sample"
    \/ "writerFails" \in Callers /\ WriterFails /\ UNCHANGED ledger

ProcessData(item) ==
    CASE item.type = "barrier" ->
            /\ pending' = IF item.token.id \in poisoned THEN pending
                          ELSE pending \cup {item.token}
            /\ UNCHANGED <<vars, violated, ledger>>
      [] item.type = "mismatch" -> Violate /\ UNCHANGED <<pending, ledger>>
      [] item.type = "sample" ->
            IF violated \/ item.rev # engineRev
            THEN Violate /\ UNCHANGED <<pending, ledger>>
            ELSE Apply /\ UNCHANGED <<pending, violated>>

WriterTakesData ==
    /\ "writer" \in alive /\ job = NoJob /\ controlLane = <<>> /\ lane # <<>>
    /\ ProcessData(Head(lane))
    /\ lane' = Tail(lane)
    /\ UNCHANGED <<RestOfWriter, controlLane, job, poisoned, engineRev>>

WriterTakesMaintenance ==
    /\ "writer" \in alive /\ job = NoJob
    /\ controlLane # <<>> /\ Head(controlLane) = Maintenance
    /\ controlLane' = Tail(controlLane)
    /\ UNCHANGED vars \/ ("writerFails" \in Callers /\ WriterFails)
    /\ UNCHANGED <<RestOfWriter, lane, job, pending, poisoned, violated, engineRev, ledger>>

WriterTakesControl ==
    /\ "writer" \in alive /\ job = NoJob
    /\ controlLane # <<>> /\ Head(controlLane) # Maintenance
    /\ job' = Head(controlLane)
    /\ controlLane' = Tail(controlLane)
    /\ UNCHANGED <<vars, RestOfWriter, lane, pending, poisoned, violated, engineRev, ledger>>

(* The barrier of the job has been found: verify_engine_revision, then the *)
(* engine commits the boundary or applies the settings, or refuses.        *)
Complete ==
    IF engineRev # job.expected
    THEN /\ WriterRefuses(job)
         /\ poisoned' = poisoned \cup {job.id}
         /\ UNCHANGED <<engineRev, ledger>>
    ELSE /\ UNCHANGED poisoned
         /\ \/ /\ WriterCommits(job)
               /\ engineRev' = IF job.kind = "settings" THEN job.target ELSE engineRev
               /\ ledger' = IF job.kind = "settings" THEN ledger ELSE "boundary"
            \/ /\ "writerFails" \in Callers
               /\ IF job.kind = "settings" THEN WriterRefuses(job) ELSE WriterBreaks(job)
               /\ UNCHANGED <<engineRev, ledger>>

(* Faulty: a control without a pending barrier is completed at once.       *)
FaultyMatchPending ==
    /\ "writer" \in alive /\ job # NoJob
    /\ Complete
    /\ pending' = {t \in pending : t.id # job.id}
    /\ job' = NoJob
    /\ UNCHANGED <<RestOfWriter, lane, controlLane, violated>>

(* drain_to_barrier, its checks before the first read: a latched protocol  *)
(* violation, a barrier that already arrived, a poisoned id.               *)
MatchPending ==
    /\ "writer" \in alive /\ job # NoJob
    /\ violated \/ job.id \in poisoned \/ \E t \in pending : t.id = job.id
    /\ pending' = IF violated THEN pending ELSE {t \in pending : t.id # job.id}
    /\ IF ~violated /\ job.id \notin poisoned /\ TokenOf(job) \in pending
       THEN Complete
       ELSE /\ WriterRefuses(job)
            /\ poisoned' = IF violated THEN poisoned ELSE poisoned \cup {job.id}
            /\ UNCHANGED <<engineRev, ledger>>
    /\ job' = NoJob
    /\ UNCHANGED <<RestOfWriter, lane, controlLane, violated>>

Draining == "writer" \in alive /\ job # NoJob /\ ~violated /\ job.id \notin poisoned
            /\ \A t \in pending : t.id # job.id

(* The drain loop: other items are processed in order, the barrier with    *)
(* the job's id, kind and revision ends it.                                *)
DrainItem ==
    /\ Draining /\ lane # <<>> /\ Head(lane) # Item(TokenOf(job))
    /\ ProcessData(Head(lane))
    /\ lane' = Tail(lane)
    /\ UNCHANGED <<RestOfWriter, controlLane, job, poisoned, engineRev>>

DrainBarrier ==
    /\ Draining /\ lane # <<>> /\ Head(lane) = Item(TokenOf(job))
    /\ Complete
    /\ lane' = Tail(lane)
    /\ job' = NoJob
    /\ UNCHANGED <<RestOfWriter, controlLane, pending, violated>>

(* The lane ran empty: the 5 s drain deadline, or a closed data lane.      *)
DrainGivesUp ==
    /\ Draining /\ lane = <<>>
    /\ Timeouts \/ "processor" \notin alive
    /\ WriterRefuses(job)
    /\ job' = NoJob
    /\ UNCHANGED <<RestOfWriter, lane, controlLane, pending, poisoned, violated, engineRev,
                   ledger>>

Retry == "writerFails" \in Callers /\ WriterRetries /\ UNCHANGED pipeVars

-----------------------------------------------------------------------------
CoordinatorSteps ==
    SendRequest \/ InjectionAcked \/ InjectionLost \/ QueueControl \/ ControlLost \/ Settle

CaptureSteps ==
    CaptureTakesRequest \/ CaptureSendsBarrier \/ CaptureEndsFrame

ProcessorSteps ==
    ProcessorTakesSample \/ ProcessorTakesBarrier \/ ProcessorSends

WriterSteps ==
    \/ WriterTakesData \/ WriterTakesMaintenance \/ WriterTakesControl
    \/ MatchPending \/ DrainItem \/ DrainBarrier \/ DrainGivesUp

PipelineNext ==
    \/ Call \/ QueueMaintenance \/ CaptureStartsFrame
    \/ CoordinatorSteps \/ CaptureSteps \/ ProcessorSteps \/ WriterSteps
    \/ Retry \/ Report
    \/ \E t \in Tasks : TaskEnds(t)

(* Steps that no deadline has to take. *)
UnaidedCoordinator ==
    \/ SendRequest \/ InjectionAcked \/ QueueControl
    \/ InjectionLost /\ (injection = "closed" \/ "capture" \notin alive)
    \/ ControlLost /\ "writer" \notin alive
    \/ Settle /\ (ack # "none" \/ "writer" \notin alive)

UnaidedWriter ==
    \/ WriterTakesData \/ WriterTakesMaintenance \/ WriterTakesControl
    \/ MatchPending \/ DrainItem \/ DrainBarrier
    \/ DrainGivesUp /\ "processor" \notin alive

(* Every task keeps running and a foreground query returns; callers, ticks *)
(* and maintenance may stop at any time, and a deadline may fire or not.   *)
(* A channel gives its places to the senders in the order they asked, and  *)
(* maintenance comes so seldom that the Writer gets to the data between.   *)
PipelineFairness ==
    /\ WF_allVars(UnaidedCoordinator)
    /\ SF_allVars(QueueControl)
    /\ WF_allVars(CaptureSteps)
    /\ WF_allVars(ProcessorSteps)
    /\ WF_allVars(UnaidedWriter)
    /\ SF_allVars(WriterTakesData)
    /\ SF_allVars(Report)

PipelineSpec == PipelineInit /\ [][PipelineNext]_allVars /\ PipelineFairness

-----------------------------------------------------------------------------
(***************************************************************************)
(* What the pipeline must guarantee.                                       *)
(***************************************************************************)

(* The revision protocol never trips over its own traffic: no sample       *)
(* reaches the processor or the Writer with a revision other than theirs.  *)
NoProtocolViolation == ~violated

(* An injected barrier is not lost while its operation counts on it: until *)
(* the Writer answers, it is in exactly one place on its way.              *)
Places(t) ==
    {<<"fifo", i>> : i \in {j \in 1 .. Len(fifo) : fifo[j] = Item(t)}}
    \cup {<<"lane", i>> : i \in {j \in 1 .. Len(lane) : lane[j] = Item(t)}}
    \cup {p \in {<<"processor", 0>>} : processor = [pc |-> "sending", item |-> Item(t)]}
    \cup {p \in {<<"pending", 0>>} : t \in pending}

InjectedBarrierIsSomewhere ==
    (/\ alive = Tasks
     /\ \/ op.pc = "control"
        \/ op.pc = "ack" /\ \E c \in outstanding : c.id = op.id)
    => \E p \in Places(TokenOf(op)) : Places(TokenOf(op)) = {p}

(* A sample is stamped with the revision its frame was taken under, and    *)
(* after a start on trusted settings every control reaches an engine that  *)
(* has exactly the revision the control expects.                           *)
RevisionsInStep ==
    /\ \A q \in {fifo, lane} : \A i \in 1 .. Len(q) :
          q[i].type = "sample" => q[i].rev = q[i].taken
    /\ ~blocked /\ job # NoJob => job.expected = engineRev

(* The queues alone never wedge the protocol: while the tasks live every   *)
(* operation gets its injected ack and its Writer ack, even when each      *)
(* queue holds a single item, earlier operations have been given up half   *)
(* way, and no deadline helps this one.                                    *)
OperationsComplete == op.pc # "idle" ~> op.pc = "idle" \/ alive # Tasks

(* The pipeline implements the ledger it promises.                         *)
Ledger == INSTANCE RecordingLedger WITH
    gate    <- published = "Running",
    faulted <- writerState = "Faulted",
    armed   <- ~bounded,
    ledger  <- ledger

BoundaryOrder == Ledger!Spec
=============================================================================
