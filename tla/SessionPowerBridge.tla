-------------------------- MODULE SessionPowerBridge --------------------------
(***************************************************************************)
(* The way of a session or power event from Windows to the coordinator     *)
(* (apps/agent session_power_events.rs, wuji-windows session_power.rs):    *)
(* the pump thread of a hidden window puts it into an unbounded channel, a *)
(* bridge thread forwards it, blocking, into a bounded one, and a consumer *)
(* task hands it to the coordinator.  A supervisor watches the consumer.   *)
(* The shutdown of main asks the pump to stop and waits, each time with a  *)
(* deadline, for the consumer, the pump and the bridge.  What an event     *)
(* does to the recording is in CaptureCoordinator; here an event is its    *)
(* number.  A deadline may pass at any moment; a hung pump never answers.  *)
(***************************************************************************)
EXTENDS Integers, Sequences

CONSTANTS
  QueueCap,       \* capacity of the bounded channel: 8 in production
  MaxEvents       \* bound: events the window receives

ASSUME BridgeConstants == QueueCap \in Nat \ {0} /\ MaxEvents \in Nat

VARIABLES
  received,   \* number of events the window has put into the channel
  pump,       \* the pump thread: where it is and whether it panicked
  quit,       \* WM_APP_SHUTDOWN or WM_QUIT is in the pump's message queue
  events,     \* the unbounded channel from pump to bridge
  bridge,     \* the bridge thread and the event it holds
  queue,      \* the bounded channel from bridge to consumer
  consumer,   \* the consumer task and the event it holds
  aborted,    \* AbortHandle::abort was called on the consumer
  watcher,    \* the supervisor task
  handled,    \* history: the events the coordinator was given, in order
  fault,      \* the coordinator's monitor fault
  main,       \* where main is in its life
  signalled,  \* the shutdown watch
  report      \* the ShutdownReport so far

threads == <<received, pump, quit, events, bridge>>
tasks == <<queue, consumer, aborted, watcher, handled>>
ending == <<main, signalled, report>>
vars == <<threads, tasks, fault, ending>>

NoEvent == 0
At(pc) == [pc |-> pc, event |-> NoEvent]
Holds(pc, e) == [pc |-> pc, event |-> e]

EmptyReport ==
  [consumerExited |-> FALSE, pumpExited |-> FALSE, pumpJoined |-> FALSE,
   bridgeExited |-> FALSE, bridgeJoined |-> FALSE, fallbackUsed |-> FALSE,
   errors |-> FALSE]

Init ==
  /\ received = 0
  /\ pump = [pc |-> "looping", panicked |-> FALSE]
  /\ quit = FALSE
  /\ events = <<>> /\ queue = <<>> /\ handled = <<>>
  /\ bridge = At("recv") /\ consumer = At("select") /\ watcher = "watching"
  /\ aborted = FALSE /\ signalled = FALSE
  /\ fault = FALSE
  /\ main = "starting"
  /\ report = EmptyReport

-----------------------------------------------------------------------------
(* The pump.  Its loop ends on a posted message, or because GetMessage or  *)
(* the thread breaks; its senders are dropped before its exit is signalled.*)

WindowReceives ==
  /\ pump.pc = "looping" /\ received < MaxEvents
  /\ received' = received + 1
  /\ events' = IF bridge.pc \in {"recv", "sending"} THEN Append(events, received') ELSE events
  /\ UNCHANGED <<pump, quit, bridge, tasks, fault, ending>>

PumpStops ==
  /\ pump.pc = "looping" /\ quit
  /\ pump' = [pump EXCEPT !.pc = "closed"]
  /\ UNCHANGED <<received, quit, events, bridge, tasks, fault, ending>>

PumpBreaks ==
  /\ pump.pc = "looping"
  /\ pump' \in {[pc |-> "closed", panicked |-> p] : p \in BOOLEAN}
               \cup {[pc |-> "hung", panicked |-> FALSE]}
  /\ UNCHANGED <<received, quit, events, bridge, tasks, fault, ending>>

PumpExits ==
  /\ \E step \in {<<"closed", "exited">>, <<"exited", "finished">>} :
        pump.pc = step[1] /\ pump' = [pump EXCEPT !.pc = step[2]]
  /\ UNCHANGED <<received, quit, events, bridge, tasks, fault, ending>>

(* The bridge thread: recv, blocking_send, and the end when either side is *)
(* gone.  A receiver that is dropped takes the events in its channel along.*)

ConsumerGone == consumer.pc \in {"returned", "panicked", "cancelled"}
PumpGone == pump.pc \in {"closed", "exited", "finished"}

BridgeReceives ==
  /\ bridge.pc = "recv" /\ events # <<>>
  /\ bridge' = Holds("sending", Head(events))
  /\ events' = Tail(events)
  /\ UNCHANGED <<received, pump, quit, tasks, fault, ending>>

BridgeSends ==
  /\ bridge.pc = "sending" /\ ~ConsumerGone /\ Len(queue) < QueueCap
  /\ queue' = Append(queue, bridge.event)
  /\ bridge' = At("recv")
  /\ UNCHANGED <<received, pump, quit, events, consumer, aborted, watcher, handled, fault, ending>>

BridgeEnds ==
  /\ \/ bridge.pc = "recv" /\ events = <<>> /\ PumpGone
     \/ bridge.pc = "sending" /\ ConsumerGone
  /\ bridge' = At("exited")
  /\ events' = <<>>
  /\ UNCHANGED <<received, pump, quit, tasks, fault, ending>>

BridgeFinishes ==
  /\ bridge.pc = "exited"
  /\ bridge' = At("finished")
  /\ UNCHANGED <<received, pump, quit, events, tasks, fault, ending>>

BridgeSteps == BridgeReceives \/ BridgeSends \/ BridgeEnds \/ BridgeFinishes

BridgeGone == bridge.pc \in {"exited", "finished"}

-----------------------------------------------------------------------------
(* The consumer: it drains the channel whether or not the shutdown was     *)
(* signalled; a channel that closes without that signal is a monitor fault.*)

(* Mutant: the shutdown signal ends the consumer at once. *)
FaultyConsumerSelects ==
  /\ consumer.pc = "select"
  /\ \/ /\ queue # <<>>
        /\ consumer' = Holds("handling", Head(queue))
        /\ queue' = Tail(queue)
        /\ UNCHANGED fault
     \/ /\ signalled \/ (queue = <<>> /\ BridgeGone)
        /\ consumer' = At("returned")
        /\ fault' = (fault \/ ~signalled)
        /\ queue' = <<>>
  /\ UNCHANGED <<threads, aborted, watcher, handled, ending>>

ConsumerSelects ==
  /\ consumer.pc = "select"
  /\ \/ /\ queue # <<>>
        /\ consumer' = Holds("handling", Head(queue))
        /\ queue' = Tail(queue)
        /\ UNCHANGED fault
     \/ /\ queue = <<>> /\ BridgeGone
        /\ consumer' = At("returned")
        /\ fault' = (fault \/ ~signalled)
        /\ UNCHANGED queue
  /\ UNCHANGED <<threads, aborted, watcher, handled, ending>>

(* The coordinator answers, with success or with an error that is logged.  *)
ConsumerHandles ==
  /\ consumer.pc = "handling"
  /\ handled' = Append(handled, consumer.event)
  /\ consumer' = At("select")
  /\ UNCHANGED <<threads, queue, aborted, watcher, fault, ending>>

ConsumerPanics ==
  /\ consumer.pc = "handling"
  /\ consumer' = At("panicked") /\ queue' = <<>>
  /\ UNCHANGED <<threads, aborted, watcher, handled, fault, ending>>

ConsumerCancelled ==
  /\ aborted /\ ~ConsumerGone
  /\ consumer' = At("cancelled") /\ queue' = <<>>
  /\ UNCHANGED <<threads, aborted, watcher, handled, fault, ending>>

(* supervise_session_power_consumer: a panic is a monitor fault, a         *)
(* cancellation is left to the shutdown's report.                          *)

(* Mutant: the supervisor takes a panic for an ordinary end. *)
FaultyWatcherSees ==
  /\ watcher = "watching" /\ ConsumerGone
  /\ watcher' = "done"
  /\ UNCHANGED <<threads, queue, consumer, aborted, handled, fault, ending>>

WatcherSees ==
  /\ watcher = "watching" /\ ConsumerGone
  /\ watcher' = "done"
  /\ fault' = (fault \/ consumer.pc = "panicked")
  /\ UNCHANGED <<threads, queue, consumer, aborted, handled, ending>>

-----------------------------------------------------------------------------
(* main: start, then the shutdown with its deadlines.                      *)

(* The pump does not start, or the bridge thread cannot be spawned; in the *)
(* second case the pump is rolled back, with a deadline.                   *)
StartFails ==
  /\ main = "starting"
  /\ main' = "without"
  /\ fault' = TRUE
  /\ \/ pump' = [pump EXCEPT !.pc = "finished"] /\ UNCHANGED quit
     \/ UNCHANGED pump /\ quit' \in BOOLEAN
  /\ bridge' = At("finished") /\ consumer' = At("cancelled") /\ watcher' = "done"
  /\ UNCHANGED <<received, events, queue, aborted, handled, signalled, report>>

StartSucceeds ==
  /\ main = "starting"
  /\ main' = "serving"
  /\ UNCHANGED <<threads, tasks, fault, signalled, report>>

(* PostMessageW needs the window, PostThreadMessageW the thread; either    *)
(* may fail anyway.                                                        *)
CanStop == pump.pc \in {"looping", "hung"}
CanQuit == pump.pc # "finished"

(* Mutant: the consumer is waited for before the pump is asked to stop. *)
FaultyShutdownBegins ==
  /\ main = "serving"
  /\ main' = "consumer"
  /\ signalled' = TRUE
  /\ UNCHANGED <<received, pump, quit, events, bridge, tasks, fault, report>>

ShutdownBegins ==
  /\ main = "serving"
  /\ main' = "consumer"
  /\ signalled' = TRUE
  /\ \/ CanStop /\ quit' = TRUE /\ UNCHANGED report
     \/ /\ quit' \in {quit, quit \/ CanQuit}
        /\ report' = [report EXCEPT !.fallbackUsed = TRUE, !.errors = TRUE]
  /\ UNCHANGED <<received, pump, events, bridge, tasks, fault>>

(* main goes from one wait to the next, keeping what it found.             *)
Goes(from, to) == main = from /\ main' = to
Found(r) == report' = r /\ UNCHANGED <<threads, tasks, fault, signalled>>

ConsumerEnded ==
  /\ main \in {"consumer", "confirm"} /\ watcher = "done"
  /\ main' = "pump"
  /\ Found([report EXCEPT !.consumerExited = TRUE])

ConsumerLate ==
  /\ Goes("consumer", "confirm")
  /\ aborted' = TRUE
  /\ report' = [report EXCEPT !.errors = TRUE]
  /\ UNCHANGED <<threads, queue, consumer, watcher, handled, fault, signalled>>

ConsumerLost == Goes("confirm", "pump") /\ Found([report EXCEPT !.errors = TRUE])

PumpEnded ==
  /\ main \in {"pump", "pumpAgain"} /\ pump.pc \in {"exited", "finished"}
  /\ main' = "pumpJoin"
  /\ Found([report EXCEPT !.pumpExited = TRUE])

(* The first time it is late, and if the fallback was not used already,    *)
(* the thread itself is told to quit and gets another wait.                *)
PumpLate ==
  /\ main = "pump"
  /\ report' = [report EXCEPT !.errors = TRUE, !.fallbackUsed = TRUE]
  /\ \/ ~report.fallbackUsed /\ CanQuit /\ quit' = TRUE /\ main' = "pumpAgain"
     \/ quit' = quit /\ main' = "bridge"
  /\ UNCHANGED <<received, pump, events, bridge, tasks, fault, signalled>>

PumpLost == Goes("pumpAgain", "bridge") /\ Found([report EXCEPT !.errors = TRUE])

PumpJoined ==
  /\ Goes("pumpJoin", "bridge") /\ pump.pc = "finished"
  /\ Found([report EXCEPT !.pumpJoined = ~pump.panicked, !.errors = @ \/ pump.panicked])

PumpNotJoined == Goes("pumpJoin", "bridge") /\ Found([report EXCEPT !.errors = TRUE])

BridgeEnded ==
  /\ Goes("bridge", "bridgeJoin") /\ BridgeGone
  /\ Found([report EXCEPT !.bridgeExited = TRUE])

(* is_complete and the errors decide whether the monitor is declared dead. *)
Complete(r) ==
  r.consumerExited /\ r.pumpExited /\ r.pumpJoined /\ r.bridgeExited /\ r.bridgeJoined

Reports(r) ==
  /\ main' = "closed"
  /\ report' = r
  /\ fault' = (fault \/ ~Complete(r) \/ r.errors)
  /\ UNCHANGED <<threads, tasks, signalled>>

BridgeLate == main = "bridge" /\ Reports([report EXCEPT !.errors = TRUE])

BridgeJoined ==
  main = "bridgeJoin" /\ bridge.pc = "finished" /\ Reports([report EXCEPT !.bridgeJoined = TRUE])

BridgeNotJoined == main = "bridgeJoin" /\ Reports([report EXCEPT !.errors = TRUE])

MainWaits ==
  StartSucceeds \/ ConsumerEnded \/ PumpEnded \/ PumpJoined \/ BridgeEnded \/ BridgeJoined

MainGivesUp ==
  \/ ConsumerLate \/ ConsumerLost
  \/ PumpLate \/ PumpLost \/ PumpNotJoined
  \/ BridgeLate \/ BridgeNotJoined

Next ==
  \/ WindowReceives \/ PumpStops \/ PumpBreaks \/ PumpExits
  \/ BridgeSteps
  \/ ConsumerSelects \/ ConsumerHandles \/ ConsumerPanics \/ ConsumerCancelled
  \/ WatcherSees
  \/ StartFails \/ ShutdownBegins
  \/ MainWaits \/ MainGivesUp

(* Threads and tasks run, a coordinator operation ends by its own          *)
(* deadlines, and main resumes from a wait that is over.  Nothing makes    *)
(* the pump's window answer, a deadline pass or the user quit.             *)
Fairness ==
  /\ WF_vars(PumpStops) /\ WF_vars(PumpExits)
  /\ WF_vars(BridgeSteps)
  /\ WF_vars(ConsumerSelects) /\ WF_vars(ConsumerHandles) /\ WF_vars(ConsumerCancelled)
  /\ WF_vars(WatcherSees)
  /\ WF_vars(MainWaits)

Spec == Init /\ [][Next]_vars /\ Fairness

-----------------------------------------------------------------------------
(* Across two channels and three threads no event is skipped, repeated or  *)
(* overtaken on its way to the coordinator: what it was given is the       *)
(* beginning of what the window received.  And a shutdown that reports no  *)
(* fault has not lost the rest: the coordinator was given every event.     *)
EventsInOrder ==
  /\ \A i \in 1 .. Len(handled) : handled[i] = i
  /\ main = "closed" /\ ~fault => Len(handled) = received

(* Every event the window received reaches the coordinator, or the monitor *)
(* is declared dead: a lost Lock must never leave a recording that nobody  *)
(* knows to be blind.  Here the deadlines of main do pass.                 *)
EventArrivesOrFaults ==
  WF_vars(MainGivesUp)
    => \A n \in 1 .. MaxEvents : received >= n ~> Len(handled) >= n \/ fault

(* A part that ends by itself while the Agent serves is noticed.           *)
BlindnessIsNoticed ==
  main = "serving" /\ (PumpGone \/ BridgeGone \/ ConsumerGone) ~> fault \/ signalled

MonitorIsHonest == EventArrivesOrFaults /\ BlindnessIsNoticed

(* Unless the pump hangs or could not be asked, the shutdown needs none of *)
(* its deadlines: consumer, pump and bridge never wait for one another,    *)
(* however full the channels are.                                          *)
ClosesUnaided ==
  main = "consumer" /\ (quit \/ ~report.errors) ~> main = "closed" \/ pump.pc = "hung"
=============================================================================
