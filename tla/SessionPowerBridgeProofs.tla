----------------------- MODULE SessionPowerBridgeProofs -----------------------
(***************************************************************************)
(* No session or power event is skipped, repeated or overtaken on its way  *)
(* from the window to the coordinator, for any capacity of the bounded     *)
(* channel and any number of events.                                       *)
(*                                                                         *)
(* The invariant counts the places an event can be in.  As long as the     *)
(* consumer lives, what was handled, the event in its hands, the bounded   *)
(* channel, the event in the bridge's hands and the unbounded channel hold *)
(* 1, 2, ... received, in this order.  The rest follows the report: who    *)
(* may say that the consumer ended well, and what that end implies.        *)
(***************************************************************************)
EXTENDS SessionPowerBridge, SequenceTheorems, TLAPS

Consumers == [pc : {"select", "handling", "returned", "panicked", "cancelled"}, event : Nat]
Bridges == [pc : {"recv", "sending", "exited", "finished"}, event : Nat]
Pumps == [pc : {"looping", "closed", "exited", "finished", "hung"}, panicked : BOOLEAN]
ShutdownReports ==
  [consumerExited : BOOLEAN, pumpExited : BOOLEAN, pumpJoined : BOOLEAN,
   bridgeExited : BOOLEAN, bridgeJoined : BOOLEAN, fallbackUsed : BOOLEAN, errors : BOOLEAN]

WayTypes ==
  /\ received \in Nat
  /\ events \in Seq(Nat) /\ queue \in Seq(Nat) /\ handled \in Seq(Nat)
  /\ bridge \in Bridges /\ consumer \in Consumers /\ pump \in Pumps

EndTypes ==
  /\ aborted \in BOOLEAN /\ signalled \in BOOLEAN /\ fault \in BOOLEAN
  /\ watcher \in {"watching", "done"}
  /\ main \in {"starting", "without", "serving", "consumer", "confirm", "pump", "pumpAgain",
               "pumpJoin", "bridge", "bridgeJoin", "closed"}
  /\ report \in ShutdownReports

TypeOK == WayTypes /\ EndTypes

(* How many events are at each place before the next one. *)
InHand == IF consumer.pc = "handling" THEN 1 ELSE 0
InBridge == IF bridge.pc = "sending" THEN 1 ELSE 0
Taken == Len(handled) + InHand
Forwarded == Taken + Len(queue)
Drawn == Forwarded + InBridge

HandledInOrder == \A i \in 1 .. Len(handled) : handled[i] = i

OnTheWay ==
  /\ consumer.pc = "handling" => consumer.event = Len(handled) + 1
  /\ \A i \in 1 .. Len(queue) : queue[i] = Taken + i
  /\ bridge.pc = "sending" => bridge.event = Forwarded + 1
  /\ \A i \in 1 .. Len(events) : events[i] = Drawn + i
  /\ received = Drawn + Len(events)
  /\ BridgeGone => PumpGone /\ events = <<>>

(* The consumer returns only when nothing can arrive any more. *)
ReturnedWithAll == consumer.pc = "returned" => Len(handled) = received /\ PumpGone

(* What the ends of consumer, supervisor and main say about one another.   *)
EndsAreTold ==
  /\ aborted => report.errors
  /\ consumer.pc = "cancelled" => aborted \/ main = "without"
  /\ watcher = "done" /\ main # "without" =>
       ConsumerGone /\ (consumer.pc = "panicked" => fault)
  /\ report.consumerExited => watcher = "done"
  /\ main = "closed" /\ ~fault => Complete(report) /\ ~report.errors

WayInv == HandledInOrder /\ (~ConsumerGone => OnTheWay) /\ ReturnedWithAll
IInv == TypeOK /\ WayInv /\ EndsAreTold

-----------------------------------------------------------------------------
(* Types.                                                                  *)

LEMMA InitInv == Init => IInv
<1> SUFFICES ASSUME Init PROVE IInv
  OBVIOUS
<1> USE DEF Init, At, NoEvent
<1>1. TypeOK
  <2>1. WayTypes
    BY DEF WayTypes, Bridges, Consumers, Pumps
  <2>2. EndTypes
    BY DEF EndTypes, EmptyReport, ShutdownReports
  <2> QED
    BY <2>1, <2>2 DEF TypeOK
<1>2. WayInv
  BY DEF WayInv, HandledInOrder, OnTheWay, ReturnedWithAll, InHand, InBridge, Taken,
         Forwarded, Drawn, BridgeGone
<1>3. EndsAreTold
  BY DEF EndsAreTold, EmptyReport
<1> QED
  BY <1>1, <1>2, <1>3 DEF IInv

(* What a step does to the ends of the channels. *)
LEMMA TailOf ==
  ASSUME NEW S, NEW s \in Seq(S), s # <<>>
  PROVE  /\ Head(s) = s[1] /\ Head(s) \in S /\ Tail(s) \in Seq(S)
         /\ Len(s) \in Nat /\ Len(s) >= 1 /\ Len(Tail(s)) = Len(s) - 1
         /\ \A i \in 1 .. Len(Tail(s)) : Tail(s)[i] = s[i + 1]
OBVIOUS

LEMMA AppendTo ==
  ASSUME NEW S, NEW s \in Seq(S), NEW e \in S
  PROVE  /\ Append(s, e) \in Seq(S) /\ Len(s) \in Nat /\ Len(Append(s, e)) = Len(s) + 1
         /\ Append(s, e)[Len(s) + 1] = e
         /\ \A i \in 1 .. Len(s) : Append(s, e)[i] = s[i]
OBVIOUS

LEMMA PlaceTypes ==
  ASSUME WayTypes
  PROVE  /\ Len(events) \in Nat /\ Len(queue) \in Nat /\ Len(handled) \in Nat
         /\ InHand \in Nat /\ InBridge \in Nat
         /\ Taken \in Nat /\ Forwarded \in Nat /\ Drawn \in Nat
<1>1. Len(events) \in Nat /\ Len(queue) \in Nat /\ Len(handled) \in Nat
  BY DEF WayTypes
<1>2. InHand \in Nat /\ InBridge \in Nat
  BY DEF InHand, InBridge
<1> QED
  BY <1>1, <1>2 DEF Taken, Forwarded, Drawn

LEMMA WayTypesStep ==
  ASSUME WayTypes, [Next]_vars
  PROVE  WayTypes'
<1> USE DEF WayTypes
<1>0. /\ \A e \in Nat : Holds("sending", e) \in Bridges
      /\ \A e \in Nat : Holds("handling", e) \in Consumers
      /\ At("recv") \in Bridges /\ At("exited") \in Bridges /\ At("finished") \in Bridges
      /\ At("select") \in Consumers /\ At("returned") \in Consumers
      /\ At("panicked") \in Consumers /\ At("cancelled") \in Consumers
      /\ <<>> \in Seq(Nat)
  BY DEF Holds, At, NoEvent, Bridges, Consumers
<1>1. CASE WindowReceives
  <2>1. received + 1 \in Nat /\ Append(events, received + 1) \in Seq(Nat)
    BY AppendTo
  <2> QED
    BY <1>1, <2>1 DEF WindowReceives, tasks
<1>2. CASE PumpStops \/ PumpBreaks \/ PumpExits
  <2>1. pump' \in Pumps
    <3>1. CASE PumpStops
      BY <3>1 DEF PumpStops, Pumps
    <3>2. CASE PumpBreaks
      <4>1. \/ \E p \in BOOLEAN : pump' = [pc |-> "closed", panicked |-> p]
            \/ pump' = [pc |-> "hung", panicked |-> FALSE]
        BY <3>2 DEF PumpBreaks
      <4>2. \A p \in BOOLEAN : [pc |-> "closed", panicked |-> p] \in Pumps
        BY DEF Pumps
      <4>3. [pc |-> "hung", panicked |-> FALSE] \in Pumps
        BY DEF Pumps
      <4> QED
        BY <4>1, <4>2, <4>3
    <3>3. CASE PumpExits
      <4>1. PICK step \in {<<"closed", "exited">>, <<"exited", "finished">>} :
                   pump' = [pump EXCEPT !.pc = step[2]]
        BY <3>3 DEF PumpExits
      <4>2. step[2] \in {"exited", "finished"}
        OBVIOUS
      <4> QED
        BY <4>1, <4>2 DEF Pumps
    <3> QED
      BY <1>2, <3>1, <3>2, <3>3
  <2> QED
    BY <1>2, <2>1 DEF PumpStops, PumpBreaks, PumpExits, tasks
<1>3. CASE BridgeReceives
  <2>1. Head(events) \in Nat /\ Tail(events) \in Seq(Nat)
    BY <1>3, TailOf DEF BridgeReceives
  <2> QED
    BY <1>0, <1>3, <2>1 DEF BridgeReceives, tasks
<1>4. CASE BridgeSends
  <2>1. Append(queue, bridge.event) \in Seq(Nat)
    BY AppendTo DEF Bridges
  <2> QED
    BY <1>0, <1>4, <2>1 DEF BridgeSends
<1>5. CASE BridgeEnds \/ BridgeFinishes
  BY <1>0, <1>5 DEF BridgeEnds, BridgeFinishes, tasks
<1>6. CASE ConsumerSelects
  <2>1. queue # <<>> => Head(queue) \in Nat /\ Tail(queue) \in Seq(Nat)
    BY TailOf
  <2> QED
    BY <1>0, <1>6, <2>1 DEF ConsumerSelects, threads
<1>7. CASE ConsumerHandles
  <2>1. Append(handled, consumer.event) \in Seq(Nat)
    BY AppendTo DEF Consumers
  <2> QED
    BY <1>0, <1>7, <2>1 DEF ConsumerHandles, threads
<1>8. CASE ConsumerPanics \/ ConsumerCancelled
  BY <1>0, <1>8 DEF ConsumerPanics, ConsumerCancelled, threads
<1>9. CASE StartFails
  <2>1. pump' \in Pumps
    BY <1>9 DEF StartFails, Pumps
  <2> QED
    BY <1>0, <1>9, <2>1 DEF StartFails
<1>10. CASE WatcherSees \/ ShutdownBegins \/ MainWaits \/ MainGivesUp \/ UNCHANGED vars
  BY <1>10 DEF WatcherSees, ShutdownBegins, MainWaits, StartSucceeds, ConsumerEnded, PumpEnded,
       PumpJoined, BridgeEnded, BridgeJoined, MainGivesUp, ConsumerLate, ConsumerLost, PumpLate,
       PumpLost, PumpNotJoined, BridgeLate, BridgeNotJoined, Goes, Found, Reports, threads,
       tasks, vars
<1> QED
  BY <1>1, <1>2, <1>3, <1>4, <1>5, <1>6, <1>7, <1>8, <1>9, <1>10 DEF Next, BridgeSteps

LEMMA EndTypesStep ==
  ASSUME EndTypes, [Next]_vars
  PROVE  EndTypes'
<1> USE DEF EndTypes
<1>1. CASE \/ WindowReceives \/ PumpStops \/ PumpBreaks \/ PumpExits \/ BridgeSteps
           \/ UNCHANGED vars
  BY <1>1 DEF WindowReceives, PumpStops, PumpBreaks, PumpExits, BridgeSteps, BridgeReceives,
              BridgeSends, BridgeEnds, BridgeFinishes, tasks, ending, vars
<1>2. CASE \/ ConsumerSelects \/ ConsumerHandles \/ ConsumerPanics \/ ConsumerCancelled
           \/ WatcherSees
  BY <1>2 DEF ConsumerSelects, ConsumerHandles, ConsumerPanics, ConsumerCancelled, WatcherSees,
              ending
<1>3. CASE StartFails \/ StartSucceeds
  BY <1>3 DEF StartFails, StartSucceeds, tasks
<1>4. CASE ShutdownBegins
  BY <1>4 DEF ShutdownBegins, tasks, ShutdownReports
<1>5. CASE ConsumerEnded \/ ConsumerLate \/ ConsumerLost
  BY <1>5 DEF ConsumerEnded, ConsumerLate, ConsumerLost, Goes, Found, tasks, ShutdownReports
<1>6. CASE PumpEnded \/ PumpLate \/ PumpLost \/ BridgeEnded
  BY <1>6 DEF PumpEnded, PumpLate, PumpLost, BridgeEnded, Goes, Found, tasks, ShutdownReports
<1>7. CASE PumpJoined \/ PumpNotJoined
  <2>1. report' \in ShutdownReports
    BY <1>7 DEF PumpJoined, PumpNotJoined, Found, ShutdownReports
  <2> QED
    BY <1>7, <2>1 DEF PumpJoined, PumpNotJoined, Goes, Found, tasks
<1>8. ASSUME NEW r \in ShutdownReports, Reports(r) PROVE EndTypes'
  <2>1. Complete(r) \in BOOLEAN /\ r.errors \in BOOLEAN
    BY DEF Complete, ShutdownReports
  <2>2. fault' \in BOOLEAN
    BY <1>8, <2>1 DEF Reports
  <2> QED
    BY <1>8, <2>2 DEF Reports, tasks
<1>9. CASE BridgeLate \/ BridgeJoined \/ BridgeNotJoined
  <2>1. /\ [report EXCEPT !.errors = TRUE] \in ShutdownReports
        /\ [report EXCEPT !.bridgeJoined = TRUE] \in ShutdownReports
    BY DEF ShutdownReports
  <2> QED
    BY <1>8, <1>9, <2>1 DEF BridgeLate, BridgeJoined, BridgeNotJoined
<1> QED
  BY <1>1, <1>2, <1>3, <1>4, <1>5, <1>6, <1>7, <1>8, <1>9 DEF Next, MainWaits, MainGivesUp

-----------------------------------------------------------------------------
(* The way of the events.                                                  *)

(* The window adds an event, as long as there is a bridge to take it. *)
LEMMA ReceiveWay ==
  ASSUME TypeOK, TypeOK', WayInv, WindowReceives
  PROVE  WayInv'
<1>1. /\ pump.pc = "looping" /\ received' = received + 1
      /\ UNCHANGED <<pump, bridge, queue, consumer, handled>>
  BY DEF WindowReceives, tasks
<1>2. /\ HandledInOrder' /\ ReturnedWithAll'
      /\ Taken' = Taken /\ Forwarded' = Forwarded /\ Drawn' = Drawn
      /\ Taken \in Nat /\ Forwarded \in Nat /\ Drawn \in Nat
  <2>1. HandledInOrder' /\ ReturnedWithAll'
    BY <1>1 DEF WayInv, HandledInOrder, ReturnedWithAll, PumpGone
  <2>2. Taken' = Taken /\ Forwarded' = Forwarded /\ Drawn' = Drawn
    BY <1>1 DEF InHand, InBridge, Taken, Forwarded, Drawn
  <2> QED
    BY <2>1, <2>2, PlaceTypes DEF TypeOK
<1>3. ASSUME ~ConsumerGone PROVE OnTheWay'
  <2>1. OnTheWay
    BY <1>3 DEF WayInv
  <2>2. bridge.pc \in {"recv", "sending"}
    BY <1>1, <2>1 DEF OnTheWay, PumpGone, BridgeGone, TypeOK, WayTypes, Bridges
  <2>3. events' = Append(events, received + 1) /\ events \in Seq(Nat) /\ received \in Nat
    BY <1>1, <2>2 DEF WindowReceives, TypeOK, WayTypes
  <2>4. /\ Len(events') = Len(events) + 1
        /\ \A i \in 1 .. Len(events') : events'[i] = Drawn + i
    <3>1. received = Drawn + Len(events) /\ \A i \in 1 .. Len(events) : events[i] = Drawn + i
      BY <2>1 DEF OnTheWay
    <3>2. /\ Len(events') = Len(events) + 1 /\ Len(events) \in Nat
          /\ events'[Len(events) + 1] = received + 1
          /\ \A i \in 1 .. Len(events) : events'[i] = events[i]
      BY <2>3, AppendTo
    <3> QED
      BY <1>2, <3>1, <3>2
  <2>5. received' = Drawn + Len(events')
    BY <1>1, <1>2, <2>1, <2>3, <2>4 DEF OnTheWay
  <2>6. ~BridgeGone'
    BY <1>1, <2>2 DEF BridgeGone
  <2> QED
    BY <1>1, <1>2, <2>1, <2>4, <2>5, <2>6 DEF OnTheWay
<1> QED
  BY <1>1, <1>2, <1>3 DEF WayInv, ConsumerGone

(* The bridge moves an event on, or ends. *)
LEMMA BridgeWay ==
  ASSUME TypeOK, TypeOK', WayInv, BridgeSteps
  PROVE  WayInv'
<1>1. UNCHANGED <<received, pump, consumer, handled>>
  BY DEF BridgeSteps, BridgeReceives, BridgeSends, BridgeEnds, BridgeFinishes, tasks
<1>2. /\ HandledInOrder' /\ ReturnedWithAll' /\ ConsumerGone' = ConsumerGone
      /\ Taken' = Taken /\ Taken \in Nat /\ Forwarded \in Nat /\ Drawn \in Nat
  <2>1. HandledInOrder' /\ ReturnedWithAll' /\ ConsumerGone' = ConsumerGone
    BY <1>1 DEF WayInv, HandledInOrder, ReturnedWithAll, PumpGone, ConsumerGone
  <2>2. Taken' = Taken
    BY <1>1 DEF InHand, Taken
  <2> QED
    BY <2>1, <2>2, PlaceTypes DEF TypeOK
<1> SUFFICES ASSUME ~ConsumerGone PROVE OnTheWay'
  BY <1>2 DEF WayInv
<1>3. /\ OnTheWay
      /\ consumer'.pc = "handling" => consumer'.event = Len(handled') + 1
      /\ PumpGone' = PumpGone
  BY <1>1 DEF WayInv, OnTheWay, PumpGone
<1>4. CASE BridgeReceives
  <2>1. /\ bridge.pc = "recv" /\ events # <<>> /\ events \in Seq(Nat) /\ queue' = queue
        /\ bridge'.pc = "sending" /\ bridge'.event = events[1] /\ events' = Tail(events)
    BY <1>4, TailOf DEF BridgeReceives, Holds, tasks, TypeOK, WayTypes
  <2>2. /\ Forwarded' = Forwarded /\ Drawn' = Drawn + 1 /\ Drawn = Forwarded
    BY <1>2, <2>1 DEF Forwarded, Drawn, InBridge
  <2>3. /\ Len(events') = Len(events) - 1 /\ Len(events) \in Nat /\ Len(events) >= 1
        /\ \A i \in 1 .. Len(events') : events'[i] = events[i + 1]
    BY <2>1, TailOf
  <2>4. \A i \in 1 .. Len(events') : events'[i] = Drawn' + i
    BY <1>2, <1>3, <2>2, <2>3 DEF OnTheWay
  <2>5. bridge'.event = Forwarded' + 1 /\ received' = Drawn' + Len(events')
    BY <1>1, <1>2, <1>3, <2>1, <2>2, <2>3 DEF OnTheWay
  <2>6. \A i \in 1 .. Len(queue') : queue'[i] = Taken' + i
    BY <1>2, <1>3, <2>1 DEF OnTheWay
  <2> QED
    BY <1>3, <2>1, <2>4, <2>5, <2>6 DEF OnTheWay, BridgeGone
<1>5. CASE BridgeSends
  <2>1. /\ bridge.pc = "sending" /\ queue' = Append(queue, bridge.event) /\ events' = events
        /\ bridge'.pc = "recv" /\ queue \in Seq(Nat) /\ bridge.event \in Nat
    BY <1>5 DEF BridgeSends, At, TypeOK, WayTypes, Bridges
  <2>2. /\ Len(queue') = Len(queue) + 1 /\ Len(queue) \in Nat
        /\ queue'[Len(queue) + 1] = bridge.event
        /\ \A i \in 1 .. Len(queue) : queue'[i] = queue[i]
    BY <2>1, AppendTo
  <2>3. Forwarded' = Forwarded + 1 /\ Drawn' = Drawn /\ Forwarded = Taken + Len(queue)
    BY <1>2, <2>1, <2>2 DEF Forwarded, Drawn, InBridge
  <2>4. \A i \in 1 .. Len(queue') : queue'[i] = Taken' + i
    <3>1. /\ bridge.event = Taken + (Len(queue) + 1)
          /\ \A i \in 1 .. Len(queue) : queue[i] = Taken + i
      BY <1>2, <1>3, <2>1, <2>2, <2>3 DEF OnTheWay
    <3> QED
      BY <1>2, <2>2, <3>1
  <2> QED
    BY <1>1, <1>3, <2>1, <2>3, <2>4 DEF OnTheWay, BridgeGone
<1>6. CASE BridgeEnds
  <2>1. /\ bridge.pc = "recv" /\ events = <<>> /\ PumpGone /\ events' = <<>> /\ queue' = queue
        /\ bridge'.pc = "exited"
    BY <1>6 DEF BridgeEnds, At, tasks
  <2>2. Forwarded' = Forwarded /\ Drawn' = Drawn
    BY <1>2, <2>1 DEF Forwarded, Drawn, InBridge
  <2> QED
    BY <1>1, <1>2, <1>3, <2>1, <2>2 DEF OnTheWay
<1>7. CASE BridgeFinishes
  <2>1. /\ bridge.pc = "exited" /\ events' = events /\ queue' = queue /\ bridge'.pc = "finished"
    BY <1>7 DEF BridgeFinishes, At, tasks
  <2>2. Forwarded' = Forwarded /\ Drawn' = Drawn
    BY <1>2, <2>1 DEF Forwarded, Drawn, InBridge
  <2> QED
    BY <1>1, <1>2, <1>3, <2>1, <2>2 DEF OnTheWay, BridgeGone
<1> QED
  BY <1>4, <1>5, <1>6, <1>7 DEF BridgeSteps

(* The consumer takes the next event, hands it over, or ends. *)
LEMMA ConsumerWay ==
  ASSUME TypeOK, TypeOK', WayInv,
         ConsumerSelects \/ ConsumerHandles \/ ConsumerPanics \/ ConsumerCancelled
  PROVE  WayInv'
<1>0. /\ UNCHANGED <<received, pump, events, bridge>> /\ ~ConsumerGone
      /\ Taken \in Nat /\ Forwarded \in Nat /\ Drawn \in Nat
  <2>1. UNCHANGED <<received, pump, events, bridge>> /\ ~ConsumerGone
    BY DEF ConsumerSelects, ConsumerHandles, ConsumerPanics, ConsumerCancelled, ConsumerGone,
           threads
  <2> QED
    BY <2>1, PlaceTypes DEF TypeOK
<1>1. /\ OnTheWay /\ HandledInOrder
      /\ PumpGone' = PumpGone /\ BridgeGone' = BridgeGone /\ InBridge' = InBridge
  BY <1>0 DEF WayInv, PumpGone, BridgeGone, InBridge
<1>2. CASE /\ consumer.pc = "select" /\ queue # <<>> /\ handled' = handled
           /\ consumer' = Holds("handling", Head(queue)) /\ queue' = Tail(queue)
  <2>1. /\ consumer'.pc = "handling" /\ consumer'.event = queue[1] /\ queue \in Seq(Nat)
        /\ Len(queue) \in Nat /\ Len(queue) >= 1 /\ Len(queue') = Len(queue) - 1
        /\ \A i \in 1 .. Len(queue') : queue'[i] = queue[i + 1]
    BY <1>2, TailOf DEF Holds, TypeOK, WayTypes
  <2>2. /\ Taken' = Taken + 1 /\ Taken = Len(handled)
        /\ Forwarded' = Forwarded /\ Drawn' = Drawn
    <3>1. Len(handled) \in Nat
      BY PlaceTypes DEF TypeOK
    <3> QED
      BY <1>0, <1>1, <1>2, <2>1, <3>1 DEF Taken, InHand, Forwarded, Drawn
  <2>3. consumer'.event = Len(handled') + 1
    BY <1>1, <1>2, <2>1, <2>2 DEF OnTheWay
  <2>4. \A i \in 1 .. Len(queue') : queue'[i] = Taken' + i
    BY <1>0, <1>1, <2>1, <2>2 DEF OnTheWay
  <2>5. OnTheWay'
    BY <1>0, <1>1, <2>2, <2>3, <2>4 DEF OnTheWay
  <2> QED
    BY <1>1, <1>2, <2>1, <2>5 DEF WayInv, HandledInOrder, ReturnedWithAll
<1>3. CASE /\ consumer.pc = "select" /\ queue = <<>> /\ BridgeGone /\ handled' = handled
           /\ consumer' = At("returned")
  <2>1. Len(handled) = received /\ PumpGone
    <3>1. PumpGone /\ Len(events) = 0 /\ Len(queue) = 0 /\ InHand = 0 /\ InBridge = 0
      BY <1>1, <1>3 DEF OnTheWay, InHand, InBridge, BridgeGone
    <3> QED
      BY <1>1, <3>1, PlaceTypes DEF OnTheWay, Drawn, Forwarded, Taken, TypeOK
  <2> QED
    BY <1>0, <1>1, <1>3, <2>1 DEF WayInv, HandledInOrder, ReturnedWithAll, ConsumerGone, At
<1>4. CASE ConsumerHandles
  <2>1. /\ consumer.pc = "handling" /\ handled' = Append(handled, consumer.event)
        /\ consumer'.pc = "select" /\ queue' = queue
        /\ handled \in Seq(Nat) /\ consumer.event = Len(handled) + 1
    BY <1>1, <1>4 DEF ConsumerHandles, At, OnTheWay, TypeOK, WayTypes
  <2>2. /\ Len(handled') = Len(handled) + 1 /\ Len(handled) \in Nat
        /\ \A i \in 1 .. Len(handled) : handled'[i] = handled[i]
        /\ handled'[Len(handled) + 1] = Len(handled) + 1
    <3>1. Len(handled) + 1 \in Nat
      BY PlaceTypes DEF TypeOK
    <3> QED
      BY <2>1, <3>1, AppendTo
  <2>3. HandledInOrder'
    BY <1>1, <2>2 DEF HandledInOrder
  <2>4. Taken' = Taken /\ Forwarded' = Forwarded /\ Drawn' = Drawn
    BY <1>1, <2>1, <2>2 DEF Taken, InHand, Forwarded, Drawn
  <2>5. OnTheWay'
    BY <1>0, <1>1, <2>1, <2>4 DEF OnTheWay
  <2> QED
    BY <2>1, <2>3, <2>5 DEF WayInv, ReturnedWithAll
<1>5. CASE ConsumerPanics \/ ConsumerCancelled
  <2>1. handled' = handled /\ consumer'.pc \in {"panicked", "cancelled"}
    BY <1>5 DEF ConsumerPanics, ConsumerCancelled, At
  <2> QED
    BY <1>1, <2>1 DEF WayInv, HandledInOrder, ReturnedWithAll, ConsumerGone
<1> QED
  BY <1>2, <1>3, <1>4, <1>5 DEF ConsumerSelects

(* What the pump, the supervisor and main do moves no event. *)
LEMMA OtherWay ==
  ASSUME TypeOK, WayInv, UNCHANGED <<received, events, handled>>,
         PumpGone => PumpGone',
         \/ UNCHANGED <<bridge, queue, consumer>>
         \/ consumer'.pc = "cancelled"
  PROVE  WayInv'
<1>1. HandledInOrder'
  BY DEF WayInv, HandledInOrder
<1>2. CASE UNCHANGED <<bridge, queue, consumer>>
  <2>1. /\ Taken' = Taken /\ Forwarded' = Forwarded /\ Drawn' = Drawn
        /\ ConsumerGone' = ConsumerGone /\ BridgeGone' = BridgeGone
    BY <1>2 DEF InHand, InBridge, Taken, Forwarded, Drawn, ConsumerGone, BridgeGone
  <2>2. OnTheWay => OnTheWay'
    BY <1>2, <2>1 DEF OnTheWay
  <2> QED
    BY <1>1, <1>2, <2>1, <2>2 DEF WayInv, ReturnedWithAll
<1>3. CASE consumer'.pc = "cancelled"
  BY <1>1, <1>3 DEF WayInv, ReturnedWithAll, ConsumerGone
<1> QED
  BY <1>2, <1>3

LEMMA WayStep ==
  ASSUME TypeOK, TypeOK', WayInv, [Next]_vars
  PROVE  WayInv'
<1>1. CASE PumpStops \/ PumpBreaks \/ PumpExits
  <2>1. /\ UNCHANGED <<received, events, handled, bridge, queue, consumer>>
        /\ PumpGone => PumpGone'
    BY <1>1 DEF PumpStops, PumpBreaks, PumpExits, PumpGone, tasks, TypeOK, WayTypes, Pumps
  <2> QED
    BY <2>1, OtherWay
<1>2. CASE StartFails
  <2>1. /\ UNCHANGED <<received, events, handled>> /\ consumer'.pc = "cancelled"
        /\ PumpGone => PumpGone'
    BY <1>2 DEF StartFails, PumpGone, At, TypeOK, WayTypes, Pumps
  <2> QED
    BY <2>1, OtherWay
<1>3. CASE WatcherSees \/ ShutdownBegins \/ MainWaits \/ MainGivesUp \/ UNCHANGED vars
  <2>1. UNCHANGED <<received, events, handled, bridge, queue, consumer, pump>>
    BY <1>3 DEF WatcherSees, ShutdownBegins, MainWaits, StartSucceeds, ConsumerEnded, PumpEnded,
         PumpJoined, BridgeEnded, BridgeJoined, MainGivesUp, ConsumerLate, ConsumerLost, PumpLate,
         PumpLost, PumpNotJoined, BridgeLate, BridgeNotJoined, Goes, Found, Reports, threads,
         tasks, ending, vars
  <2> QED
    BY <2>1, OtherWay DEF PumpGone
<1> QED
  BY <1>1, <1>2, <1>3, ReceiveWay, BridgeWay, ConsumerWay DEF Next

-----------------------------------------------------------------------------
(* The ends.                                                               *)

LEMMA EndsStep ==
  ASSUME TypeOK, EndsAreTold, [Next]_vars
  PROVE  EndsAreTold'
<1>1. CASE WindowReceives \/ PumpStops \/ PumpBreaks \/ PumpExits \/ BridgeSteps \/ UNCHANGED vars
  <2>1. UNCHANGED <<consumer, aborted, watcher, fault, main, report>>
    BY <1>1 DEF WindowReceives, PumpStops, PumpBreaks, PumpExits, BridgeSteps, BridgeReceives,
                BridgeSends, BridgeEnds, BridgeFinishes, tasks, ending, vars
  <2> QED
    BY <2>1 DEF EndsAreTold, ConsumerGone, Complete
<1>2. CASE ConsumerSelects \/ ConsumerHandles \/ ConsumerPanics
  <2>1. /\ UNCHANGED <<aborted, watcher, main, report>> /\ ~ConsumerGone
        /\ consumer'.pc # "cancelled"
    BY <1>2 DEF ConsumerSelects, ConsumerHandles, ConsumerPanics, ConsumerGone, At, Holds,
                ending
  <2>2. fault => fault'
    BY <1>2 DEF ConsumerSelects, ConsumerHandles, ConsumerPanics
  <2> QED
    BY <2>1, <2>2 DEF EndsAreTold, Complete
<1>3. CASE ConsumerCancelled
  BY <1>3 DEF ConsumerCancelled, EndsAreTold, ConsumerGone, Complete, At, ending
<1>4. CASE WatcherSees
  BY <1>4 DEF WatcherSees, EndsAreTold, ConsumerGone, Complete, ending, TypeOK, EndTypes
<1>5. CASE StartFails
  BY <1>5 DEF StartFails, EndsAreTold, Complete, At
<1>6. CASE StartSucceeds
  BY <1>6 DEF StartSucceeds, EndsAreTold, ConsumerGone, Complete, threads, tasks
<1>7. CASE ShutdownBegins
  <2>1. /\ UNCHANGED <<consumer, aborted, watcher, fault>> /\ main = "serving"
        /\ main' = "consumer" /\ report'.consumerExited = report.consumerExited
        /\ report.errors => report'.errors
    BY <1>7 DEF ShutdownBegins, tasks, TypeOK, EndTypes, ShutdownReports
  <2> QED
    BY <2>1 DEF EndsAreTold, ConsumerGone
<1>8. ASSUME \/ ConsumerEnded \/ ConsumerLate \/ ConsumerLost \/ PumpEnded \/ PumpLate
             \/ PumpLost \/ PumpJoined \/ PumpNotJoined \/ BridgeEnded
      PROVE  EndsAreTold'
  <2>1. /\ UNCHANGED <<consumer, watcher, fault>> /\ main # "without"
        /\ main' \notin {"without", "closed"}
        /\ report'.consumerExited => report.consumerExited \/ watcher = "done"
        /\ report.errors => report'.errors
        /\ aborted' = aborted \/ report'.errors
        /\ aborted => aborted'
    BY <1>8 DEF ConsumerEnded, ConsumerLate, ConsumerLost, PumpEnded, PumpLate, PumpLost,
                PumpJoined, PumpNotJoined, BridgeEnded, Goes, Found, tasks, TypeOK, EndTypes,
                ShutdownReports
  <2> QED
    BY <2>1 DEF EndsAreTold, ConsumerGone
<1>9. ASSUME NEW r, Reports(r), main # "without", r.consumerExited = report.consumerExited,
             r.errors \in BOOLEAN, report.errors => r.errors, Complete(r) \in BOOLEAN
      PROVE  EndsAreTold'
  <2>1. /\ UNCHANGED <<consumer, watcher, aborted>> /\ main' = "closed" /\ report' = r
        /\ fault' = (fault \/ ~Complete(r) \/ r.errors)
    BY <1>9 DEF Reports, tasks
  <2> QED
    BY <1>9, <2>1 DEF EndsAreTold, ConsumerGone, Complete
<1>10. CASE BridgeLate \/ BridgeJoined \/ BridgeNotJoined
  BY <1>9, <1>10 DEF BridgeLate, BridgeJoined, BridgeNotJoined, TypeOK, EndTypes,
                     ShutdownReports, Complete
<1> QED
  BY <1>1, <1>2, <1>3, <1>4, <1>5, <1>6, <1>7, <1>8, <1>10 DEF Next, MainWaits, MainGivesUp

-----------------------------------------------------------------------------
LEMMA StepInv == IInv /\ [Next]_vars => IInv'
<1> SUFFICES ASSUME IInv, [Next]_vars PROVE IInv'
  OBVIOUS
<1>1. TypeOK'
  BY WayTypesStep, EndTypesStep DEF IInv, TypeOK
<1> QED
  BY <1>1, WayStep, EndsStep DEF IInv

LEMMA SpecInv == Spec => []IInv
<1> QED
  BY InitInv, StepInv, PTL DEF Spec

(* Window, pump, bridge and consumer deliver the events in order and once  *)
(* each, and a shutdown that reports no fault has delivered them all: its  *)
(* consumer ended by itself, and that is possible only when both channels  *)
(* are empty and the pump is gone.                                         *)
THEOREM SpecEventsInOrder == Spec => []EventsInOrder
<1>1. IInv => EventsInOrder
  <2> SUFFICES ASSUME IInv, main = "closed", ~fault PROVE Len(handled) = received
    BY DEF IInv, WayInv, HandledInOrder, EventsInOrder
  <2>1. /\ report.consumerExited /\ ~report.errors
    BY DEF IInv, EndsAreTold, Complete
  <2>2. consumer.pc = "returned"
    BY <2>1 DEF IInv, EndsAreTold, ConsumerGone
  <2> QED
    BY <2>2 DEF IInv, WayInv, ReturnedWithAll
<1> QED
  BY <1>1, SpecInv, PTL
=============================================================================
