---------------------------- MODULE ActivityEngine ----------------------------
(***************************************************************************)
(* The engine behind the Writer (apps/agent activity.rs) and the tables it *)
(* writes (wuji-storage writer.rs, schema.sql).  Each event is one         *)
(* transaction: the engine's memory and the rows change together or, when  *)
(* the transaction fails, neither does.  The queues in front of the Writer *)
(* are reduced to what the engine can see of them: the epoch a sample was  *)
(* stamped with when it was taken, and the samples that were dropped.      *)
(* CapturePipeline has the queues themselves.                              *)
(***************************************************************************)
EXTENDS Projections

CONSTANTS
  WorkBreak,       \* idle time that ends a Work Block
  SkewTolerance,   \* CLOCK_SKEW_TOLERANCE_MS
  MaxBusy,         \* retries of a transaction the database is too busy for
  Kinds,           \* applications and states a sample may show
  Masks,           \* outputs of the processor without an application
  Lifecycle,       \* events that open a gap
  Steps,           \* time between two events
  Lags,            \* how much earlier than its commit an event may be dated
  Jumps,           \* changes of the UTC clock
  Start,           \* the first UTC time
  MaxUtc,          \* bound: the last UTC time
  MaxEvents,       \* bound: events and upsets together
  MaxUpsets        \* bound: database errors, drops, clock changes, exits

ASSUME EngineConstants ==
  /\ Kinds \subseteq [app : Apps, state : States]
  /\ Masks \subseteq {"privacy_excluded", "capture_error"}
  /\ Lifecycle \subseteq {"capture_paused", "capture_stopped", "session_locked", "system_sleep"}
  /\ WorkBreak \in Nat \ {0} /\ SkewTolerance \in Nat /\ MaxBusy \in Nat
  /\ Steps \subseteq Nat \ {0} /\ Lags \subseteq Nat /\ Jumps \subseteq Int
  /\ MaxUtc \in Nat /\ Start \in 0 .. MaxUtc

Hours == HourOf(0) .. HourOf(MaxUtc)
Dates == DateOf(0) .. DateOf(MaxUtc)

VARIABLES
  db,        \* the database: tables as sequences of rows, and the projections
  mem,       \* the engine's memory
  cont,      \* ContinuityState: epoch and drop counters
  clock,     \* UTC and monotonic time
  agent,     \* the process: up, run (its runtime row), fault
  inflight,  \* the event whose transaction is retried, or NoEvent
  floor,     \* the least epoch the next sample may be stamped with
  lost,      \* history: the times of the samples dropped on their way
  upsets,    \* bound: upsets still to come
  events     \* bound: events still to come

vars == <<db, mem, cont, clock, agent, inflight, floor, lost, upsets, events>>

NoSegment == [id |-> 0]
NoWork == [id |-> 0]
NoPoint == [utc |-> NoTime, mono |-> NoTime]
NoEpoch == -1
NoEvent == [kind |-> "none", tries |-> 0]

FreshMemory ==
  [seg |-> NoSegment, work |-> NoWork, idleStart |-> NoTime, idleSum |-> 0,
   gap |-> "none", point |-> NoPoint, seen |-> NoEpoch, capDrops |-> 0, wrDrops |-> 0]

(* Bootstrap leaves one runtime row of its own behind. *)
Bootstrapped ==
  [segs |-> <<>>, blocks |-> <<>>, gaps |-> <<>>, obs |-> <<>>,
   runs |-> <<[started |-> Start, ended |-> NoTime, beat |-> Start, write |-> NoTime]>>,
   hourly |-> [h \in Hours |-> NoUsage],
   daily |-> [d \in Dates |-> NoUsage],
   metrics |-> [d \in Dates |-> NoMetrics],
   recorded |-> {}]

Init ==
  /\ db = Bootstrapped
  /\ mem = FreshMemory
  /\ cont = [epoch |-> 0, capture |-> 0, writer |-> 0]
  /\ clock = [utc |-> Start, mono |-> 0]
  /\ agent = [up |-> FALSE, run |-> 0, fault |-> "none"]
  /\ inflight = NoEvent
  /\ floor = 0
  /\ lost = {}
  /\ upsets = MaxUpsets
  /\ events = MaxEvents

(***************************************************************************)
(* A transaction under construction: the rows and the memory as far as     *)
(* they have got, the shared counters, the runtime it writes for, and      *)
(* whether every statement so far satisfied the schema.                    *)
(***************************************************************************)
Begin(run) == [db |-> db, mem |-> mem, cont |-> cont, run |-> run, ok |-> TRUE]

IsOpen(rows, i) == i \in DOMAIN rows /\ rows[i].status = "open"
OpenRows(rows) == {i \in DOMAIN rows : IsOpen(rows, i)}

Closed(rows) ==
  [i \in DOMAIN rows |-> IF IsOpen(rows, i) THEN [rows[i] EXCEPT !.status = "closed"] ELSE rows[i]]

ClosedAt(rows, at) ==
  [i \in DOMAIN rows |->
     IF IsOpen(rows, i) THEN [rows[i] EXCEPT !.status = "closed", !.end = at] ELSE rows[i]]

Extended(rows) ==
  [i \in DOMAIN rows |-> IF IsOpen(rows, i) THEN [rows[i] EXCEPT !.events = @ + 1] ELSE rows[i]]

CloseGap(t, at) ==
  [t EXCEPT !.db.gaps = ClosedAt(t.db.gaps, at),
            !.ok = @ /\ \A i \in OpenRows(t.db.gaps) : t.db.gaps[i].start <= at]

OpenGap(t, kind, at) ==
  [t EXCEPT !.db.gaps = Append(@, [run |-> t.run, kind |-> kind, start |-> at, end |-> NoTime,
                                   status |-> "open", events |-> 1]),
            !.mem.gap = kind,
            !.ok = @ /\ OpenRows(t.db.gaps) = {}]

ExtendGap(t) ==
  [t EXCEPT !.db.gaps = Extended(@), !.ok = @ /\ OpenRows(t.db.gaps) # {}]

InsertGap(t, kind, from, to) ==
  [t EXCEPT !.db.gaps = Append(@, [run |-> t.run, kind |-> kind, start |-> from, end |-> to,
                                   status |-> "closed", events |-> 1]),
            !.ok = @ /\ from <= to]

(* start_new_segment: the segment carries the newest epoch, the sample's   *)
(* own or the one the Writer has moved on to.                              *)
StartSegment(t, s) ==
  LET epoch == Max({t.cont.epoch, s.epoch})
  IN  [t EXCEPT
         !.db.segs = Append(@, [run |-> t.run, app |-> s.app, state |-> s.state, epoch |-> epoch,
                                start |-> s.utc, end |-> s.utc, status |-> "open"]),
         !.mem.seg = [id |-> Len(t.db.segs) + 1, app |-> s.app, state |-> s.state,
                      epoch |-> epoch, start |-> s.utc, end |-> s.utc],
         !.ok = @ /\ OpenRows(t.db.segs) = {}]

CloseRows(t) ==
  [t EXCEPT !.db.segs = IF t.mem.seg = NoSegment THEN @ ELSE Closed(@),
            !.db.blocks = IF t.mem.work = NoWork THEN @ ELSE Closed(@),
            !.mem.seg = NoSegment, !.mem.work = NoWork,
            !.mem.idleStart = NoTime, !.mem.idleSum = 0]

(***************************************************************************)
(* recompute_touched: the hours from the first to the last touched time,   *)
(* but only the first and the last of the dates.  A date whose metrics say *)
(* nothing loses its row, though it may have usage.                        *)
(***************************************************************************)
Recompute(t, from, to) ==
  LET hours == {h \in Hours : HourOf(from) <= h /\ h <= HourOf(to)}
      dates == {DateOf(from), DateOf(to)}
      metrics == [d \in Dates |-> IF d \in dates THEN WorkMetrics(t.db, d) ELSE t.db.metrics[d]]
      told == {d \in Dates \cap dates : WorthARow(metrics[d])}
  IN  [t EXCEPT
         !.db.hourly = [h \in Hours |-> IF h \in hours THEN HourUsage(t.db.segs, h) ELSE @[h]],
         !.db.daily = [d \in Dates |-> IF d \in dates THEN DateUsage(t.db.segs, d) ELSE @[d]],
         !.db.metrics = metrics,
         !.db.recorded = (@ \ dates) \cup told]

(***************************************************************************)
(* Work Blocks.                                                            *)
(***************************************************************************)
(* update_open_work_block: only an open row, only forwards, and active and *)
(* short idle time fit between start and end.                              *)
UpdateBlock(t, w) ==
  LET row == t.db.blocks[w.id]
  IN  [t EXCEPT
         !.db.blocks[w.id] = [@ EXCEPT !.end = w.end, !.active = w.active, !.short = w.short,
                                       !.last = w.last],
         !.mem.work = w,
         !.ok = @ /\ row.status = "open" /\ row.end <= w.end
                  /\ w.active + w.short <= w.end - row.start]

OpenBlock(t) ==
  LET seg == t.mem.seg
  IN  [t EXCEPT
         !.db.blocks = Append(@, [run |-> t.run, start |-> seg.start, end |-> seg.start, active |-> 0,
                                  short |-> 0, first |-> seg.id, last |-> seg.id, status |-> "open"]),
         !.mem.work = [id |-> Len(t.db.blocks) + 1, end |-> seg.start, active |-> 0, short |-> 0,
                       last |-> seg.id],
         !.ok = @ /\ OpenRows(t.db.blocks) = {}]

(* Mutant: the first active interval opens the block without counting.     *)
FaultyCountActive(t, delta, at) ==
  LET w == t.mem.work
  IN  IF w = NoWork THEN OpenBlock(t)
      ELSE UpdateBlock(t, [w EXCEPT !.active = @ + delta, !.end = at, !.last = t.mem.seg.id])

CountActive(t, delta, at) ==
  LET u == IF t.mem.work = NoWork THEN OpenBlock(t) ELSE t
      w == u.mem.work
  IN  UpdateBlock(u, [w EXCEPT !.active = @ + delta, !.end = at, !.last = t.mem.seg.id])

(* close_open_work_block_with_end: the one update that moves an end back. *)
BreakBlock(t, at) ==
  [t EXCEPT !.db.blocks = ClosedAt(t.db.blocks, at),
            !.mem.work = NoWork, !.mem.idleStart = NoTime, !.mem.idleSum = 0,
            !.ok = @ /\ \A i \in OpenRows(t.db.blocks) :
                          t.db.blocks[i].active + t.db.blocks[i].short <= at - t.db.blocks[i].start]

CountIdle(t, delta, at) ==
  LET start == IF t.mem.idleStart = NoTime THEN t.mem.seg.start ELSE t.mem.idleStart
      sum == (IF t.mem.idleStart = NoTime THEN 0 ELSE t.mem.idleSum) + delta
      u == UpdateBlock([t EXCEPT !.mem.idleStart = start, !.mem.idleSum = sum],
                       [t.mem.work EXCEPT !.end = at, !.last = t.mem.seg.id])
  IN  IF t.mem.work = NoWork THEN t
      ELSE IF sum >= WorkBreak THEN BreakBlock(u, start) ELSE u

(* Rule 2: the whole delta belongs to the segment. *)
Attribute(t, s) ==
  LET seg == t.mem.seg
      delta == s.utc - seg.end
      u == [t EXCEPT !.db.segs[seg.id].end = s.utc, !.mem.seg.end = s.utc,
                     !.ok = @ /\ IsOpen(t.db.segs, seg.id) /\ t.db.segs[seg.id].end <= s.utc]
  IN  CASE seg.state = "active" -> CountActive(u, delta, s.utc)
        [] seg.state = "idle" -> CountIdle(u, delta, s.utc)
        [] seg.state = "unknown" -> u

(* on_state_change *)
ChangeState(t, from, to) ==
  LET settled == [t EXCEPT !.mem.idleStart = NoTime, !.mem.idleSum = 0]
  IN  CASE to = "unknown" ->
             [settled EXCEPT !.db.blocks = IF t.mem.work = NoWork THEN @ ELSE Closed(@),
                             !.mem.work = NoWork]
        [] from = "idle" /\ to = "active" /\ t.mem.idleStart # NoTime /\ t.mem.work # NoWork ->
             UpdateBlock(settled, [t.mem.work EXCEPT !.short = @ + t.mem.idleSum,
                                                     !.last = t.mem.seg.id])
        [] from = "idle" /\ to = "active" /\ (t.mem.idleStart = NoTime \/ t.mem.work = NoWork) ->
             settled
        [] from = "active" /\ to = "idle" -> settled
        [] from = "unknown" /\ to # "unknown" -> t

(***************************************************************************)
(* classify_boundary: a new epoch, an old epoch, a clock that does not     *)
(* agree with the monotonic time, or too long a delta.                     *)
(***************************************************************************)
Delta(p, s) == s.utc - p.utc

Skewed(p, s) ==
  \/ Delta(p, s) <= 0
  \/ Delta(p, s) - (s.mono - p.mono) \notin -SkewTolerance .. SkewTolerance

BoundaryAt(m, s) ==
  IF m.seen # NoEpoch /\ s.epoch # m.seen
  THEN IF s.epoch > m.seen THEN "queue_drop" ELSE "stale_epoch"
  ELSE IF m.point = NoPoint THEN "none"
  ELSE IF Skewed(m.point, s) THEN "clock_changed"
  ELSE IF Delta(m.point, s) > GapCap THEN "capture_delayed" ELSE "none"

DropKind(m, c) ==
  IF c.capture <= m.capDrops /\ c.writer > m.wrDrops THEN "writer_queue_drop"
                                                     ELSE "capture_queue_drop"

(* Mutant: a clock change moves the Writer on, not the shared epoch.       *)
FaultyClassified(t, b) ==
  CASE b = "queue_drop" ->
         [t EXCEPT !.mem.capDrops = t.cont.capture, !.mem.wrDrops = t.cont.writer]
    [] b = "clock_changed" -> [t EXCEPT !.mem.seen = t.cont.epoch + 1]
    [] OTHER -> t

(* What the classification itself changes: the drops accounted for, or the *)
(* epoch the Writer moves on to.                                           *)
Classified(t, b) ==
  CASE b = "queue_drop" ->
         [t EXCEPT !.mem.capDrops = t.cont.capture, !.mem.wrDrops = t.cont.writer]
    [] b = "clock_changed" ->
         [t EXCEPT !.cont.epoch = @ + 1, !.mem.seen = t.cont.epoch + 1]
    [] OTHER -> t

(* The gap a boundary leaves, from the last sample to this one; when the   *)
(* UTC clock went back, clock_changed has length zero at the last sample.  *)
GapStart(m, s) == IF m.point = NoPoint THEN s.utc ELSE m.point.utc

InsertBoundaryGap(t, b, kind, s) ==
  LET from == GapStart(t.mem, s)
  IN  CASE b = "queue_drop" -> InsertGap(t, kind, from, s.utc)
        [] b \in {"clock_changed", "stale_epoch"} ->
             InsertGap(t, "clock_changed", from, Max({from, s.utc}))
        [] b = "capture_delayed" -> InsertGap(t, "capture_delayed", from, s.utc)

(* Rules 1 to 3. *)
ApplySample(t, s) ==
  LET seg == t.mem.seg
      same == /\ seg.app = s.app /\ seg.state = s.state /\ seg.epoch = s.epoch
              /\ 0 < s.utc - seg.end /\ s.utc - seg.end <= GapCap
      cut == InsertGap([t EXCEPT !.db.segs = Closed(@)], "sampling_transition", seg.end, s.utc)
      changed == IF seg.state = s.state THEN cut ELSE ChangeState(cut, seg.state, s.state)
  IN  IF seg = NoSegment THEN StartSegment(t, s)
      ELSE IF same THEN Attribute(t, s)
      ELSE StartSegment([changed EXCEPT !.mem.seg = NoSegment], s)

(* Mutant: only the sample's own time is touched.                          *)
FaultyTouchedFrom(m, b, s) == s.utc

(* The time the projections are rebuilt from. *)
TouchedFrom(m, b, s) ==
  IF b # "none" THEN GapStart(m, s)
  ELSE IF m.seg = NoSegment THEN s.utc ELSE m.seg.end

OnSample(t, s) ==
  LET resumed == IF t.mem.gap = "none" THEN t
                 ELSE [CloseGap(t, s.utc) EXCEPT !.mem.gap = "none"]
      stored == [resumed EXCEPT !.db.obs = Append(@, [run |-> t.run, epoch |-> s.epoch, utc |-> s.utc,
                                                      app |-> s.app, state |-> s.state])]
      b == BoundaryAt(t.mem, s)
      noted == Classified(stored, b)
      applied == IF b = "none" THEN ApplySample(noted, s)
                 ELSE StartSegment(InsertBoundaryGap(CloseRows(noted), b, DropKind(t.mem, t.cont), s), s)
      moved == [applied EXCEPT !.mem.point = [utc |-> s.utc, mono |-> s.mono],
                               !.mem.seen = Max({@, s.epoch})]
      from == TouchedFrom(t.mem, b, s)
  IN  Recompute(moved, from, Max({from, s.utc}))

(***************************************************************************)
(* on_gap_event: lock and sleep leave the gap of a stopped or paused       *)
(* capture alone.                                                          *)
(***************************************************************************)
Absorbed == {"session_locked", "system_sleep"}
Absorbing == {"capture_paused", "capture_stopped"}

(* Mutant: a gap does not end the segment.                                 *)
FaultyOnGapEvent(t, kind, at) ==
  LET cut == [t EXCEPT !.mem.point = NoPoint]
  IN  IF kind \in Absorbed /\ t.mem.gap \in Absorbing THEN cut
      ELSE IF t.mem.gap = kind THEN Recompute(ExtendGap(cut), at, at)
      ELSE IF t.mem.gap = "none" THEN Recompute(OpenGap(cut, kind, at), at, at)
      ELSE Recompute(OpenGap(CloseGap(cut, at), kind, at), at, at)

OnGapEvent(t, kind, at) ==
  LET cut == [CloseRows(t) EXCEPT !.mem.point = NoPoint]
      from == IF t.mem.point = NoPoint THEN at ELSE t.mem.point.utc
      opened == IF t.mem.gap = kind THEN ExtendGap(cut)
                ELSE IF t.mem.gap = "none" THEN OpenGap(cut, kind, at)
                ELSE OpenGap(CloseGap(cut, at), kind, at)
  IN  IF kind \in Absorbed /\ t.mem.gap \in Absorbing THEN cut ELSE Recompute(opened, from, at)

OnShutdown(t, at) ==
  LET cut == [CloseRows(t) EXCEPT !.mem.point = NoPoint]
      closed == IF t.mem.gap = "none" THEN cut
                ELSE [CloseGap(cut, at) EXCEPT !.mem.gap = "none"]
      from == IF t.mem.point = NoPoint THEN at ELSE t.mem.point.utc
  IN  Recompute([closed EXCEPT !.db.runs[t.run].ended = at], from, at)

(***************************************************************************)
(* recover_startup: close what the last runtime left open, at the last     *)
(* time it is known to have written, and open the agent_restart gap there. *)
(***************************************************************************)
LatestRuntime(runs) ==
  CHOOSE r \in DOMAIN runs :
    \A q \in DOMAIN runs :
      \/ runs[q].started < runs[r].started
      \/ runs[q].started = runs[r].started /\ q <= r

Reference(d) ==
  LET last == d.runs[LatestRuntime(d.runs)]
  IN  Max({IF last.write = NoTime THEN last.beat ELSE last.write}
          \cup {d.segs[i].end : i \in OpenRows(d.segs)}
          \cup {d.gaps[i].start : i \in OpenRows(d.gaps)})

Recovered(t, now) ==
  LET legacy == LatestRuntime(t.db.runs)
      at == Reference(t.db)
      gaps == OpenRows(t.db.gaps)
      closed == [CloseGap(t, at) EXCEPT !.db.segs = Closed(@), !.db.blocks = Closed(@),
                   !.db.runs[legacy].ended = IF @ = NoTime THEN t.db.runs[legacy].beat ELSE @]
      added == [closed EXCEPT !.db.runs = Append(@, [started |-> now, ended |-> NoTime, beat |-> now,
                                                     write |-> NoTime])]
      opened == OpenGap(added, "agent_restart", at)
  IN  IF gaps = {} THEN opened
      ELSE Recompute(opened, Min({t.db.gaps[i].start : i \in gaps}), at)

(***************************************************************************)
(* Events, and what can happen to one of them.                             *)
(***************************************************************************)
DataEvents == {"sample", "privacy_excluded", "capture_error"}

Handled(e) ==
  LET t == Begin(agent.run)
  IN  CASE e.kind = "sample" -> OnSample(t, e.sample)
        [] e.kind = "shutdown" -> OnShutdown(t, e.at)
        [] OTHER -> OnGapEvent(t, e.kind, e.at)

(* Mutant: the kind of the open gap is not part of the snapshot.           *)
FaultyRestored(saved, used) == [saved EXCEPT !.gap = used.gap]

(* snapshot and restore: all nine fields of the engine's memory. *)
Restored(saved, used) ==
  [seg |-> saved.seg, work |-> saved.work, idleStart |-> saved.idleStart, idleSum |-> saved.idleSum,
   gap |-> saved.gap, point |-> saved.point, seen |-> saved.seen,
   capDrops |-> saved.capDrops, wrDrops |-> saved.wrDrops]

(* The bounds: every event uses up one of MaxEvents, and so does everything *)
(* that goes wrong, of which there are at most MaxUpsets.                  *)
InBounds == events > MaxUpsets - upsets

Upset == upsets > 0 /\ InBounds /\ upsets' = upsets - 1

Commits(t) ==
  /\ t.ok
  /\ db' = t.db /\ mem' = t.mem /\ cont' = t.cont
  /\ inflight' = NoEvent
  /\ UNCHANGED <<agent, upsets>>

(* The database is busy: a data event is rolled back and tried again.  The *)
(* epoch the classification may have moved on to is not taken back.        *)
BacksOff(e, t) ==
  /\ e.kind \in DataEvents /\ e.tries < MaxBusy
  /\ Upset
  /\ mem' = Restored(mem, t.mem)
  /\ cont' \in {cont, t.cont}
  /\ inflight' = [e EXCEPT !.tries = @ + 1]
  /\ UNCHANGED <<db, agent>>

(* A statement the schema refuses, or a database error, is fatal; only a   *)
(* data event's memory is restored.                                        *)
LeftBehind(e, t) ==
  IF e.kind \in DataEvents THEN {Restored(mem, t.mem)}
  ELSE {mem, [CloseRows(Begin(agent.run)).mem EXCEPT !.point = NoPoint], t.mem}

Fails(e, t) ==
  /\ \/ ~ t.ok /\ UNCHANGED upsets /\ agent' = [agent EXCEPT !.fault = "refused"]
     \/ t.ok /\ Upset /\ agent' = [agent EXCEPT !.fault = "database"]
  /\ mem' \in LeftBehind(e, t)
  /\ cont' \in {cont, t.cont}
  /\ inflight' = NoEvent
  /\ UNCHANGED db

Handle(e) ==
  LET t == Handled(e)
  IN  Commits(t) \/ BacksOff(e, t) \/ Fails(e, t)

Ready == agent.up /\ inflight = NoEvent

(* Time passes. *)
After(d) ==
  /\ clock.utc + d <= MaxUtc
  /\ clock' = [utc |-> clock.utc + d, mono |-> clock.mono + d]

NewEvent == InBounds /\ events' = events - 1

(* The next sample: stamped no earlier than the one before it, and no      *)
(* later than the shared epoch.                                            *)
Sample(k, d) ==
  /\ Ready /\ After(d) /\ NewEvent
  /\ \E e \in floor .. cont.epoch :
       LET s == [app |-> k.app, state |-> k.state, epoch |-> e,
                 utc |-> clock.utc + d, mono |-> clock.mono + d]
       IN  /\ Handle([kind |-> "sample", sample |-> s, tries |-> 0])
           /\ floor' = e
  /\ UNCHANGED lost

(* A sample of an excluded application, or without a process name. *)
Masked(kind, d) ==
  /\ Ready /\ After(d) /\ NewEvent
  /\ Handle([kind |-> kind, at |-> clock.utc + d, tries |-> 0])
  /\ UNCHANGED <<floor, lost>>

(* A pause, stop, lock or sleep, dated when it was asked for. *)
Boundary(kind, lag) ==
  /\ Ready /\ clock.utc >= lag /\ NewEvent
  /\ Handle([kind |-> kind, at |-> clock.utc - lag, tries |-> 0])
  /\ UNCHANGED <<clock, floor, lost>>

TriesAgain ==
  /\ agent.up /\ inflight # NoEvent
  /\ Handle(inflight)
  /\ UNCHANGED <<clock, floor, lost, events>>

(* A full queue drops the new sample.  Samples taken later carry the new   *)
(* epoch; behind a full data lane older ones may still be on their way.    *)
Drop(lane, d) ==
  /\ agent.up /\ After(d) /\ Upset
  /\ cont' = [cont EXCEPT !.epoch = @ + 1, ![lane] = @ + 1]
  /\ floor' = IF lane = "capture" THEN cont.epoch + 1 ELSE floor
  /\ lost' = lost \cup {clock.utc + d}
  /\ UNCHANGED <<db, mem, agent, inflight, events>>

(* write_heartbeat: the only statement that sets last_write. *)
Heartbeat ==
  /\ Ready /\ NewEvent
  /\ db' = [db EXCEPT !.runs[agent.run].beat = clock.utc, !.runs[agent.run].write = clock.utc]
  /\ db' # db
  /\ UNCHANGED <<mem, cont, clock, agent, inflight, floor, lost, upsets>>

(* The user, or a time service, sets the clock. *)
SetClock(j) ==
  /\ Upset
  /\ clock.utc + j \in 0 .. MaxUtc
  /\ clock' = [clock EXCEPT !.utc = @ + j]
  /\ UNCHANGED <<db, mem, cont, agent, inflight, floor, lost, events>>

(* The Writer's Shutdown: the last event, whether it commits or not. *)
Shutdown ==
  /\ Ready /\ Upset
  /\ LET t == Handled([kind |-> "shutdown", at |-> clock.utc])
     IN  \/ t.ok /\ db' = t.db
         \/ UNCHANGED db
  /\ agent' = [agent EXCEPT !.up = FALSE]
  /\ UNCHANGED <<mem, cont, clock, inflight, floor, lost, events>>

Crash ==
  /\ agent.up /\ Upset
  /\ agent' = [agent EXCEPT !.up = FALSE]
  /\ UNCHANGED <<db, mem, cont, clock, inflight, floor, lost, events>>

(* A process starts with a fresh engine and recovers in one transaction. *)
StartAgent(d) ==
  /\ ~ agent.up /\ After(d)
  /\ LET run == Len(db.runs) + 1
         t == Recovered([db |-> db, mem |-> FreshMemory, run |-> run, ok |-> TRUE,
                         cont |-> [epoch |-> 0, capture |-> 0, writer |-> 0]], clock.utc + d)
     IN  /\ t.ok
         /\ db' = t.db /\ mem' = t.mem /\ cont' = t.cont
         /\ agent' = [up |-> TRUE, run |-> run, fault |-> "none"]
  /\ inflight' = NoEvent
  /\ floor' = 0
  /\ UNCHANGED <<lost, upsets, events>>

Next ==
  \/ \E k \in Kinds, d \in Steps : Sample(k, d)
  \/ \E kind \in Masks, d \in Steps : Masked(kind, d)
  \/ \E kind \in Lifecycle, lag \in Lags : Boundary(kind, lag)
  \/ TriesAgain
  \/ \E lane \in {"capture", "writer"}, d \in Steps : Drop(lane, d)
  \/ Heartbeat
  \/ \E j \in Jumps : SetClock(j)
  \/ Shutdown
  \/ Crash
  \/ \E d \in Steps : StartAgent(d)

Spec == Init /\ [][Next]_vars

(***************************************************************************)
(* Properties.                                                             *)
(***************************************************************************)
(* Type correctness of the engine's memory, the counters and the rows that *)
(* are open.                                                               *)
EngineTypeOK ==
  /\ mem.gap \in Lifecycle \cup DataEvents \cup {"none", "agent_restart"}
  /\ mem.idleSum \in Nat /\ mem.idleStart \in Int /\ mem.seen <= cont.epoch
  /\ cont \in [epoch : Nat, capture : Nat, writer : Nat]
  /\ floor \in 0 .. cont.epoch
  /\ agent \in [up : BOOLEAN, run : 0 .. Len(db.runs), fault : {"none", "refused", "database"}]
  /\ \A i \in DOMAIN db.segs : db.segs[i].start <= db.segs[i].end
  /\ \A rows \in {db.segs, db.blocks, db.gaps} : Cardinality(OpenRows(rows)) <= 1

(* The engine decides by its memory and never reads the open rows again    *)
(* (activity.rs:91).  While it serves, its memory is exactly what is open  *)
(* in the database, whatever was rolled back and retried in between.       *)
MirrorMatchesDatabase ==
  agent.up /\ agent.fault = "none" =>
    /\ OpenRows(db.segs) = {mem.seg.id} \ {0}
    /\ OpenRows(db.blocks) = {mem.work.id} \ {0}
    /\ {db.gaps[i].kind : i \in OpenRows(db.gaps)} = {mem.gap} \ {"none"}
    /\ mem.seg # NoSegment =>
         \A f \in {"app", "state", "epoch", "start", "end"} : db.segs[mem.seg.id][f] = mem.seg[f]
    /\ mem.work # NoWork =>
         \A f \in {"end", "active", "short", "last"} : db.blocks[mem.work.id][f] = mem.work[f]

(* What a tick-by-tick count of the segments says of one bucket. *)
TicksIn(a, st, lo, hi) ==
  Cardinality({it \in (DOMAIN db.segs) \X (lo .. hi - 1) :
    /\ db.segs[it[1]].app = a /\ db.segs[it[1]].state = st
    /\ db.segs[it[1]].start <= it[2] /\ it[2] < db.segs[it[1]].end})

Tells(bucket, lo, hi) ==
  \A a \in Apps :
    /\ bucket[a].active = TicksIn(a, "active", lo, hi)
    /\ bucket[a].idle = TicksIn(a, "idle", lo, hi)
    /\ bucket[a].unknown = TicksIn(a, "unknown", lo, hi)

(* Only touched buckets are rebuilt (activity.rs:790); still every bucket, *)
(* touched or not, says at any time what the segments say.                 *)
UsageIsFresh ==
  /\ \A h \in Hours : Tells(db.hourly[h], h * HourTicks, (h + 1) * HourTicks)
  /\ \A d \in Dates : Tells(db.daily[d], DayStart(d), DayEnd(d))

(* Time is counted for an application only between two samples in a row    *)
(* of one runtime that both showed it, in the same state and no further    *)
(* apart than the gap cap: never across a gap, a restart, a masked sample, *)
(* or a clock that was changed (doc 09 section 6.4, 6.5).                  *)
EndOf(rows, i, new) == IF i \in DOMAIN rows THEN rows[i].end ELSE new.start

AttributedTimeWasSampled ==
  [][\A i \in DOMAIN db'.segs :
       LET seg == db'.segs[i]
           n == Len(db.obs)
       IN  seg.end # EndOf(db.segs, i, seg) =>
             /\ OpenRows(db.gaps) = {}
             /\ n > 0 /\ Len(db'.obs) = n + 1
             /\ LET p == db.obs[n]
                    q == db'.obs[n + 1]
                IN  /\ p.utc = EndOf(db.segs, i, seg) /\ q.utc = seg.end
                    /\ 0 < q.utc - p.utc /\ q.utc - p.utc <= GapCap
                    /\ \A o \in {p, q} : /\ o.run = seg.run /\ o.app = seg.app
                                          /\ o.state = seg.state]_vars

(* A Work Block's running total is the active time of the segments from    *)
(* its first to its last, through idle spells, application changes, breaks *)
(* and whatever closed it.                                                 *)
BlockSumsItsSegments ==
  \A b \in DOMAIN db.blocks :
    LET row == db.blocks[b]
        part == {i \in row.first .. row.last : db.segs[i].state = "active"}
    IN  /\ row.active = MapThenSumSet(LAMBDA i : db.segs[i].end - db.segs[i].start, part)
        /\ \A i \in part : row.start <= db.segs[i].start /\ db.segs[i].end <= row.end

(* Doc 09 section 6.5: a clock that goes back leaves no negative interval. *)
(* Refuted: close_open_gap may be given an end before the start; the       *)
(* schema refuses it and the Writer is faulted without any database error. *)
SchemaNeverRefuses ==
  agent.fault # "refused"

(* Doc 09 section 5.2: no time is counted across a dropped sample.         *)
(* Refuted: the epoch is stamped when a sample is taken, so samples behind *)
(* the dropped one still carry the old epoch.                              *)
NoTimeAcrossDrop ==
  \A i \in DOMAIN db.segs : \A t \in lost : ~ (db.segs[i].start < t /\ t < db.segs[i].end)
=============================================================================
