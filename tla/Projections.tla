----------------------------- MODULE Projections -----------------------------
(***************************************************************************)
(* The read-model tables the Writer rebuilds inside each transaction       *)
(* (wuji-storage recompute.rs, timeutil.rs): usage per application in a    *)
(* UTC hour and in a local date, and the work metrics of a local date.     *)
(* Rows are sequences of records in the order of their ids.  Time is       *)
(* counted in ticks; an hour and a local day are a number of ticks and the *)
(* reporting time zone is a fixed offset (no daylight saving).             *)
(***************************************************************************)
EXTENDS Integers, Sequences, FiniteSets, FiniteSetsExt

CONSTANTS
  Apps,          \* application identities
  HourTicks,     \* length of a UTC hour
  DayTicks,      \* length of a local day
  ZoneOffset,    \* local time minus UTC
  GapCap,        \* longest delta between two samples that is attributed
  MaxGapCap      \* MAX_GAP_CAP_MS: the largest cap the settings allow

ASSUME ProjectionConstants ==
  /\ HourTicks \in Nat \ {0}
  /\ DayTicks \in Nat \ {0}
  /\ ZoneOffset \in Nat
  /\ GapCap \in Nat \ {0}
  /\ MaxGapCap \in GapCap .. DayTicks    \* 30 seconds, in a day of 23 hours or more

States == {"active", "idle", "unknown"}

NoTime == -1

HourOf(t) == t \div HourTicks
DateOf(t) == (t + ZoneOffset) \div DayTicks
DayStart(d) == d * DayTicks - ZoneOffset
DayEnd(d) == DayStart(d + 1)

(* MIN(end, hi) - MAX(start, lo). *)
Clipped(row, lo, hi) == Min({row.end, hi}) - Max({row.start, lo})

(* The length of the rows with index in S, cut to [lo, hi). *)
Total(rows, S, lo, hi) == MapThenSumSet(LAMBDA i : Clipped(rows[i], lo, hi), S)

(* A row with positive length that has ticks in [lo, hi). *)
Meets(row, lo, hi) == row.end > lo /\ row.start < hi /\ row.end > row.start

(***************************************************************************)
(* One bucket of hourly_app_usage or daily_app_usage: per application the  *)
(* time in each state and the number of segments, from the segments alone. *)
(***************************************************************************)
Usage(segs, lo, hi) ==
  [a \in Apps |->
    LET hits == {i \in DOMAIN segs : segs[i].app = a /\ Meets(segs[i], lo, hi)}
        Of(st) == Total(segs, {i \in hits : segs[i].state = st}, lo, hi)
    IN  [active |-> Of("active"), idle |-> Of("idle"), unknown |-> Of("unknown"),
         count |-> Cardinality(hits)]]

HourUsage(segs, h) == Usage(segs, h * HourTicks, (h + 1) * HourTicks)
DateUsage(segs, d) == Usage(segs, DayStart(d), DayEnd(d))

NoUsage == [a \in Apps |-> [active |-> 0, idle |-> 0, unknown |-> 0, count |-> 0]]

(***************************************************************************)
(* daily_work_metrics.                                                     *)
(***************************************************************************)
(* The segments of state st on [lo, hi) that lie inside some Work Block. *)
InSomeBlock(db, st, lo, hi) ==
  {i \in DOMAIN db.segs :
     /\ db.segs[i].state = st
     /\ db.segs[i].end > lo /\ db.segs[i].start < hi
     /\ \E b \in DOMAIN db.blocks :
          /\ db.blocks[b].start <= db.segs[i].start
          /\ db.blocks[b].end >= db.segs[i].end}

(* The active time of block b on [lo, hi). *)
BlockActive(db, b, lo, hi) ==
  Total(db.segs,
        {i \in DOMAIN db.segs :
           /\ db.segs[i].state = "active"
           /\ db.segs[i].start >= db.blocks[b].start
           /\ db.segs[i].end <= db.blocks[b].end
           /\ db.segs[i].end > lo /\ db.segs[i].start < hi},
        lo, hi)

(* The gaps looked at for a date: those that do not end before it starts. *)
GapsNear(db, d) ==
  {g \in DOMAIN db.gaps :
     /\ db.gaps[g].kind # "sampling_transition"
     /\ db.gaps[g].start < DayEnd(d)
     /\ db.gaps[g].end = NoTime \/ db.gaps[g].end > DayStart(d) - MaxGapCap}

(* The samples looked at for a date, and the one read just before q. *)
SamplesNear(db, d) ==
  {k \in DOMAIN db.obs : db.obs[k].utc >= DayStart(d) - MaxGapCap /\ db.obs[k].utc < DayEnd(d)}

ReadBefore(db, d, p, q) ==
  p < q /\ \A k \in SamplesNear(db, d) : k <= p \/ k >= q

(* A switch of the application between two samples that follow each other  *)
(* in one runtime and one epoch, with no gap between them; it counts on    *)
(* the date of the second.                                                 *)
Switches(db, d) ==
  {k \in SamplesNear(db, d) : \E j \in SamplesNear(db, d) :
     LET p == db.obs[j]
         q == db.obs[k]
     IN  /\ ReadBefore(db, d, j, k)
         /\ q.run = p.run /\ q.epoch = p.epoch /\ q.app # p.app
         /\ p.state # "unknown" /\ q.state # "unknown"
         /\ q.utc > p.utc /\ q.utc - p.utc <= GapCap
         /\ DateOf(q.utc) = d
         /\ ~ \E g \in GapsNear(db, d) :
                /\ db.gaps[g].start < q.utc
                /\ db.gaps[g].end = NoTime \/ db.gaps[g].end > p.utc}

WorkMetrics(db, d) ==
  LET lo == DayStart(d)
      hi == DayEnd(d)
      counted == {b \in DOMAIN db.blocks : BlockActive(db, b, lo, hi) > 0}
  IN  [active    |-> Total(db.segs, InSomeBlock(db, "active", lo, hi), lo, hi),
       shortIdle |-> Total(db.segs, InSomeBlock(db, "idle", lo, hi), lo, hi),
       blocks    |-> Cardinality(counted),
       longest   |-> Max({0} \cup {BlockActive(db, b, lo, hi) : b \in counted}),
       switches  |-> Cardinality(Switches(db, d)),
       gaps      |-> Cardinality({g \in GapsNear(db, d) : DateOf(db.gaps[g].start) = d})]

NoMetrics ==
  [active |-> 0, shortIdle |-> 0, blocks |-> 0, longest |-> 0, switches |-> 0, gaps |-> 0]

(* The row of a date is written only if it says something.                 *)
WorthARow(m) ==
  m.active > 0 \/ m.shortIdle > 0 \/ m.blocks > 0 \/ m.switches > 0 \/ m.gaps > 0
=============================================================================
