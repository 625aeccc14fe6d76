------------------------------ MODULE ReadModels ------------------------------
(***************************************************************************)
(* What the Desktop reads while the Agent keeps writing: the Today page,   *)
(* the paged timeline, the heat map (wuji-storage reader.rs) and the       *)
(* statistics page with its status poll (reader.rs, timeutil.rs and the    *)
(* Desktop's query.rs).  The Writer is ActivityEngine.  Statistics read    *)
(* one snapshot, taken after the command fixed its present time.  Today is *)
(* a series of statements and the timeline a series of pages, and a        *)
(* transaction may commit between any two of them.                         *)
(***************************************************************************)
EXTENDS ActivityEngine, Statistics

CONSTANTS
  PageSize,      \* items of a timeline page
  Ranges,        \* 7, 14, 30: ranges the page offers
  WeekRange,     \* 30: the range shown in weeks
  SummaryDays,   \* 7: each of the two windows the summary compares
  PaceDays,      \* 14: window of the daily spell and the pace of work
  Weeks,         \* 12
  Months,        \* 6
  MonthDays,     \* days of a month; all months are alike here
  EarlyHours,    \* 6: hours that belong to the night before
  MaxReadings    \* bound: readings of a behaviour

ASSUME ReadConstants ==
  /\ PageSize \in Nat \ {0} /\ Ranges \subseteq Nat \ {0} /\ WeekRange \in Ranges
  /\ {SummaryDays, PaceDays, Weeks, Months, MonthDays} \subseteq Nat \ {0}
  /\ EarlyHours \subseteq DayHours /\ MaxReadings \in Nat

VARIABLES
  reading,       \* the command under way, or NoReading
  readings       \* bound: readings still to come

readVars == <<reading, readings>>

NoReading == [kind |-> "none"]

(***************************************************************************)
(* Timeline: the rows of one date, ordered by start, kind and id.          *)
(***************************************************************************)
SegmentKey(i) == <<db.segs[i].start, 0, i>>
GapKey(i) == <<db.gaps[i].start, 1, i>>

OnDate(d) ==
  {SegmentKey(i) : i \in {j \in DOMAIN db.segs :
     db.segs[j].end >= DayStart(d) /\ db.segs[j].start < DayEnd(d)}}
  \cup
  {GapKey(i) : i \in {j \in DOMAIN db.gaps :
     /\ db.gaps[j].start < DayEnd(d)
     /\ db.gaps[j].end = NoTime \/ db.gaps[j].end >= DayStart(d)}}

(* Mutant: the cursor knows the start only. *)
FaultyBefore(p, q) == p[1] < q[1]

Before(p, q) ==
  \/ p[1] < q[1]
  \/ p[1] = q[1] /\ p[2] < q[2]
  \/ p[1] = q[1] /\ p[2] = q[2] /\ p[3] < q[3]

InOrder(keys) ==
  Ordered(keys, LAMBDA p, q : p[1] < q[1] \/ (p[1] = q[1] /\ (p[2] < q[2]
                                     \/ (p[2] = q[2] /\ p[3] < q[3]))))

(* The items behind the cursor; one more than a page tells whether there   *)
(* is another.                                                             *)
Behind(d, cursor) == {k \in OnDate(d) : \A c \in cursor : Before(c, k)}

TimelinePage(d, cursor) ==
  LET found == InOrder(Behind(d, cursor))
      page == SubSeq(found, 1, Min({PageSize, Len(found)}))
  IN  [items |-> page, next |-> IF Len(found) > PageSize THEN {page[PageSize]} ELSE {}]

(***************************************************************************)
(* Today: six statements, outside any transaction.                         *)
(***************************************************************************)
TodaySteps == <<"work", "total", "apps", "current", "last", "dropped">>

UsedOn(d) == IF d \in Dates THEN {a \in Apps : db.daily[d][a].count > 0} ELSE {}

ActiveOn(d, a) == IF d \in Dates THEN db.daily[d][a].active ELSE 0

MetricsOf(d) == IF d \in db.recorded THEN db.metrics[d] ELSE NoMetrics

DropKinds == {"capture_queue_drop", "writer_queue_drop"}

(* The application of the segment that ended last, by end and id. *)
LastClosed ==
  LET closed == DOMAIN db.segs \ OpenRows(db.segs)
  IN  {db.segs[i].app : i \in {j \in closed : \A k \in closed :
         db.segs[k].end < db.segs[j].end \/ (db.segs[k].end = db.segs[j].end /\ k <= j)}}

TodayAnswer(step, d) ==
  CASE step = "work" -> [longest |-> MetricsOf(d).longest, blocks |-> MetricsOf(d).blocks,
                         switches |-> MetricsOf(d).switches, gaps |-> MetricsOf(d).gaps]
    [] step = "total" -> SumOver(Apps, LAMBDA a : ActiveOn(d, a))
    [] step = "apps" -> [a \in UsedOn(d) |-> ActiveOn(d, a)]
    [] step = "current" -> {db.segs[i].app : i \in OpenRows(db.segs)}
    [] step = "last" -> LastClosed
    [] step = "dropped" ->
         SumOver({i \in DOMAIN db.gaps : db.gaps[i].kind \in DropKinds
                                          /\ DateOf(db.gaps[i].start) = d},
                 LAMBDA i : db.gaps[i].events)

(***************************************************************************)
(* Heat map: the hours of the last days, shifted by whole weeks; an hour   *)
(* of UTC belongs to the local hour its start lies in.                     *)
(***************************************************************************)
LocalHour(h) == ((h * HourTicks + ZoneOffset) % DayTicks) \div HourTicks

HoursOn(d) == {h \in Hours : DateOf(h * HourTicks) = d}

HourTotal(h, state) == SumOver(Apps, LAMBDA a : db.hourly[h][a][state])

Intensity(active, most) ==
  IF active = 0 \/ most = 0 THEN 0
  ELSE Min({level \in 1 .. 4 : active * 4 <= most * level})

Heatmap(today, days, weekOffset) ==
  LET end == today + weekOffset * WeekDays
      hours == UNION {{h \in HoursOn(d) : \E st \in States : HourTotal(h, st) > 0} :
                        d \in end - days + 1 .. end}
      most == Max({0} \cup {HourTotal(h, "active") : h \in hours})
  IN  {[date |-> DateOf(h * HourTicks), hour |-> LocalHour(h),
        active |-> HourTotal(h, "active"), level |-> Intensity(HourTotal(h, "active"), most)]
       : h \in hours}

(***************************************************************************)
(* ReaderSnapshot: what the statistics commands ask one transaction.       *)
(***************************************************************************)
(* stats_daily_rows: every date of the range, recorded or not. *)
DailyRow(d) ==
  [date |-> d, active |-> MetricsOf(d).active, blocks |-> MetricsOf(d).blocks,
   hasData |-> d \in db.recorded]

DailyRows(from, to) == [i \in 1 .. to - from + 1 |-> DailyRow(from + i - 1)]

(* recent_recorded_dates *)
Recent(d) == {e \in db.recorded : e < d /\ Cardinality({f \in db.recorded : e < f /\ f < d}) < AvgDays}

(* same_moment_cutoff_utc_ms: now on today, and the same time of day on    *)
(* another date, inside that date.                                         *)
SameMoment(d, now) ==
  IF d = DateOf(now) THEN now
  ELSE Min({DayStart(d) + (now - DayStart(DateOf(now))), DayEnd(d) - 1})

(* Mutant: a segment that began the day before counts as a whole. *)
FaultyCutoff(d, now) ==
  LET lo == DayStart(d)
      cut == SameMoment(d, now)
  IN  [active |-> Total(db.segs, {i \in DOMAIN db.segs : db.segs[i].state = "active"
                                                       /\ Meets(db.segs[i], lo, cut)}, 0, cut),
       blocks |-> Cardinality({b \in DOMAIN db.blocks :
                     /\ db.blocks[b].end > lo /\ db.blocks[b].start < cut
                     /\ BlockActive(db, b, lo, cut) > 0})]

(* One row of stats_cutoff_series: active time and Work Blocks until then. *)
Cutoff(d, now) ==
  LET lo == DayStart(d)
      cut == SameMoment(d, now)
  IN  [active |-> Total(db.segs, {i \in DOMAIN db.segs : db.segs[i].state = "active"
                                                       /\ Meets(db.segs[i], lo, cut)}, lo, cut),
       blocks |-> Cardinality({b \in DOMAIN db.blocks :
                     /\ db.blocks[b].end > lo /\ db.blocks[b].start < cut
                     /\ BlockActive(db, b, lo, cut) > 0})]

(* stats_hourly_profile: recorded dates without hours count as zero. *)
HourlyProfile(from, to) ==
  LET dates == db.recorded \cap from .. to
  IN  [hours |-> [h \in DayHours |->
                    SumOver(UNION {{u \in HoursOn(d) : LocalHour(u) = h} : d \in dates},
                            LAMBDA u : HourTotal(u, "active")) \div Max({Cardinality(dates), 1})],
       days |-> Cardinality(dates)]

(* stats_work_pace_days: a block that starts in the early hours belongs to *)
(* the date before; every other to the date it starts on.                  *)
OwnerOf(t) ==
  IF ((t + ZoneOffset) % DayTicks) \div HourTicks \in EarlyHours
  THEN DateOf(t) - 1 ELSE DateOf(t)

PaceRows(from, to) ==
  LET lo == DayStart(from)
      hi == DayEnd(to)
      met == {b \in DOMAIN db.blocks : db.blocks[b].end > lo /\ db.blocks[b].start < hi}
      TicksOf(d, b) == {t - DayStart(d) : t \in Max({db.blocks[b].start, DayStart(d), lo})
                                                 .. Min({db.blocks[b].end, hi}) - 1}
  IN  [d \in db.recorded \cap from .. to |->
         UNION {TicksOf(d, b) : b \in {c \in met : OwnerOf(db.blocks[c].start) = d}}
           \cap 0 .. 2 * DayTicks - 1]

(***************************************************************************)
(* The blocks of the page (query.rs).                                      *)
(***************************************************************************)
Plus(rows) == SumOver(DOMAIN rows, LAMBDA i : rows[i].active)

WithData(rows) == {i \in DOMAIN rows : rows[i].hasData}

Live(now) ==
  LET today == DateOf(now)
      current == Cutoff(today, now).active
      recent == Recent(today)
      yesterday == IF today - 1 \in recent THEN {Cutoff(today - 1, now).active} ELSE {}
      days == Cardinality(recent)
      mean == IF days < MinDays THEN {}
              ELSE Average(SumOver(recent, LAMBDA d : Cutoff(d, now).active), days)
  IN  [active |-> current, blocks |-> Cutoff(today, now).blocks,
       yesterday |-> [active |-> yesterday, compared |-> ComparedDirectly(current, yesterday)],
       average |-> [active |-> mean, days |-> days,
                    compared |-> ComparedToAverage(current, mean, days)]]

(* Finished days of this week, and today until now. *)
CurrentWeek(now) ==
  LET today == DateOf(now)
      before == DailyRows(MondayOf(today), today - 1)
      finished == WithData(before)
  IN  [active |-> Plus(before) + Cutoff(today, now).active,
       finished |-> Cardinality(finished),
       recorded |-> Cardinality(finished) + (IF today \in db.recorded THEN 1 ELSE 0),
       mean |-> Average(SumOver(finished, LAMBDA i : before[i].active), Cardinality(finished))]

(* Last week until the same moment of the same day of the week. *)
LastWeekSame(now) ==
  LET monday == MondayOf(DateOf(now)) - WeekDays
      same == DateOf(now) - WeekDays
  IN  IF WithData(DailyRows(monday, monday + WeekDays - 1)) = {} THEN {}
      ELSE {Plus(DailyRows(monday, same - 1)) + Cutoff(same, now).active}

WeekProgress(now) ==
  [active |-> CurrentWeek(now).active, recorded |-> CurrentWeek(now).recorded,
   lastWeek |-> LastWeekSame(now),
   compared |-> ComparedDirectly(CurrentWeek(now).active, LastWeekSame(now))]

Weekly(now) ==
  LET thisMonday == MondayOf(DateOf(now))
      Monday(i) == thisMonday - (Weeks - i) * WeekDays
  IN  [i \in 1 .. Weeks |->
         IF i = Weeks
         THEN [monday |-> thisMonday, active |-> CurrentWeek(now).active, current |-> TRUE,
               mean |-> CurrentWeek(now).mean]
         ELSE [monday |-> Monday(i), current |-> FALSE, mean |-> {},
               active |-> Plus(DailyRows(Monday(i), Monday(i) + WeekDays - 1))]]

(* Mutant: only the range shown is read, not the days before it.           *)
FaultyReadDays(days) == days

(* The days one read covers: enough for the moving average of the first    *)
(* day shown and for both windows of the summary.                          *)
ReadDays(days) == Max({days + AvgDays - 1, 2 * SummaryDays + 1})

Samples(daily, today) ==
  [i \in DOMAIN daily |-> [active |-> daily[i].active, hasData |-> daily[i].hasData,
                           isToday |-> daily[i].date = today]]

TrendPoint(daily, i, today) ==
  LET average == MovingAverage(Samples(daily, today), i)
  IN  [date |-> daily[i].date, active |-> daily[i].active, blocks |-> daily[i].blocks,
       hasData |-> daily[i].hasData, isToday |-> daily[i].date = today,
       avg |-> average.avg, avgDays |-> average.days]

(* The bar of today shows the live numbers. *)
Trend(daily, days, now) ==
  LET today == DateOf(now)
      skipped == Len(daily) - days
      Point(i) == TrendPoint(daily, skipped + i, today)
  IN  [i \in 1 .. days |->
         IF Point(i).isToday
         THEN [Point(i) EXCEPT !.active = Cutoff(today, now).active,
                               !.blocks = Cutoff(today, now).blocks]
         ELSE Point(i)]

Composition(days, today) ==
  LET window == today - days + 1 .. today
      rows == [d \in window |-> [a \in Apps |-> ActiveOn(d, a)]]
      used == UNION {UsedOn(d) : d \in window}
      palette == Palette([a \in used |-> SumOver(window, LAMBDA d : ActiveOn(d, a))])
  IN  IF days = WeekRange THEN WeekBuckets(rows, palette, db.recorded, days, today)
                          ELSE DayBuckets(rows, palette, db.recorded, days, today)

InertiaOf(today) ==
  LET profile == HourlyProfile(today - PaceDays, today - 1)
  IN  Inertia(profile.hours, profile.days)

MonthOf(d) == d \div MonthDays

(* Months of the calendar: today counts in the total, not in the mean.     *)
Monthly(now) ==
  LET today == DateOf(now)
      Month(i) == MonthOf(today) - Months + i
      Finished(m) == {d \in m * MonthDays .. (m + 1) * MonthDays - 1 : d < today}
      Recorded(m) == Finished(m) \cap db.recorded
      Active(S) == SumOver(S, LAMBDA d : DailyRow(d).active)
  IN  [i \in 1 .. Months |->
         [month |-> Month(i), recorded |-> Cardinality(Recorded(Month(i))),
          active |-> Active(Finished(Month(i)))
                       + (IF i = Months THEN Cutoff(today, now).active ELSE 0),
          mean |-> Average(Active(Recorded(Month(i))), Cardinality(Recorded(Month(i))))]]

Milestone ==
  LET dates == Ordered(db.recorded, LAMBDA p, q : p < q)
  IN  [recorded |-> Len(dates), longest |-> LongestRun(dates),
       first |-> IF dates = <<>> THEN {} ELSE {MonthOf(dates[1])}]

Window(daily, from, to) ==
  LET inside == {i \in WithData(daily) : from <= daily[i].date /\ daily[i].date <= to}
  IN  [days |-> Cardinality(inside),
       mean |-> Average(SumOver(inside, LAMBDA i : daily[i].active), Cardinality(inside))]

Summary(daily, today) ==
  LET recent == Window(daily, today - SummaryDays, today - 1)
      prior == Window(daily, today - 2 * SummaryDays, today - SummaryDays - 1)
  IN  SummaryOf(IF recent.days >= MinDays /\ prior.days >= MinDays
                THEN SummaryDirection(recent.mean, prior.mean) ELSE {},
                InertiaOf(today).peak, InertiaOf(today).reliability)

(* stats_get_home *)
Home(days, now) ==
  LET today == DateOf(now)
      daily == DailyRows(today - ReadDays(days) + 1, today)
  IN  [live |-> Live(now), trend |-> Trend(daily, days, now), weekly |-> Weekly(now),
       week |-> WeekProgress(now), composition |-> Composition(days, today),
       inertia |-> InertiaOf(today), pace |-> WorkPace(PaceRows(today - PaceDays, today - 1), PaceDays),
       monthly |-> Monthly(now), milestone |-> Milestone, summary |-> Summary(daily, today)]

(* stats_get_status reads the days of one moving average only. *)
Status(now) ==
  LET today == DateOf(now)
      daily == DailyRows(today - AvgDays + 1, today)
      point == TrendPoint(daily, AvgDays, today)
  IN  [live |-> Live(now), week |-> WeekProgress(now),
       today |-> [point EXCEPT !.active = Cutoff(today, now).active,
                               !.blocks = Cutoff(today, now).blocks, !.avg = {}]]

(***************************************************************************)
(* The Desktop beside the Agent.                                           *)
(***************************************************************************)
Starts(r) ==
  /\ reading = NoReading /\ readings > 0
  /\ reading' = r
  /\ readings' = readings - 1
  /\ UNCHANGED vars

Finishes ==
  /\ reading' = NoReading
  /\ UNCHANGED <<vars, readings>>

OpenTimeline(d) ==
  /\ DOMAIN db.segs # {}
  /\ LET page == TimelinePage(d, {})
     IN  Starts([kind |-> "timeline", date |-> d, began |-> OnDate(d), shown |-> page.items,
                 next |-> page.next])

NextPage ==
  /\ reading.kind = "timeline" /\ reading.next # {}
  /\ LET page == TimelinePage(reading.date, reading.next)
     IN  reading' = [reading EXCEPT !.shown = @ \o page.items, !.next = page.next]
  /\ UNCHANGED <<vars, readings>>

OpenToday ==
  /\ DOMAIN db.segs # {}
  /\ Starts([kind |-> "today", date |-> DateOf(clock.utc), answers |-> <<>>])

(* Mutant: the total is read before the work metrics.                      *)
FaultyNextStep(n) == <<"total", "work", "apps", "current", "last", "dropped">>[n]

NextStep(n) == TodaySteps[n]

NextStatement ==
  /\ reading.kind = "today" /\ Len(reading.answers) < Len(TodaySteps)
  /\ LET step == NextStep(Len(reading.answers) + 1)
     IN  reading' = [reading EXCEPT !.answers =
                      Append(@, [step |-> step, value |-> TodayAnswer(step, reading.date)])]
  /\ UNCHANGED <<vars, readings>>

(* stats_get_home, stats_get_status: the time is fixed, then the snapshot. *)
FixTime ==
  /\ DOMAIN db.segs # {}
  /\ Starts([kind |-> "statistics", now |-> clock.utc])

Answered ==
  \/ reading.kind = "timeline" /\ reading.next = {}
  \/ reading.kind = "today" /\ Len(reading.answers) = Len(TodaySteps)
  \/ reading.kind = "statistics"

Close == Answered /\ Finishes

ReaderNext ==
  \/ \E d \in Dates : OpenTimeline(d)
  \/ NextPage
  \/ OpenToday
  \/ NextStatement
  \/ FixTime
  \/ Close

ReadInit == Init /\ reading = NoReading /\ readings = MaxReadings

ReadNext ==
  \/ Next /\ UNCHANGED readVars
  \/ ReaderNext

ReadSpec == ReadInit /\ [][ReadNext]_<<vars, readVars>>

(***************************************************************************)
(* Properties.                                                             *)
(***************************************************************************)
(* Rows are inserted, closed and extended between two pages.  A user who   *)
(* turns the pages sees no row twice, and sees every row that was on the   *)
(* date when the reading began and still is, as far as the cursor has got  *)
(* (reader.rs:268, keyset pagination).                                     *)
TimelineComplete ==
  reading.kind = "timeline" =>
    LET shown == reading.shown
    IN  /\ IsInjective(shown)
        /\ \A k \in reading.began \cap OnDate(reading.date) :
             \/ k \in {shown[i] : i \in DOMAIN shown}
             \/ \E c \in reading.next : c[1] < k[1] \/ (c[1] = k[1] /\ (c[2] < k[2]
                                           \/ (c[2] = k[2] /\ c[3] < k[3])))

(* The statements of Today see different states of the database.  In the   *)
(* order the code asks them the longest Work Block is never longer than    *)
(* the day's total, nor the total more than its applications (reader.rs:   *)
(* 46-116).                                                                *)
AnswerTo(step) ==
  {reading.answers[i].value : i \in {j \in DOMAIN reading.answers : reading.answers[j].step = step}}

TodayAddsUp ==
  reading.kind = "today" =>
    \A total \in AnswerTo("total") :
      /\ \A work \in AnswerTo("work") : work.longest <= total
      /\ \A apps \in AnswerTo("apps") : total <= SumOver(DOMAIN apps, LAMBDA a : apps[a])

Asked == reading.kind = "statistics"

(* The clock was never set back behind a segment. *)
InSequence(segs) == \A i, j \in DOMAIN segs : i < j => segs[i].end <= segs[j].start

(* The live numbers come from segments and blocks, the bars from the       *)
(* Writer's projections: for a day that is over at the moment they agree,  *)
(* and for no day are the live numbers the greater ones (reader.rs:768,    *)
(* recompute.rs:79-125, query.rs:188).  The time agrees whatever the clock *)
(* did; the Work Blocks do unless the clock was set back: then a block may *)
(* come to hold an older segment of a day in its middle on which it counts *)
(* nothing itself, and that day is not rebuilt (activity.rs:790).          *)
LiveMatchesProjection ==
  Asked =>
    \A d \in {e \in Dates : e <= DateOf(reading.now)} :
      LET live == Cutoff(d, reading.now)
          cut == SameMoment(d, reading.now)
          later == {i \in DOMAIN db.segs : db.segs[i].end > cut}
      IN  /\ live.active <= DailyRow(d).active
          /\ later = {} => live.active = DailyRow(d).active
          /\ InSequence(db.segs) => /\ live.blocks <= DailyRow(d).blocks
                                    /\ later = {} => live.blocks = DailyRow(d).blocks

(* The parts of the page are computed along different paths from different *)
(* tables and tell one story: the poll shows today as the page does, the   *)
(* buckets and, in a zone of whole hours, the heat map hold all the time   *)
(* of the bars, this week is the same in its bar and in its progress, and  *)
(* the range the user picks changes how much is shown and nothing that is  *)
(* shown (query.rs:165, 176, doc 10 sections 4 and 5.3).                   *)
ViewsAgree ==
  Asked =>
    LET now == reading.now
        today == DateOf(now)
    IN  \A days \in Ranges :
          LET home == Home(days, now)
              status == Status(now)
              Of(bucket) == bucket.others + SumOver(DOMAIN bucket.apps, LAMBDA a : bucket.apps[a])
          IN  /\ home.trend[days] = status.today
              /\ home.live = status.live /\ home.week = status.week
              /\ home.weekly[Weeks].active = home.week.active
              /\ \A i \in DOMAIN home.composition :
                   LET bucket == home.composition[i]
                   IN  Of(bucket) = SumOver(bucket.from .. bucket.to, LAMBDA d : DailyRow(d).active)
              /\ ZoneOffset % HourTicks = 0 =>
                   SumOver(DOMAIN home.composition, LAMBDA i : Of(home.composition[i]))
                     = SumOver(Heatmap(today, days, 0), LAMBDA cell : cell.active)
              /\ \A many \in {r \in Ranges : r > days} :
                   LET long == Home(many, now)
                   IN  /\ home.summary = long.summary
                       /\ \A i \in 1 .. days : home.trend[i] = long.trend[many - days + i]

(* The spell of work holds the busiest hour and no slack hour, and slack   *)
(* hours lie around it, across midnight too; a day without a slack hour    *)
(* has no such spell (stats.rs:265, doc 10 section 4.4).                   *)
SpellAroundPeak ==
  Asked =>
    LET today == DateOf(reading.now)
        profile == HourlyProfile(today - PaceDays, today - 1).hours
        spell == InertiaOf(today)
        Slack(h) == profile[h] * 100 < Max({profile[g] : g \in DayHours}) * 30
        Arc(from, to) == {h \in DayHours : Clock(h - from) <= Clock(to - from)}
    IN  \A from \in spell.start, to \in spell.end, peak \in spell.peak :
          IF \E h \in DayHours : Slack(h)
          THEN /\ peak \in Arc(from, to) /\ \A h \in Arc(from, to) : ~ Slack(h)
               /\ Slack(Clock(from - 1)) /\ Slack(Clock(to + 1))
          ELSE from = peak /\ to = peak
=============================================================================
