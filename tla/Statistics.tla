------------------------------ MODULE Statistics ------------------------------
(***************************************************************************)
(* The arithmetic of the statistics page (wuji-core stats.rs and the       *)
(* Desktop's stats_assembly.rs), free of database and clock: comparisons,  *)
(* averages, the daily spell of work, the pace of work, runs of days, and  *)
(* the share of each application.  Dates are day numbers.  Numbers of days *)
(* the code fixes are constants here, so that small instances have several *)
(* weeks.  An optional value is a set with at most one element.            *)
(***************************************************************************)
EXTENDS Projections, SequencesExt

CONSTANTS
  AppId,         \* app_id, the order of the applications
  TopSlots,      \* 3: applications with a slot of their own
  AvgDays,       \* 7: days of a moving average
  MinDays,       \* 3: days below which nothing is derived
  FullDays,      \* 7: days from which on a derivation is reliable
  LunchHours,    \* 12, 13, 14
  MorningTicks,  \* 8:00 to 12:00, as ticks of the day
  WeekDays       \* 7

ASSUME StatisticsConstants ==
  /\ IsFiniteSet(Apps) /\ AppId \in [Apps -> Nat] /\ IsInjective(AppId)
  /\ {TopSlots, AvgDays, MinDays, FullDays, WeekDays} \subseteq Nat \ {0}
  /\ DayTicks % HourTicks = 0
  /\ LunchHours \subseteq 1 .. (DayTicks \div HourTicks) - 2
  /\ MorningTicks \subseteq 0 .. DayTicks - 1

DayHours == 0 .. (DayTicks \div HourTicks) - 1

SumOver(S, Of(_)) == MapThenSumSet(Of, S)

(* The elements of a finite set in ascending order. *)
Ordered(S, Less(_, _)) ==
  [i \in 1 .. Cardinality(S) |->
     CHOOSE x \in S : Cardinality({y \in S : Less(y, x)}) = i - 1]

Average(sum, n) == IF n = 0 THEN {} ELSE {sum \div n}

(***************************************************************************)
(* Comparisons.                                                            *)
(***************************************************************************)
(* Rounded half away from zero.  The code clamps the result to 32 bits.    *)
RoundedPercent(current, base) ==
  LET scaled == (current - base) * 100
      half == base \div 2
  IN  IF scaled >= 0 THEN (scaled + half) \div base ELSE -((half - scaled) \div base)

(* More than p percent of base, exactly. *)
Exceeds(amount, base, p) == amount * 100 > base * p

Against(current, base) ==
  CASE base = 0 /\ current = 0 -> [direction |-> "stable", percent |-> {0}, reason |-> {}]
    [] base = 0 /\ current # 0 -> [direction |-> "up_from_zero", percent |-> {}, reason |-> {}]
    [] base # 0 ->
         [direction |-> IF Exceeds(current - base, base, 5) THEN "up"
                        ELSE IF Exceeds(base - current, base, 5) THEN "down" ELSE "stable",
          percent |-> {RoundedPercent(current, base)}, reason |-> {}]

Unavailable(reason) == [direction |-> "unavailable", percent |-> {}, reason |-> {reason}]

(* DirectBaseline, and HistoricalAverage with its least number of samples. *)
ComparedDirectly(current, baseline) ==
  IF baseline = {} THEN Unavailable("no_data")
  ELSE Against(current, CHOOSE b \in baseline : TRUE)

ComparedToAverage(current, baseline, samples) ==
  IF samples < MinDays \/ baseline = {} THEN Unavailable("insufficient_samples")
  ELSE Against(current, CHOOSE b \in baseline : TRUE)

SummaryDirection(recent, prior) ==
  {CASE p = 0 /\ r = 0 -> "flat"
     [] p = 0 /\ r # 0 -> "up"
     [] p # 0 /\ Exceeds(r - p, p, 10) -> "up"
     [] p # 0 /\ Exceeds(r - p, p, 5) /\ ~ Exceeds(r - p, p, 10) -> "up_slight"
     [] p # 0 /\ Exceeds(p - r, p, 10) -> "down"
     [] p # 0 /\ Exceeds(p - r, p, 5) /\ ~ Exceeds(p - r, p, 10) -> "down_slight"
     [] OTHER -> "flat" : r \in recent, p \in prior}

(* The quarter of the day an hour lies in. *)
PeriodOf(hour) ==
  <<"night", "morning", "afternoon", "evening">>[(hour * 4) \div Cardinality(DayHours) + 1]

SummaryOf(direction, peak, reliability) ==
  [direction |-> direction,
   period |-> IF reliability = {} THEN {} ELSE {PeriodOf(h) : h \in peak}]

(***************************************************************************)
(* Averages.                                                               *)
(***************************************************************************)
(* The moving average at point i of a sequence of days without holes: over *)
(* the finished days with data among the last AvgDays.                     *)
MovingAverage(points, i) ==
  LET window == {j \in DOMAIN points : i - AvgDays < j /\ j <= i}
      counted == {j \in window : points[j].hasData /\ ~ points[j].isToday}
      days == Cardinality(counted)
  IN  [days |-> days,
       avg |-> IF points[i].isToday \/ days < MinDays THEN {}
               ELSE Average(SumOver(counted, LAMBDA j : points[j].active), days)]

Reliability(days) ==
  IF days < MinDays THEN {} ELSE IF days < FullDays THEN {"preliminary"} ELSE {"normal"}

(***************************************************************************)
(* derive_inertia: the busiest hour and the spell of work around it.  From *)
(* the peak it walks to the nearest hour below 30 percent of it, backwards *)
(* and forwards around the clock.                                          *)
(***************************************************************************)
Clock(h) == h % Cardinality(DayHours)

NoInertia(reliability) ==
  [start |-> {}, peak |-> {}, end |-> {}, lunch |-> {}, reliability |-> reliability]

LunchLow(profile) ==
  LET low == Min({profile[h] : h \in LunchHours})
      before == profile[Min(LunchHours) - 1]
      after == profile[Max(LunchHours) + 1]
  IN  IF before > 0 /\ low * 2 < before + after
      THEN {Min({h \in LunchHours : profile[h] = low})} ELSE {}

(* Mutant: the walk back ends at midnight. *)
FaultyHoursBack(peak, breaks) == Min({k \in 0 .. peak + 1 : peak - k \in breaks \cup {-1}})

HoursBack(peak, breaks) ==
  Min({k \in 0 .. Cardinality(DayHours) : Clock(peak - k) \in breaks})

HoursAhead(peak, breaks) ==
  Min({k \in 0 .. Cardinality(DayHours) : Clock(peak + k) \in breaks})

Inertia(profile, days) ==
  LET most == Max({profile[h] : h \in DayHours})
      peak == Min({h \in DayHours : profile[h] = most})
      breaks == {h \in DayHours : profile[h] * 100 < most * 30}
  IN  IF days < MinDays \/ most = 0 THEN NoInertia(Reliability(days))
      ELSE [start |-> {IF breaks = {} THEN peak ELSE Clock(peak - HoursBack(peak, breaks) + 1)},
            peak |-> {peak},
            end |-> {IF breaks = {} THEN peak ELSE Clock(peak + HoursAhead(peak, breaks) - 1)},
            lunch |-> IF LunchHours = {} THEN {} ELSE LunchLow(profile),
            reliability |-> Reliability(days)]

(***************************************************************************)
(* derive_work_pace: days is a function from dates to the ticks covered by *)
(* Work Blocks, counted from the start of the date.  A night's work runs   *)
(* past the end of the day and counts as the early hours of the clock.     *)
(***************************************************************************)
UpperMedian(values) == values[(Len(values) \div 2) + 1]

Sorted(days, Of(_)) ==
  LET order == Ordered({<<Of(d), d>> : d \in days},
                            LAMBDA p, q : p[1] < q[1] \/ (p[1] = q[1] /\ p[2] < q[2]))
  IN  [i \in DOMAIN order |-> order[i][1]]

OnTheClock(ticks) == {t % DayTicks : t \in ticks}

WorkPace(days, total) ==
  LET n == Cardinality(DOMAIN days)
      OwnDay(d) == {t \in days[d] : t < DayTicks}
      Begins(d) == Min(OwnDay(d))
      Finishes(d) == Max(OwnDay(d)) + 1
      worked == {d \in DOMAIN days : OwnDay(d) # {}}
      mean == SumOver(DOMAIN days, LAMBDA d : Cardinality(days[d])) \div Max({n, 1})
      InHour(d, h) == {t \in OnTheClock(days[d]) : t \div HourTicks = h}
  IN  [hourly |-> [h \in DayHours |->
          SumOver(DOMAIN days, LAMBDA d : Cardinality(InHour(d, h))) \div Max({n, 1})],
       ratio |-> (mean * 100 + DayTicks \div 2) \div DayTicks,
       start |-> IF worked = {} THEN {} ELSE {UpperMedian(Sorted(worked, Begins))},
       end |-> IF worked = {} THEN {} ELSE {UpperMedian(Sorted(worked, Finishes))},
       mornings |-> Cardinality({d \in DOMAIN days : OnTheClock(days[d]) \cap MorningTicks # {}}),
       days |-> n, total |-> total, reliability |-> Reliability(n)]

(***************************************************************************)
(* longest_consecutive, over dates in ascending order.                     *)
(***************************************************************************)
LongestRun(dates) ==
  LET Longer(acc, d) ==
        LET run == IF d - 1 \in acc.prev THEN acc.run + 1 ELSE 1
        IN  [run |-> run, best |-> Max({acc.best, run}), prev |-> {d}]
  IN  FoldLeft(Longer, [run |-> 0, best |-> 0, prev |-> {}], dates).best

(***************************************************************************)
(* The share of the applications.  rows is the active time of each         *)
(* application on each date, total its sum over the range shown.           *)
(***************************************************************************)
(* allocate_slots, in the order of stats_app_totals. *)
Palette(total) ==
  LET Before(a, b) == total[a] > total[b] \/ (total[a] = total[b] /\ AppId[a] < AppId[b])
      order == Ordered(DOMAIN total, Before)
  IN  SubSeq(order, 1, Min({TopSlots, Len(order)}))

(* bucket_apps and bucket_apps_aggregate. *)
Bucket(rows, from, to, palette, recorded, today) ==
  LET Of(a) == SumOver(from .. to, LAMBDA d : rows[d][a])
      slots == {palette[i] : i \in DOMAIN palette}
  IN  [from |-> from, to |-> to,
       apps |-> [a \in {b \in slots : Of(b) > 0} |-> Of(a)],
       others |-> SumOver(Apps \ slots, Of),
       hasData |-> \E d \in from .. to : d \in recorded,
       current |-> from <= today /\ today <= to]

MondayOf(d) == d - (d % WeekDays)

(* bucketize_days and bucketize_weeks: every day of the range, or every    *)
(* week that meets it, cut to the range.                                   *)
DayBuckets(rows, palette, recorded, days, today) ==
  [i \in 1 .. days |->
     LET d == today - days + i IN Bucket(rows, d, d, palette, recorded, today)]

(* Mutant: the week the range begins in is left out. *)
FaultyFirstMonday(start) == MondayOf(start + WeekDays - 1)

FirstMonday(start) == MondayOf(start)

WeekBuckets(rows, palette, recorded, days, today) ==
  LET start == today - days + 1
      mondays == {d \in FirstMonday(start) .. today : MondayOf(d) = d}
      order == Ordered(mondays, LAMBDA p, q : p < q)
  IN  [i \in DOMAIN order |->
         Bucket(rows, Max({order[i], start}), Min({order[i] + WeekDays - 1, today}),
                palette, recorded, today)]
=============================================================================
