---------------------------- MODULE SliMaintenance ----------------------------
(***************************************************************************)
(* Maintenance periods as windows (sli/maintenance.ts, with the zone of    *)
(* sli/time.ts).  The calendar is a small one with the same rules: days of *)
(* DaySeconds seconds, WeekDays weekdays, months of MonthDays days, Months  *)
(* of them a year.  The zone is Offset seconds east, all year, as HCML's   *)
(* is; bit masks are sets.                                                 *)
(***************************************************************************)
EXTENDS Intervals

CONSTANTS
  DaySeconds, WeekDays, MonthDays, Months, Offset,
  Periods,       \* the timeperiods asked about
  Bounds,        \* pairs <<active_since, active_till>>
  Ranges         \* pairs <<from, to>>

\* What Zabbix takes for a timeperiod: one that recurs starts within its day.
\* An `every' of days or weeks is Math.max(1, every).
TimePeriod(tp) ==
  /\ tp.type \in {"once", "daily", "weekly", "monthly"}
  /\ tp.start \in Int /\ tp.period \in Int /\ tp.every \in Int /\ tp.day \in Int
  /\ tp.type # "once" => tp.start \in 0..DaySeconds - 1
  /\ tp.type \in {"daily", "weekly"} => tp.every >= 1

ASSUME MaintenanceAssumption ==
  /\ DaySeconds \in Nat \ {0} /\ WeekDays \in Nat \ {0}
  /\ MonthDays \in Nat \ {0} /\ Months \in Nat \ {0}
  /\ Offset \in Int /\ 0 <= DaySeconds + Offset /\ Offset <= DaySeconds
  /\ \A tp \in Periods : TimePeriod(tp)
  /\ Bounds \subseteq Int \X Int /\ Ranges \subseteq Int \X Int

VARIABLES maintenance, windowsFound
maintenanceVars == <<maintenance, windowsFound>>

\* zonedDate as a day number, and zonedDayStart.
DayOf(t) == (t + Offset) \div DaySeconds
DayStart(n) == n * DaySeconds - Offset

\* dateOf: day 0 is the first of a month and weekday 0.
Weekday(n) == n % WeekDays
DayOfMonth(n) == (n % MonthDays) + 1
MonthOf(n) == ((n \div MonthDays) % Months) + 1

WeekOfMonth(n) == (DayOfMonth(n) + WeekDays - 1) \div WeekDays
LastWeek == 5

\* startsOn
StartsOn(tp, n, sinceDay) ==
  CASE tp.type = "daily" -> n >= sinceDay /\ (n - sinceDay) % tp.every = 0
    [] tp.type = "weekly" ->
         LET sinceMonday == sinceDay - Weekday(sinceDay) IN
         /\ Weekday(n) \in tp.weekdays
         /\ n >= sinceMonday
         /\ ((n - sinceMonday) \div WeekDays) % tp.every = 0
    [] tp.type = "monthly" ->
         /\ MonthOf(n) \in tp.months
         /\ IF tp.day > 0 THEN DayOfMonth(n) = tp.day
            ELSE /\ Weekday(n) \in tp.weekdays
                 /\ IF tp.every = LastWeek THEN DayOfMonth(n) + WeekDays > MonthDays
                    ELSE WeekOfMonth(n) = tp.every
    [] OTHER -> FALSE

\* The first day looked at.
\*
\* Fault: the day the range begins.
FirstDay_OfRange(lo, tp) == DayOf(lo)

FirstDay(lo, tp) == DayOf(lo - tp.period)

\* One timeperiod's turn of maintenanceWindows.
SpanFrom(tp, start) == <<start, start + tp.period>>

Recurring(tp, since, lo, hi) ==
  LET first == FirstDay(lo, tp)
      days == 1..Greater(0, DayOf(hi) - first + 1)
  IN KeptEntries([k \in days |-> SpanFrom(tp, DayStart(first + k - 1) + tp.start)],
                 {k \in days : StartsOn(tp, first + k - 1, DayOf(since))})

PeriodSpans(tp, since, lo, hi) ==
  IF tp.period <= 0 THEN <<>>
  ELSE IF tp.type = "once" THEN <<SpanFrom(tp, tp.start)>>
  ELSE Recurring(tp, since, lo, hi)

\* maintenanceWindows
WindowsOf(m, from, to) ==
  LET lo == Greater(from, m.since)
      hi == Lesser(to, m.till)
      spans == [k \in 1..Len(m.periods) |-> PeriodSpans(m.periods[k], m.since, lo, hi)]
  IN IF hi <= lo THEN <<>> ELSE Merged(Clipped(FlattenSeq(spans), lo, hi))

Unknown == <<<<0, 0>>>>

MaintenanceInit ==
  /\ windowsFound = Unknown
  /\ \E a, b \in Periods, bounds \in Bounds, range \in Ranges :
       maintenance = [periods |-> <<a, b>>, since |-> bounds[1], till |-> bounds[2],
                      from |-> range[1], to |-> range[2]]

FindWindows ==
  /\ windowsFound = Unknown
  /\ windowsFound' = WindowsOf(maintenance, maintenance.from, maintenance.to)
  /\ UNCHANGED maintenance

MaintenanceSpec == MaintenanceInit /\ [][FindWindows]_maintenanceVars

-----------------------------------------------------------------------------
\* Whether day n is the k-th of its weekday in its month, or the last: by
\* counting them.
SameWeekday(n) == {d \in n - DayOfMonth(n) + 1..n - DayOfMonth(n) + MonthDays : Weekday(d) = Weekday(n)}
IsWeek(n, k) ==
  IF k = LastWeek THEN \A d \in SameWeekday(n) : d <= n
  ELSE Cardinality({d \in SameWeekday(n) : d <= n}) = k

Occurs(tp, n, since) ==
  CASE tp.type = "daily" -> \E k \in 0..n - since : n = since + k * tp.every
    [] tp.type = "weekly" ->
         /\ Weekday(n) \in tp.weekdays
         /\ \E k \in 0..Greater(0, n - since + WeekDays) :
              n - Weekday(n) = since - Weekday(since) + k * tp.every * WeekDays
    [] tp.type = "monthly" ->
         MonthOf(n) \in tp.months /\
         IF tp.day > 0 THEN DayOfMonth(n) = tp.day
         ELSE Weekday(n) \in tp.weekdays /\ IsWeek(n, tp.every)

InPeriod(tp, s, since) ==
  IF tp.type = "once" THEN s - tp.start \in 0..tp.period - 1
  ELSE \E n \in DayOf(s) - DayOf(tp.start + tp.period) - 2..DayOf(s) + 1 :
         Occurs(tp, n, DayOf(since)) /\ s - (DayStart(n) + tp.start) \in 0..tp.period - 1

\* The windows hold exactly the seconds of the range in which the maintenance
\* is active and one of its periods runs, those that began on an earlier day
\* and those over midnight included, in order and apart (maintenance.ts:9-11).
WindowsExact ==
  windowsFound # Unknown =>
    /\ Seconds(windowsFound) =
         {s \in maintenance.from..maintenance.to - 1 :
            /\ s \in maintenance.since..maintenance.till - 1
            /\ \E k \in 1..Len(maintenance.periods) :
                 InPeriod(maintenance.periods[k], s, maintenance.since)}
    /\ \A k \in 1..Len(windowsFound) - 1 : windowsFound[k][2] < windowsFound[k + 1][1]
=============================================================================
