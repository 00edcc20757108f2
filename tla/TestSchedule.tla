------------------------------ MODULE TestSchedule ------------------------------
(***************************************************************************)
(* A scheduled test of the load testing API, from the request to its last  *)
(* run: scheduleTest's step "create" promises a next run and makes a       *)
(* one-time schedule for it; that one fires a minute early, and step       *)
(* "start" turns the request into a schedule of EventBridge, which from    *)
(* then on starts the runs.  Each run shows the next one.  The next run is *)
(* found by cron-parser, on the user's Linux cron expression; the runs by  *)
(* EventBridge, on the expression the API makes of it.  Dates are days,    *)
(* and each has the hours of the expression, which both readers read alike.*)
(***************************************************************************)
EXTENDS Integers, Sequences, FiniteSets, FiniteSetsExt, PollInterval

CONSTANTS
  MonthLengths,   \* of the months the model looks at
  NewYear,        \* the month of them that begins a year
  Requests        \* what users ask for

VARIABLES
  firstWeekday,   \* weekday of day 1; 0 is Sunday
  today,
  request,        \* the request, once it is accepted
  state,          \* of the schedule: none, pending, installed, lost
  schedule,       \* EventBridge's schedule, made by step "start"
  nextRun,        \* the day shown as the scenario's next run; 0 is none
  lastRun,        \* the day of the last run; 0 is none
  since           \* the hour of the last run; before it, that of the request

vars == <<firstWeekday, today, request, state, schedule, nextRun, lastRun, since>>

ASSUME CalendarAssumption ==
  /\ MonthLengths \in Seq(28..31)
  /\ NewYear \in 1..Len(MonthLengths)

(***************************************************************************)
(* The calendar.                                                           *)
(***************************************************************************)

FirstDay[m \in 1..(Len(MonthLengths) + 1)] ==
  IF m = 1 THEN 1 ELSE FirstDay[m - 1] + MonthLengths[m - 1]

Horizon == FirstDay[Len(MonthLengths) + 1] - 1
Days == 1..Horizon

MonthOf(day) == CHOOSE m \in 1..Len(MonthLengths) : FirstDay[m] <= day /\ day < FirstDay[m + 1]
DayOfMonth(day) == day - FirstDay[MonthOf(day)] + 1
YearOf(day) == IF MonthOf(day) < NewYear THEN 1 ELSE 2
Weekday(day) == (firstWeekday + day - 1) % 7

\* Hours are counted through the days.
At(day, hour) == 24 * day + hour

\* Day is the n-th of its weekday in the month, or the last one.
Ordinal(day) == (DayOfMonth(day) - 1) \div 7 + 1
IsLastOfMonth(day) == DayOfMonth(day) + 7 > MonthLengths[MonthOf(day)]

(***************************************************************************)
(* The two day fields of a cron expression: "*", "?", a list or range of   *)
(* values, and for weekdays w#n and wL.                                    *)
(***************************************************************************)

All == [kind |-> "all"]
Any == [kind |-> "any"]
On(values) == [kind |-> "on", values |-> values]
Nth(w, n) == [kind |-> "nth", weekday |-> w, n |-> n]
Last(w) == [kind |-> "last", weekday |-> w]

IsWild(field) == field.kind \in {"all", "any"}

\* sunday is the number the expression's reader gives to Sunday.
WeekdayMatches(field, day, sunday) ==
  LET w == Weekday(day) + sunday
  IN  \/ IsWild(field)
      \/ field.kind = "on" /\ w \in field.values
      \/ field.kind = "nth" /\ w = field.weekday /\ Ordinal(day) = field.n
      \/ field.kind = "last" /\ w = field.weekday /\ IsLastOfMonth(day)

MonthDayMatches(field, day) == field.kind = "on" => DayOfMonth(day) \in field.values

\* cron-parser on the expression formatCronValidationExpression hands it: a
\* restricted day field alone decides, of two either does.
CronMatches(r, day) ==
  IF IsWild(r.dom) \/ IsWild(r.dow)
    THEN MonthDayMatches(r.dom, day) /\ WeekdayMatches(r.dow, day, 0)
    ELSE MonthDayMatches(r.dom, day) \/ WeekdayMatches(r.dow, day, 0)

\* The days a cron expression gives up to its expiry date.
CronDays(r) == {d \in Days : CronMatches(r, d) /\ (r.expiry = 0 \/ d <= r.expiry)}

\* The next of them; beyond the months looked at, the day after them.
CronNextDay(r, day) ==
  LET later == {d \in CronDays(r) : d > day}
  IN  IF later # {} THEN Min(later) ELSE IF r.expiry = 0 THEN Horizon + 1 ELSE 0

\* Every one of them has the expression's hours; the next date may be today's.
Dates(r) == {At(d, h) : d \in CronDays(r), h \in r.hours}

CronNextRun(r, day, hour) ==
  IF day \in CronDays(r) /\ \E h \in r.hours : h > hour THEN day ELSE CronNextDay(r, day)

(***************************************************************************)
(* convertLinuxCronToAwsCron and getScheduleString.                        *)
(***************************************************************************)

AwsWeekdayUnshifted(w) == w

AwsWeekday(w) == IF w \in {0, 7} THEN 1 ELSE w + 1

\* The number after "#" keeps its value; in "wL" no digit stands alone.
ShiftWeekdaysAfterHash(field) ==
  CASE field.kind = "on" -> On({AwsWeekday(w) : w \in field.values})
    [] field.kind = "nth" -> Nth(AwsWeekday(field.weekday), AwsWeekday(field.n))
    [] OTHER -> field

ShiftWeekdays(field) ==
  CASE field.kind = "on" -> On({AwsWeekday(w) : w \in field.values})
    [] field.kind = "nth" -> Nth(AwsWeekday(field.weekday), field.n)
    [] OTHER -> field

AwsDayOfMonth(dom, dow) == IF dom = All /\ dow # All THEN Any ELSE dom
AwsDayOfWeek(dom, dow) == IF dow = All \/ dom # All THEN Any ELSE ShiftWeekdays(dow)

\* The year field: this year, or up to the year of the expiry date.
LastYearThisYear(r) == YearOf(today)

LastYear(r) ==
  IF r.expiry # 0 /\ YearOf(r.expiry) > YearOf(today) THEN YearOf(r.expiry) ELSE YearOf(today)

EndDateNever(r) == Horizon

EndDate(r) == IF r.expiry = 0 THEN Horizon ELSE r.expiry

RatePeriod == [daily |-> 1, weekly |-> 7, biweekly |-> 14]

\* EventBridge has no schedule.
NoSchedule == [kind |-> "none"]

Cron(dom, dow, years, end) ==
  [kind |-> "cron", dom |-> dom, dow |-> dow, years |-> years, end |-> end]

GetSchedule(r) ==
  CASE r.recurrence = "cron" ->
         Cron(AwsDayOfMonth(r.dom, r.dow), AwsDayOfWeek(r.dom, r.dow),
              YearOf(today)..LastYear(r), EndDate(r))
    [] r.recurrence = "monthly" -> Cron(On({DayOfMonth(r.first)}), Any, 1..2, Horizon)
    [] r.recurrence = "once" -> [kind |-> "date", day |-> r.first]
    [] OTHER -> [kind |-> "rate", period |-> RatePeriod[r.recurrence], from |-> today]

\* EventBridge wants exactly one day field to be "?".
AwsAccepts(s) == s.kind = "cron" => (s.dom = Any) # (s.dow = Any)

AwsFires(s, day) ==
  CASE s.kind = "cron" ->
         /\ YearOf(day) \in s.years /\ day <= s.end
         /\ MonthDayMatches(s.dom, day) /\ WeekdayMatches(s.dow, day, 1)
    [] s.kind = "date" -> day = s.day
    [] s.kind = "rate" -> (day - s.from) % s.period = 0

(***************************************************************************)
(* The request.                                                            *)
(***************************************************************************)

\* What checkEnoughIntervalDiff allows for a run: twice the time the tasks
\* take to come up, and the test.
EstimatedDuration(r) == 2 * ((3 * CeilDiv(r.taskCount, 10)) \div 2 + 600) + r.duration

SecondsPerHour == 3600

\* The dates are far enough from each other.
FarApart(r, dates) ==
  \A d \in dates, e \in dates : d < e => (e - d) * SecondsPerHour >= EstimatedDuration(r)

FirstDates(n, dates) == {d \in dates : Cardinality({e \in dates : e <= d}) <= n}

\* Only the first two dates after the request are compared.
EnoughIntervalAtFirst(r) ==
  r.noRampUp
    \/ FarApart(r, FirstDates(2, {t \in Dates(r) : t > At(today, r.madeAt)}))

\* The first ten are; none are when the ramp-up is left out or the number 0.
EnoughInterval(r) ==
  r.noRampUp
    \/ FarApart(r, FirstDates(10, {t \in Dates(r) : t > At(today, r.madeAt)}))

Init ==
  /\ firstWeekday \in 0..6
  /\ today = 1
  /\ request \in Requests
  /\ state = "none" /\ schedule = NoSchedule
  /\ nextRun = 0 /\ lastRun = 0 /\ since = 0

\* scheduleTest, step "create".
Create ==
  /\ state = "none"
  /\ IF request.recurrence = "cron"
       THEN /\ EnoughInterval(request)
            /\ CronNextRun(request, today, request.madeAt) # 0
            /\ nextRun' = CronNextRun(request, today, request.madeAt)
       ELSE request.first > today /\ nextRun' = request.first
  /\ state' = "pending"
  /\ since' = At(today, request.madeAt)
  /\ UNCHANGED <<firstWeekday, today, request, schedule, lastRun>>

\* scheduleTest, step "start", a minute before the first run.  The one-time
\* schedule that called it is gone whether it succeeds or not.
DueToStart == state = "pending" /\ today = nextRun

Start ==
  /\ DueToStart
  /\ IF AwsAccepts(GetSchedule(request))
       THEN schedule' = GetSchedule(request) /\ state' = "installed"
       ELSE state' = "lost" /\ UNCHANGED schedule
  /\ UNCHANGED <<firstWeekday, today, request, nextRun, lastRun, since>>

\* Of getEbSchedTestStartTime: the cron's last date up to now, or today.
StartDate ==
  IF request.recurrence = "cron" /\ \E d \in CronDays(request) : d <= today
    THEN Max({d \in CronDays(request) : d <= today}) ELSE today

\* setMonth(month + 1) on a day the next month has not goes on counting.
SetNextRun(hour) ==
  CASE request.recurrence = "cron" -> CronNextRun(request, today, hour)
    [] request.recurrence = "monthly" ->
         FirstDay[MonthOf(StartDate) + 1] + DayOfMonth(StartDate) - 1
    [] request.recurrence = "once" -> 0
    [] OTHER -> StartDate + RatePeriod[request.recurrence]

\* The hours of the day at which the schedule has yet to call createTest.
HoursLeft == {h \in request.hours : At(today, h) > since}

DueToFire == state = "installed" /\ HoursLeft # {} /\ AwsFires(schedule, today)

Fire ==
  /\ DueToFire
  /\ lastRun' = today /\ since' = At(today, Min(HoursLeft))
  /\ nextRun' = IF nextRun # 0 /\ StartDate < nextRun THEN nextRun
                                                       ELSE SetNextRun(Min(HoursLeft))
  /\ UNCHANGED <<firstWeekday, today, request, state, schedule>>

\* EventBridge is punctual.
NextDay ==
  /\ today < Horizon
  /\ ~DueToStart /\ ~DueToFire
  /\ today' = today + 1
  /\ UNCHANGED <<firstWeekday, request, state, schedule, nextRun, lastRun, since>>

Next == Create \/ Start \/ Fire \/ NextDay

Spec == Init /\ [][Next]_vars

(***************************************************************************)
(* Properties.                                                             *)
(***************************************************************************)

AwsWeekdayFields ==
  {Any, All} \cup {On(v) : v \in SUBSET (1..7)} \cup {Nth(w, n) : w \in 1..7, n \in 1..5}

\* Every variable keeps its type; a cron schedule of EventBridge has weekdays
\* from 1 to 7 only.
TypeOK ==
  /\ firstWeekday \in 0..6
  /\ today \in Days
  /\ request \in Requests
  /\ state \in {"none", "pending", "installed", "lost"}
  /\ (state = "installed") = (schedule # NoSchedule)
  /\ schedule.kind = "cron" => schedule.dow \in AwsWeekdayFields
  /\ nextRun \in Nat /\ lastRun \in {0} \cup Days /\ since \in Nat

\* A run that was shown to the user as the next one takes place: its day does
\* not pass without it.  cron-parser and EventBridge agree on every day.
NoPromiseIsMissed == nextRun # 0 => today <= nextRun

\* EventBridge starts a run on no other day than the one shown.
FiringsArePromised == [][state = "installed" /\ since' # since => today = nextRun]_vars

\* The ten dates that are compared hold a week of the expression.
WeekIsCompared(r) ==
  /\ r.recurrence = "cron" /\ ~ r.noRampUp /\ r.dom = All
  /\ \E weekdays \in SUBSET (0..6) :
       /\ r.dow = On(weekdays) \/ (r.dow = All /\ weekdays = 0..6)
       /\ Cardinality(weekdays) * Cardinality(r.hours) <= 9

\* Two runs of a schedule that was compared are far enough from each other for
\* the first one to end, long after the dates that were looked at.
RunsDoNotOverlap ==
  [][WeekIsCompared(request) /\ lastRun # 0 /\ since' # since
       => (since' - since) * SecondsPerHour >= EstimatedDuration(request)]_vars

\* The poll loop of a run that is started never exhausts its history.
PollsFitTheHistory == lastRun # 0 => HistorySuffices(request.duration)

(***************************************************************************)
(* Which requests keep their promises, and why: while a schedule is        *)
(* installed the next run shown is the next day it fires, whatever kind of *)
(* schedule it is, and every firing finds the next such day.               *)
(***************************************************************************)

\* The day fields whose meaning the conversion keeps: no "?", no "wL".
MonthDays(field) == field = All \/ (field = On(field.values) /\ field.values \subseteq 1..31)
WeekdayFields ==
  {All} \cup {On(v) : v \in SUBSET (0..6)} \cup {Nth(w, n) : w \in 0..6, n \in 1..5}

\* At most one day field is restricted; a cron expression has an expiry date;
\* a monthly test runs on a day that every month has.  Only a cron expression
\* may have several hours.
WellFormedRequest(r) ==
  /\ r.recurrence \in {"cron", "monthly", "once", "daily", "weekly", "biweekly"}
  /\ IF r.recurrence = "cron"
       THEN /\ MonthDays(r.dom) /\ r.dow \in WeekdayFields
            /\ r.dom = All \/ r.dow = All
            /\ r.expiry \in Days
            /\ r.hours \in (SUBSET (0..23)) \ {{}}
       ELSE r.first \in Nat /\ \E h \in 0..23 : r.hours = {h}
  /\ r.madeAt \in 0..23 /\ r.taskCount \in Nat /\ r.duration \in Nat
  /\ r.recurrence = "monthly" /\ r.first \in Days => DayOfMonth(r.first) <= 28

\* What EventBridge got is what was asked for, whenever it was made.
MadeFrom(r, s) ==
  CASE r.recurrence = "cron" ->
         \E first \in 1..2, last \in 1..2 :
           /\ first <= YearOf(today) /\ YearOf(r.expiry) <= last
           /\ s = Cron(AwsDayOfMonth(r.dom, r.dow), AwsDayOfWeek(r.dom, r.dow),
                       first..last, r.expiry)
    [] r.recurrence \in {"monthly", "once"} -> r.first \in Days /\ s = GetSchedule(r)
    [] OTHER -> \E from \in Days :
         s = [kind |-> "rate", period |-> RatePeriod[r.recurrence], from |-> from]

\* n is the next day after this one on which s fires; 0 if there is none.
FiresNext(s, n) ==
  /\ n \in Days => AwsFires(s, n)
  /\ n = 0 \/ today < n
  /\ \A d \in Days : today < d /\ AwsFires(s, d) => n # 0 /\ n <= d

PromiseInvariant ==
  /\ state \in {"none", "pending", "installed"}
  /\ state # "installed" => lastRun = 0
  /\ since < At(today, 24)
  /\ state = "none" => nextRun = 0
  /\ state = "pending" =>
       /\ nextRun # 0 /\ today <= nextRun
       /\ nextRun = today => HoursLeft # {}
       /\ IF request.recurrence = "cron" THEN nextRun \in CronDays(request)
                                         ELSE nextRun = request.first
  /\ state = "installed" =>
       /\ MadeFrom(request, schedule)
       /\ IF AwsFires(schedule, today) /\ HoursLeft # {}
            THEN nextRun = today
            ELSE FiresNext(schedule, nextRun)

(***************************************************************************)
(* What a comment of the code says, and what the code does not do.         *)
(***************************************************************************)

\* scheduleTest: "Verify that the cron expression is acceptable before we
\* move on."  An expression that was accepted becomes a schedule.
AcceptedSchedulesStart == state # "lost"
=================================================================================
