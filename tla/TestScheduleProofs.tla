--------------------------- MODULE TestScheduleProofs ---------------------------
(***************************************************************************)
(* What holds of every schedule.  The expression made for EventBridge      *)
(* names the days of the user's expression; so every run that was shown    *)
(* takes place, and none that was not; the poll loops of the runs end      *)
(* before their execution's history is full; and runs on weekdays do not   *)
(* overlap.  Recursion and least dates are reasoned about with             *)
(* LeastElement, the induction on natural numbers in its first-order form. *)
(***************************************************************************)
EXTENDS TestSchedule, FiniteSetTheorems, WellFoundedInduction, TLAPS

(***************************************************************************)
(* The two expressions.                                                    *)
(***************************************************************************)

\* Sunday is 1 for EventBridge and 0 in a Linux cron expression, and no two
\* weekdays are taken for one.
LEMMA WeekdaysAreShifted ==
  ASSUME NEW w \in 0..6
  PROVE  AwsWeekday(w) = w + 1
BY SMT DEF AwsWeekday

\* A list of weekdays holds a day's weekday if and only if the shifted list
\* holds the shifted weekday.
LEMMA ShiftedList ==
  ASSUME NEW v \in SUBSET (0..6), NEW w \in 0..6
  PROVE  w \in v <=> w + 1 \in {AwsWeekday(u) : u \in v}
<1>1. ASSUME w \in v PROVE w + 1 \in {AwsWeekday(u) : u \in v}
  BY <1>1, WeekdaysAreShifted, Zenon
<1>2. ASSUME w + 1 \in {AwsWeekday(u) : u \in v} PROVE w \in v
  <2>1. PICK u \in v : w + 1 = AwsWeekday(u)
    BY <1>2, Zenon
  <2>2. u \in 0..6
    BY Zenon
  <2>3. w = u
    BY <2>1, <2>2, WeekdaysAreShifted, SMT
  <2> QED  BY <2>3
<1> QED  BY <1>1, <1>2

\* A weekday field, shifted, matches the same days.
LEMMA ShiftedField ==
  ASSUME NEW field \in WeekdayFields, NEW day, Weekday(day) \in 0..6
  PROVE  WeekdayMatches(field, day, 0) <=> WeekdayMatches(ShiftWeekdays(field), day, 1)
<1>0. Weekday(day) + 0 = Weekday(day)
  BY SMT
<1>1. CASE field = All
  BY <1>1 DEF All, ShiftWeekdays, WeekdayMatches, IsWild
<1>2. CASE \E v \in SUBSET (0..6) : field = On(v)
  <2>1. PICK v \in SUBSET (0..6) : field = On(v)
    BY <1>2
  <2>2. WeekdayMatches(field, day, 0) <=> Weekday(day) \in v
    BY <1>0, <2>1 DEF WeekdayMatches, IsWild, On
  <2>3. ShiftWeekdays(field) = On({AwsWeekday(u) : u \in v})
    BY <2>1 DEF ShiftWeekdays, On
  <2>4. WeekdayMatches(ShiftWeekdays(field), day, 1)
          <=> Weekday(day) + 1 \in {AwsWeekday(u) : u \in v}
    BY <2>3 DEF WeekdayMatches, IsWild, On
  <2> QED  BY <2>2, <2>4, ShiftedList
<1>3. CASE \E w \in 0..6, n \in 1..5 : field = Nth(w, n)
  <2>1. PICK w \in 0..6, n \in 1..5 : field = Nth(w, n)
    BY <1>3
  <2>2. WeekdayMatches(field, day, 0) <=> Weekday(day) = w /\ Ordinal(day) = n
    BY <1>0, <2>1 DEF WeekdayMatches, IsWild, Nth
  <2>3. ShiftWeekdays(field) = Nth(w + 1, n)
    BY <2>1, WeekdaysAreShifted DEF ShiftWeekdays, Nth
  <2>4. WeekdayMatches(ShiftWeekdays(field), day, 1)
          <=> Weekday(day) + 1 = w + 1 /\ Ordinal(day) = n
    BY <2>3 DEF WeekdayMatches, IsWild, Nth
  <2>5. Weekday(day) + 1 = w + 1 <=> Weekday(day) = w
    BY SMT
  <2> QED  BY <2>2, <2>4, <2>5
<1>4. field = All \/ (\E v \in SUBSET (0..6) : field = On(v))
        \/ (\E w \in 0..6, n \in 1..5 : field = Nth(w, n))
  BY DEF WeekdayFields
<1> QED  BY <1>1, <1>2, <1>3, <1>4

\* On every day of every calendar EventBridge runs a schedule, within its years
\* and up to its end, if and only if the user's cron expression names the day;
\* and EventBridge accepts the schedule.
THEOREM ExpressionsAgree ==
  ASSUME NEW r, MonthDays(r.dom), r.dow \in WeekdayFields,
         r.dom = All \/ r.dow = All,
         NEW years, NEW end, NEW day,
         firstWeekday \in Int, day \in Int, end \in Int, YearOf(day) \in years, day <= end
  PROVE  LET s == Cron(AwsDayOfMonth(r.dom, r.dow), AwsDayOfWeek(r.dom, r.dow), years, end)
         IN  AwsAccepts(s) /\ (AwsFires(s, day) <=> CronMatches(r, day))
<1> DEFINE dom == AwsDayOfMonth(r.dom, r.dow)
           dow == AwsDayOfWeek(r.dom, r.dow)
           s == Cron(dom, dow, years, end)
<1>1. Weekday(day) \in 0..6
  BY SMT DEF Weekday
<1>2. s.kind = "cron" /\ s.dom = dom /\ s.dow = dow /\ s.years = years /\ s.end = end
  BY DEF Cron
<1> HIDE DEF s
<1>3. AwsFires(s, day) <=> MonthDayMatches(dom, day) /\ WeekdayMatches(dow, day, 1)
  BY <1>2 DEF AwsFires
<1>4. IsWild(All) /\ IsWild(Any) /\ All # Any
  BY DEF IsWild, All, Any
<1>5. \A field : field.kind \in {"all", "any"} =>
         MonthDayMatches(field, day) /\ WeekdayMatches(field, day, 0)
           /\ WeekdayMatches(field, day, 1)
  BY DEF MonthDayMatches, WeekdayMatches, IsWild
<1>6. CASE r.dow = All
  <2>1. dom = r.dom /\ dow = Any
    BY <1>6 DEF AwsDayOfMonth, AwsDayOfWeek
  <2>2. dom # Any
    BY <2>1 DEF MonthDays, All, On, Any
  <2>3. AwsFires(s, day) <=> MonthDayMatches(r.dom, day)
    BY <1>3, <1>4, <1>5, <2>1 DEF IsWild
  <2>4. CronMatches(r, day) <=> MonthDayMatches(r.dom, day)
    BY <1>4, <1>5, <1>6 DEF CronMatches, IsWild
  <2> QED  BY <1>2, <2>1, <2>2, <2>3, <2>4 DEF AwsAccepts, s
<1>7. CASE r.dow # All
  <2>1. r.dom = All
    BY <1>7
  <2>2. dom = Any /\ dow = ShiftWeekdays(r.dow)
    BY <1>7, <2>1 DEF AwsDayOfMonth, AwsDayOfWeek
  <2>3. dow # Any
    BY <2>2 DEF WeekdayFields, ShiftWeekdays, All, On, Nth, Any
  <2>4. AwsFires(s, day) <=> WeekdayMatches(r.dow, day, 0)
    BY <1>1, <1>3, <1>4, <1>5, <2>2, ShiftedField DEF IsWild
  <2>5. CronMatches(r, day) <=> WeekdayMatches(r.dow, day, 0)
    BY <1>4, <1>5, <2>1 DEF CronMatches, IsWild
  <2> QED  BY <1>2, <2>2, <2>3, <2>4, <2>5 DEF AwsAccepts, s
<1> QED  BY <1>6, <1>7

(***************************************************************************)
(* The poll loops.                                                         *)
(***************************************************************************)

\* The interval lies between its floor and its ceiling, whatever the duration.
THEOREM IntervalIsClamped ==
  ASSUME NEW testDuration \in Int
  PROVE  ComputePollIntervalSeconds(testDuration) \in 10..60
<1> USE DEF MaxPollCycles, MinPollIntervalSeconds, MaxPollIntervalSeconds, GracePeriodSeconds
<1>1. CeilDiv(testDuration + 300, 2222) \in Int
  BY SMT DEF CeilDiv
<1>2. Clamped(CeilDiv(testDuration + 300, 2222)) \in 10..60
  BY <1>1, SMT DEF Clamped
<1> QED  BY <1>2, SMT DEF ComputePollIntervalSeconds

\* As long as the ceiling is not reached the budget in cycles covers the test.
LEMMA BudgetCovers ==
  ASSUME NEW testDuration \in Int, testDuration > 0, testDuration + 300 <= 60 * 2222
  PROVE  testDuration + 300 <= 2222 * ComputePollIntervalSeconds(testDuration)
<1> USE DEF MaxPollCycles, MinPollIntervalSeconds, MaxPollIntervalSeconds, GracePeriodSeconds
<1> DEFINE interval == CeilDiv(testDuration + 300, 2222)
<1>1. interval \in Int /\ testDuration + 300 <= 2222 * interval /\ interval <= 60
  BY SMT DEF CeilDiv
<1>2. Clamped(interval) >= interval /\ Clamped(interval) \in Int
  BY <1>1, SMT DEF Clamped
<1>3. ComputePollIntervalSeconds(testDuration) = Clamped(interval)
  BY SMT DEF ComputePollIntervalSeconds
<1> HIDE DEF interval
<1> QED  BY <1>1, <1>2, <1>3, SMT

\* A poll loop ends before its execution's history is full for every test of
\* at most 166 199 seconds, a little more than 46 hours: below the ceiling of
\* the interval by the budget, at the ceiling by what the budget leaves free.
THEOREM PollLoopsFitTheHistory ==
  ASSUME NEW testDuration \in Int, testDuration <= 166199
  PROVE  HistorySuffices(testDuration)
<1> USE DEF MaxPollCycles, MinPollIntervalSeconds, MaxPollIntervalSeconds, GracePeriodSeconds
<1> DEFINE interval == ComputePollIntervalSeconds(testDuration)
           window == testDuration + 300
<1>1. interval \in 10..60
  BY IntervalIsClamped
<1>2. window < 2775 * interval
  <2>1. CASE testDuration <= 0
    BY <1>1, <2>1, SMT
  <2>2. CASE testDuration > 0 /\ window <= 60 * 2222
    BY <1>1, <2>2, BudgetCovers, SMT
  <2>3. CASE testDuration > 0 /\ window > 60 * 2222
    <3>1. CeilDiv(window, 2222) > 60 /\ CeilDiv(window, 2222) \in Int
      BY <2>3, SMT DEF CeilDiv
    <3>2. interval = 60
      BY <2>3, <3>1, SMT DEF ComputePollIntervalSeconds, Clamped
    <3> QED  BY <3>2, SMT
  <2> QED  BY <2>1, <2>2, <2>3, SMT
<1>3. window \in Int
  BY SMT
<1> HIDE DEF interval, window
<1>4. window \div interval <= 2774
  BY <1>1, <1>2, <1>3, SMT
<1>5. HistorySuffices(testDuration) <=> 9 * (window \div interval + 2) + 16 <= 25000
  BY DEF HistorySuffices, MaxPolls, EventsPerCycle, EventsAround, HistoryLimit, interval, window
<1> QED  BY <1>1, <1>3, <1>4, <1>5, SMT

TestsAreShort == \A r \in Requests : r.duration \in Int /\ r.duration <= 166199

\* Whatever the calendar and the schedules: the poll loops of the runs started
\* fit their history, if no test lasts longer than 166 199 seconds.
THEOREM SchedulesFitTheHistory == ASSUME TestsAreShort PROVE Spec => []PollsFitTheHistory
<1> DEFINE Known == request \in Requests
<1>1. Init => Known
  BY DEF Init
<1>2. Known /\ [Next]_vars => Known'
  BY DEF Next, Create, Start, Fire, NextDay, vars
<1>3. Known => PollsFitTheHistory
  BY PollLoopsFitTheHistory DEF PollsFitTheHistory, TestsAreShort
<1> HIDE DEF Known
<1> QED  BY <1>1, <1>2, <1>3, PTL DEF Spec

(***************************************************************************)
(* Natural numbers.                                                        *)
(***************************************************************************)

\* A set of natural numbers that is not empty has a least element: the sets
\* 0..n of its elements n are finite, and strict inclusion is well-founded on
\* finite sets.
LEMMA LeastElement ==
  ASSUME NEW T \in SUBSET Nat, T # {}
  PROVE  \E x \in T : \A y \in T : x <= y
<1> DEFINE Below == {0..n : n \in T}
           R == StrictSubsetOrdering(Nat)
<1>1. IsWellFoundedOn(R, FiniteSubsetsOf(Nat))
  BY FS_StrictSubsetOrderingWellFounded
<1>2. Below \subseteq FiniteSubsetsOf(Nat) /\ Below # {}
  <2>1. ASSUME NEW n \in T PROVE 0..n \in FiniteSubsetsOf(Nat)
    <3>1. 0 \in Int /\ n \in Int
      OBVIOUS
    <3>2. IsFiniteSet(0..n)
      BY <3>1, FS_Interval, Zenon
    <3>3. 0..n \in SUBSET Nat
      OBVIOUS
    <3> QED  BY <3>2, <3>3, Zenon DEF FiniteSubsetsOf
  <2> QED  BY <2>1, Zenon
<1>3. PICK b \in Below : \A c \in Below : ~ (<<c, b>> \in R)
  <2> HIDE DEF R, Below
  <2> QED  BY <1>1, <1>2, WFMin
<1>4. PICK x \in T : b = 0..x
  OBVIOUS
<1>5. ASSUME NEW y \in T, y < x PROVE FALSE
  <2>1. 0..y \subseteq 0..x /\ 0..y # 0..x /\ 0..y \in SUBSET Nat /\ 0..x \in SUBSET Nat
    BY <1>5
  <2>2. <<0..y, b>> \in R
    BY <1>4, <2>1 DEF StrictSubsetOrdering
  <2> QED  BY <1>3, <2>2
<1> QED  BY <1>5

\* Its least element is what Min chooses.
LEMMA MinOfNaturals ==
  ASSUME NEW T \in SUBSET Nat, T # {}
  PROVE  Min(T) \in T /\ \A y \in T : Min(T) <= y
BY LeastElement DEF Min

\* An element that no other one exceeds is what Max chooses.
LEMMA MaxUpTo ==
  ASSUME NEW T \in SUBSET Int, NEW m \in T, \A y \in T : y <= m
  PROVE  Max(T) = m
<1>1. \E x \in T : \A y \in T : x >= y
  BY SMT
<1>2. Max(T) \in T /\ \A y \in T : Max(T) >= y
  BY <1>1 DEF Max
<1> HIDE DEF Max
<1>3. Max(T) \in Int /\ m \in Int /\ Max(T) >= m /\ Max(T) <= m
  BY <1>2
<1> QED  BY <1>3, SMT

(***************************************************************************)
(* The calendar.                                                           *)
(***************************************************************************)

\* The months the calendar has.
Months == 1..Len(MonthLengths)

\* There are months, of 28 to 31 days.
LEMMA CalendarType ==
  /\ Len(MonthLengths) \in Nat \ {0}
  /\ \A m \in Months : MonthLengths[m] \in 28..31
BY CalendarAssumption, SMT DEF Months

\* The recursion of FirstDay has a solution, on any number of months.
LEMMA FirstDayExists ==
  \E f : f = [m \in 1..(Len(MonthLengths) + 1) |->
                IF m = 1 THEN 1 ELSE f[m - 1] + MonthLengths[m - 1]]
<1> DEFINE Solves(f, n) ==
             f = [m \in 1..n |-> IF m = 1 THEN 1 ELSE f[m - 1] + MonthLengths[m - 1]]
           Unsolved == {n \in Nat : ~ \E f : Solves(f, n)}
<1>1. Unsolved = {}
  <2> SUFFICES ASSUME Unsolved # {} PROVE FALSE
    OBVIOUS
  <2>1. PICK n \in Unsolved : \A k \in Unsolved : n <= k
    <3> HIDE DEF Unsolved
    <3>1. Unsolved \in SUBSET Nat
      BY DEF Unsolved
    <3> QED  BY <3>1, LeastElement
  <2>2. n # 0
    <3>1. Solves([m \in 1..0 |-> 0], 0)
      OBVIOUS
    <3> QED  BY <3>1
  <2>3. n - 1 \in Nat /\ n - 1 \notin Unsolved
    BY <2>1, <2>2
  <2>4. PICK f : Solves(f, n - 1)
    BY <2>3
  <2> DEFINE g == [m \in 1..n |-> IF m = 1 THEN 1 ELSE f[m - 1] + MonthLengths[m - 1]]
  <2>5. ASSUME NEW m \in 1..(n - 1) PROVE g[m] = f[m]
    BY <2>3, <2>4
  <2>6. Solves(g, n)
    <3>1. ASSUME NEW m \in 1..n, m # 1 PROVE m - 1 \in 1..(n - 1)
      BY <2>3, <3>1
    <3>2. ASSUME NEW m \in 1..n, m # 1 PROVE g[m - 1] = f[m - 1]
      BY <2>5, <3>1, <3>2
    <3> QED  BY <3>2
  <2> QED  BY <2>6
<1>2. Len(MonthLengths) + 1 \in Nat
  BY CalendarType
<1> QED  BY <1>1, <1>2

\* A month begins where the one before it ends.
LEMMA FirstDayOfMonths ==
  /\ FirstDay[1] = 1
  /\ \A m \in Months : FirstDay[m + 1] = FirstDay[m] + MonthLengths[m]
<1>1. FirstDay = [m \in 1..(Len(MonthLengths) + 1) |->
                    IF m = 1 THEN 1 ELSE FirstDay[m - 1] + MonthLengths[m - 1]]
  BY FirstDayExists DEF FirstDay
<1>2. FirstDay[1] = 1
  BY <1>1, CalendarType
<1>3. ASSUME NEW m \in Months PROVE FirstDay[m + 1] = FirstDay[m] + MonthLengths[m]
  <2>1. m + 1 \in 1..(Len(MonthLengths) + 1) /\ m + 1 # 1 /\ (m + 1) - 1 = m
    BY CalendarType DEF Months
  <2> QED  BY <1>1, <2>1
<1> QED  BY <1>2, <1>3

\* The days on which months begin are numbered from 1.
LEMMA FirstDayType ==
  \A m \in 1..(Len(MonthLengths) + 1) : FirstDay[m] \in Nat \ {0}
<1> DEFINE Untyped == {m \in 1..(Len(MonthLengths) + 1) : FirstDay[m] \notin Nat \ {0}}
<1>1. SUFFICES ASSUME Untyped # {} PROVE FALSE
  OBVIOUS
<1>2. PICK m \in Untyped : \A k \in Untyped : m <= k
  <2> HIDE DEF Untyped
  <2>1. Untyped \in SUBSET Nat
    BY DEF Untyped
  <2> QED  BY <1>1, <2>1, LeastElement
<1>3. m # 1
  BY FirstDayOfMonths
<1>4. m - 1 \in Months /\ m - 1 \notin Untyped
  BY <1>2, <1>3, CalendarType DEF Months
<1>5. FirstDay[m - 1] \in Nat \ {0} /\ MonthLengths[m - 1] \in Nat
  BY <1>4, CalendarType DEF Months
<1>6. FirstDay[m] = FirstDay[m - 1] + MonthLengths[m - 1]
  <2>1. (m - 1) + 1 = m
    BY <1>2, CalendarType
  <2> QED  BY <1>4, <2>1, FirstDayOfMonths
<1> QED  BY <1>5, <1>6

\* The months have days.
LEMMA HorizonType == Horizon \in Nat \ {0} /\ Days \subseteq Nat \ {0}
<1>1. FirstDay[Len(MonthLengths)] \in Nat \ {0}
  BY FirstDayType, CalendarType
<1>2. FirstDay[Len(MonthLengths) + 1]
        = FirstDay[Len(MonthLengths)] + MonthLengths[Len(MonthLengths)]
  BY FirstDayOfMonths, CalendarType DEF Months
<1>3. MonthLengths[Len(MonthLengths)] \in 28..31
  BY CalendarType DEF Months
<1>4. FirstDay[Len(MonthLengths) + 1] \in Nat /\ FirstDay[Len(MonthLengths) + 1] > 1
  BY <1>1, <1>2, <1>3
<1> QED  BY <1>4 DEF Horizon, Days

\* Later months begin later.
LEMMA MonthsFollow ==
  ASSUME NEW m \in Months, NEW k \in Months, m < k
  PROVE  FirstDay[m + 1] <= FirstDay[k]
<1> DEFINE Early == {j \in Months : m < j /\ ~ (FirstDay[m + 1] <= FirstDay[j])}
<1>1. SUFFICES ASSUME Early # {} PROVE FALSE
  OBVIOUS
<1>2. PICK j \in Early : \A i \in Early : j <= i
  <2> HIDE DEF Early
  <2>1. Early \in SUBSET Nat
    BY DEF Early, Months
  <2> QED  BY <1>1, <2>1, LeastElement
<1>3. m + 1 \in Months /\ m + 1 \in 1..(Len(MonthLengths) + 1)
  BY <1>2, CalendarType DEF Months
<1>4. FirstDay[m + 1] \in Nat
  BY <1>3, FirstDayType
<1>5. j # m + 1
  BY <1>2, <1>4
<1>6. j - 1 \in Months /\ m < j - 1 /\ j - 1 \notin Early
  BY <1>2, <1>5, CalendarType DEF Months
<1>7. FirstDay[m + 1] <= FirstDay[j - 1]
  BY <1>6
<1>8. FirstDay[j] = FirstDay[j - 1] + MonthLengths[j - 1]
  <2>1. (j - 1) + 1 = j
    BY <1>2 DEF Months
  <2> QED  BY <1>6, <2>1, FirstDayOfMonths
<1>9. MonthLengths[j - 1] \in Nat /\ FirstDay[j - 1] \in Nat
  <2>1. MonthLengths[j - 1] \in 28..31
    BY <1>6, CalendarType
  <2>2. j - 1 \in 1..(Len(MonthLengths) + 1)
    BY <1>6, CalendarType DEF Months
  <2> QED  BY <2>1, <2>2, FirstDayType
<1> QED  BY <1>2, <1>4, <1>7, <1>8, <1>9

\* Every day is in a month,
LEMMA DaysAreInMonths ==
  ASSUME NEW day \in Days
  PROVE  /\ MonthOf(day) \in Months
         /\ FirstDay[MonthOf(day)] <= day /\ day < FirstDay[MonthOf(day) + 1]
<1> DEFINE After == {m \in Months : day < FirstDay[m + 1]}
           L == Len(MonthLengths)
<1>1. day \in Nat \ {0} /\ day < FirstDay[L + 1] /\ L \in Months
  <2>1. FirstDay[L + 1] \in Nat
    BY FirstDayType, CalendarType
  <2> QED  BY <2>1, HorizonType, CalendarType DEF Days, Horizon, Months
<1>2. PICK m \in After : \A k \in After : m <= k
  <2>1. L \in After
    BY <1>1
  <2> HIDE DEF After
  <2>2. After \in SUBSET Nat
    BY DEF After, Months
  <2> QED  BY <2>1, <2>2, LeastElement
<1>3. FirstDay[m] <= day
  <2>1. CASE m = 1
    BY <1>1, <2>1, FirstDayOfMonths
  <2>2. CASE m # 1
    <3>1. m - 1 \in Months /\ (m - 1) + 1 = m /\ ~ (m <= m - 1)
      BY <1>2, <2>2, CalendarType DEF Months
    <3>2. m - 1 \notin After
      <4> HIDE DEF After
      <4> QED  BY <1>2, <3>1
    <3>3. FirstDay[m] \in Nat
      BY FirstDayType, CalendarType DEF Months
    <3> QED  BY <1>1, <3>1, <3>2, <3>3
  <2> QED  BY <2>1, <2>2
<1>4. m \in 1..Len(MonthLengths) /\ FirstDay[m] <= day /\ day < FirstDay[m + 1]
  BY <1>2, <1>3 DEF Months
<1> QED  BY <1>4, Zenon DEF MonthOf, Months

\* and in no other.
LEMMA MonthIsUnique ==
  ASSUME NEW day \in Days, NEW m \in Months, FirstDay[m] <= day, day < FirstDay[m + 1]
  PROVE  MonthOf(day) = m
<1> DEFINE k == MonthOf(day)
<1>1. k \in Months /\ FirstDay[k] <= day /\ day < FirstDay[k + 1]
  BY DaysAreInMonths
<1>2. day \in Nat
  BY HorizonType
<1> HIDE DEF k
<1>3. /\ FirstDay[k] \in Nat /\ FirstDay[k + 1] \in Nat
      /\ FirstDay[m] \in Nat /\ FirstDay[m + 1] \in Nat
      /\ k \in Nat /\ m \in Nat
  BY <1>1, FirstDayType, CalendarType DEF Months
<1>4. ~ (k < m)
  BY <1>1, <1>2, <1>3, MonthsFollow
<1>5. ~ (m < k)
  BY <1>1, <1>2, <1>3, MonthsFollow
<1>6. k = m
  BY <1>3, <1>4, <1>5
<1> QED  BY <1>6 DEF k

\* Time passes from month to month, and from year to year.
LEMMA MonthsPass ==
  ASSUME NEW d \in Days, NEW e \in Days, d <= e
  PROVE  MonthOf(d) <= MonthOf(e) /\ YearOf(d) <= YearOf(e) /\ YearOf(d) \in 1..2
<1> DEFINE m == MonthOf(d)
           k == MonthOf(e)
<1>1. m \in Months /\ FirstDay[m] <= d /\ d < FirstDay[m + 1]
  BY DaysAreInMonths
<1>2. k \in Months /\ FirstDay[k] <= e /\ e < FirstDay[k + 1]
  BY DaysAreInMonths
<1>3. d \in Nat /\ e \in Nat
  BY HorizonType
<1> HIDE DEF m, k
<1>4. /\ FirstDay[m] \in Nat /\ FirstDay[k + 1] \in Nat /\ m \in Nat /\ k \in Nat
  BY <1>1, <1>2, FirstDayType, CalendarType DEF Months
<1>5. ~ (k < m)
  BY <1>1, <1>2, <1>3, <1>4, MonthsFollow
<1>6. m <= k /\ NewYear \in Nat
  BY <1>4, <1>5, CalendarAssumption, CalendarType
<1> QED  BY <1>4, <1>6 DEF YearOf, m, k

(***************************************************************************)
(* Each kind of schedule.                                                  *)
(***************************************************************************)

\* cron-parser's next day is the least later day of the expression, and
\* there is none only when the expression has none.
LEMMA CronNextDayIsNext ==
  ASSUME NEW r, r.expiry \in Days, NEW day \in Days
  PROVE  /\ CronNextDay(r, day) \in {0} \cup CronDays(r)
         /\ CronNextDay(r, day) = 0 \/ day < CronNextDay(r, day)
         /\ \A d \in CronDays(r) :
              day < d => CronNextDay(r, day) # 0 /\ CronNextDay(r, day) <= d
<1> DEFINE later == {d \in CronDays(r) : d > day}
<1>1. CronDays(r) \subseteq Days /\ 0 \notin Days /\ r.expiry # 0
  BY HorizonType DEF CronDays
<1>2. CASE later = {}
  <2>1. CronNextDay(r, day) = 0
    BY <1>1, <1>2 DEF CronNextDay
  <2>2. \A d \in CronDays(r) : ~ (d > day)
    BY <1>2
  <2>3. \A d \in CronDays(r) : d \in Nat /\ day \in Nat
    BY <1>1, HorizonType
  <2> QED  BY <2>1, <2>2, <2>3
<1>3. CASE later # {}
  <2>1. CronNextDay(r, day) = Min(later)
    BY <1>3 DEF CronNextDay
  <2>2. later \in SUBSET Nat /\ day \in Nat
    BY <1>1, HorizonType
  <2> HIDE DEF later
  <2>3. Min(later) \in later /\ \A y \in later : Min(later) <= y
    BY <1>3, <2>2, MinOfNaturals
  <2>4. Min(later) \in CronDays(r) /\ Min(later) > day
    BY <2>3 DEF later
  <2>5. \A d \in CronDays(r) : day < d => d \in later
    BY <1>1, <2>2, HorizonType DEF later
  <2>6. Min(later) # 0 /\ Min(later) \in Nat
    BY <1>1, <2>4, HorizonType
  <2> QED  BY <2>1, <2>2, <2>3, <2>4, <2>5, <2>6
<1> QED  BY <1>2, <1>3

\* A date lies in its day.
LEMMA DatesOfADay ==
  ASSUME NEW r, NEW t
  PROVE  t \in Dates(r) <=> \E d \in CronDays(r), h \in r.hours : t = 24 * d + h
BY SMT DEF Dates, At

\* From the day on which the schedule was made, EventBridge fires on exactly
\* the days the user's expression gives up to its expiry date.
LEMMA CronFiresOnItsDays ==
  ASSUME NEW r, WellFormedRequest(r), r.recurrence = "cron",
         firstWeekday \in 0..6, today \in Days,
         NEW s, MadeFrom(r, s),
         NEW d \in Days, today <= d
  PROVE  AwsFires(s, d) <=> d \in CronDays(r)
<1>1. /\ MonthDays(r.dom) /\ r.dow \in WeekdayFields
      /\ r.dom = All \/ r.dow = All
      /\ r.expiry \in Days
  BY DEF WellFormedRequest
<1>2. PICK first \in 1..2, last \in 1..2 :
        /\ first <= YearOf(today) /\ YearOf(r.expiry) <= last
        /\ s = Cron(AwsDayOfMonth(r.dom, r.dow), AwsDayOfWeek(r.dom, r.dow),
                    first..last, r.expiry)
  BY DEF MadeFrom
<1>3. d \in Nat /\ r.expiry \in Nat \ {0}
  BY <1>1, HorizonType
<1>4. d \in CronDays(r) <=> CronMatches(r, d) /\ d <= r.expiry
  BY <1>3 DEF CronDays
<1>5. CASE d <= r.expiry
  <2>1. YearOf(today) <= YearOf(d) /\ YearOf(d) <= YearOf(r.expiry) /\ YearOf(d) \in 1..2
    BY <1>1, <1>5, MonthsPass
  <2>2. YearOf(today) \in 1..2 /\ YearOf(r.expiry) \in 1..2
    BY <1>1, <1>3, <1>5, MonthsPass DEF YearOf
  <2>3. YearOf(d) \in first..last
    BY <1>2, <2>1, <2>2
  <2>4. firstWeekday \in Int /\ d \in Int /\ r.expiry \in Int
    BY <1>3
  <2>5. AwsFires(s, d) <=> CronMatches(r, d)
    BY <1>1, <1>2, <1>5, <2>3, <2>4, ExpressionsAgree, Zenon
  <2> QED  BY <1>4, <1>5, <2>5
<1>6. CASE ~ (d <= r.expiry)
  <2>1. s.kind = "cron" /\ s.end = r.expiry
    BY <1>2 DEF Cron
  <2> QED  BY <1>4, <1>6, <2>1 DEF AwsFires
<1> QED  BY <1>5, <1>6

\* A monthly schedule fires on the same day of every month.
LEMMA MonthlyFires ==
  ASSUME NEW r, r.recurrence = "monthly", NEW d \in Days
  PROVE  AwsFires(GetSchedule(r), d) <=> DayOfMonth(d) = DayOfMonth(r.first)
<1>1. GetSchedule(r) = Cron(On({DayOfMonth(r.first)}), Any, 1..2, Horizon)
  BY DEF GetSchedule
<1> DEFINE s == GetSchedule(r)
<1>2. /\ s.kind = "cron" /\ s.dom = On({DayOfMonth(r.first)}) /\ s.dow = Any
      /\ s.years = 1..2 /\ s.end = Horizon
  BY <1>1 DEF Cron
<1> HIDE DEF s
<1>3. YearOf(d) \in 1..2 /\ d <= Horizon
  BY HorizonType DEF YearOf, Days
<1>4. WeekdayMatches(Any, d, 1)
  BY DEF WeekdayMatches, IsWild, Any
<1>5. MonthDayMatches(On({DayOfMonth(r.first)}), d) <=> DayOfMonth(d) = DayOfMonth(r.first)
  BY DEF MonthDayMatches, On
<1>6. AwsFires(s, d) <=> DayOfMonth(d) = DayOfMonth(r.first)
  BY <1>2, <1>3, <1>4, <1>5 DEF AwsFires
<1> QED  BY <1>6 DEF s

\* The same day of the next month, if every month has it, is the next day with
\* its number.
LEMMA SameDayNextMonth ==
  ASSUME NEW d \in Days, DayOfMonth(d) <= 28
  PROVE  LET n == FirstDay[MonthOf(d) + 1] + DayOfMonth(d) - 1
         IN  /\ n \in Nat /\ d < n
             /\ n \in Days => DayOfMonth(n) = DayOfMonth(d)
             /\ \A e \in Days : d < e /\ DayOfMonth(e) = DayOfMonth(d) => n <= e
<1> DEFINE m == MonthOf(d)
           n == FirstDay[m + 1] + DayOfMonth(d) - 1
<1>1. m \in Months /\ FirstDay[m] <= d /\ d < FirstDay[m + 1]
  BY DaysAreInMonths
<1>2. DayOfMonth(d) = d - FirstDay[m] + 1
  BY DEF DayOfMonth
<1> HIDE DEF m
<1>3. /\ FirstDay[m] \in Nat /\ FirstDay[m + 1] \in Nat
      /\ m \in Nat /\ m + 1 \in 1..(Len(MonthLengths) + 1)
  BY <1>1, FirstDayType, CalendarType DEF Months
<1>4. d \in Nat
  BY HorizonType
<1>5. n \in Nat /\ d < n /\ FirstDay[m + 1] <= n
  <2>1. DayOfMonth(d) \in Nat \ {0}
    BY <1>1, <1>2, <1>3, <1>4
  <2> QED  BY <1>1, <1>3, <1>4, <2>1
<1>6. ASSUME n \in Days PROVE DayOfMonth(n) = DayOfMonth(d)
  <2>1. m + 1 \in Months
    <3>1. n < FirstDay[Len(MonthLengths) + 1]
      BY <1>5, <1>6, HorizonType, FirstDayType, CalendarType DEF Days, Horizon
    <3>2. m + 1 # Len(MonthLengths) + 1
      BY <1>3, <1>5, <3>1
    <3> QED  BY <1>3, <3>2, CalendarType DEF Months
  <2>2. FirstDay[(m + 1) + 1] = FirstDay[m + 1] + MonthLengths[m + 1]
    BY <2>1, FirstDayOfMonths
  <2>3. MonthLengths[m + 1] \in 28..31
    BY <2>1, CalendarType
  <2>4. DayOfMonth(d) \in Int
    BY <1>2, <1>3, <1>4
  <2>5. n < FirstDay[(m + 1) + 1]
    BY <1>3, <2>2, <2>3, <2>4
  <2> HIDE DEF n
  <2>6. MonthOf(n) = m + 1
    BY <1>5, <1>6, <2>1, <2>5, MonthIsUnique
  <2>7. DayOfMonth(n) = n - FirstDay[m + 1] + 1
    BY <2>6 DEF DayOfMonth
  <2> QED  BY <1>3, <2>4, <2>7 DEF n
<1>7. ASSUME NEW e \in Days, d < e, DayOfMonth(e) = DayOfMonth(d) PROVE n <= e
  <2> DEFINE k == MonthOf(e)
  <2>1. k \in Months /\ FirstDay[k] <= e /\ e < FirstDay[k + 1]
    BY DaysAreInMonths
  <2>2. DayOfMonth(e) = e - FirstDay[k] + 1
    BY DEF DayOfMonth
  <2>3. e \in Nat
    BY HorizonType
  <2>4. m <= k
    BY <1>4, <1>7, <2>3, MonthsPass DEF m
  <2> HIDE DEF k
  <2>5. FirstDay[k] \in Nat /\ k \in Nat
    BY <2>1, FirstDayType, CalendarType DEF Months
  <2>6. m # k
    BY <1>2, <1>3, <1>4, <1>7, <2>2, <2>3
  <2>7. FirstDay[m + 1] <= FirstDay[k]
    BY <1>1, <1>3, <2>1, <2>4, <2>5, <2>6, MonthsFollow
  <2>8. n = FirstDay[m + 1] + (e - FirstDay[k] + 1) - 1
    BY <1>7, <2>2
  <2> QED  BY <1>3, <2>3, <2>5, <2>7, <2>8
<1> QED  BY <1>5, <1>6, <1>7 DEF m

(***************************************************************************)
(* Promises are kept: every firing is on the day shown, and finds the next *)
(* one.                                                                    *)
(***************************************************************************)

\* On a day on which the schedule fires the next run is computed from that day,
LEMMA FiringStartsToday ==
  ASSUME firstWeekday \in 0..6, today \in Days, WellFormedRequest(request),
         MadeFrom(request, schedule), AwsFires(schedule, today)
  PROVE  StartDate = today /\ (request.recurrence = "cron" => today \in CronDays(request))
<1>0. today \in Nat
  BY HorizonType
<1>1. CASE request.recurrence = "cron"
  <2> DEFINE past == {d \in CronDays(request) : d <= today}
  <2>1. today \in CronDays(request) /\ CronDays(request) \subseteq Days
    BY <1>0, <1>1, CronFiresOnItsDays DEF CronDays
  <2>2. past \in SUBSET Int /\ today \in past /\ \A d \in past : d <= today
    <3>1. Days \subseteq Int
      BY HorizonType, SMT
    <3>2. today <= today
      BY <1>0, SMT
    <3> QED  BY <2>1, <3>1, <3>2, Zenon
  <2> HIDE DEF past
  <2>3. Max(past) = today
    BY <2>2, MaxUpTo
  <2> QED  BY <1>1, <2>1, <2>2, <2>3 DEF StartDate, past
<1>2. CASE request.recurrence # "cron"
  BY <1>2 DEF StartDate
<1> QED  BY <1>1, <1>2

\* and from the last hour of it, it is the next day on which the schedule fires.
LEMMA FiringFindsTheNext ==
  ASSUME firstWeekday \in 0..6, today \in Days, WellFormedRequest(request),
         MadeFrom(request, schedule), AwsFires(schedule, today),
         NEW hour, ~ \E h \in request.hours : h > hour
  PROVE  SetNextRun(hour) \in Nat /\ FiresNext(schedule, SetNextRun(hour))
<1>0. today \in Nat /\ StartDate = today
  BY HorizonType, FiringStartsToday
<1>1. CASE request.recurrence = "cron"
  <2>1. request.expiry \in Days
    BY <1>1 DEF WellFormedRequest
  <2>2. \A d \in Days : today <= d => (AwsFires(schedule, d) <=> d \in CronDays(request))
    BY <1>1, CronFiresOnItsDays
  <2>3. CronDays(request) \subseteq Days /\ today \in CronDays(request)
    BY <1>0, <2>2 DEF CronDays
  <2>5. SetNextRun(hour) = CronNextDay(request, today)
    BY <1>1 DEF SetNextRun, CronNextRun
  <2> DEFINE n == CronNextDay(request, today)
  <2>6. /\ n \in {0} \cup CronDays(request)
        /\ n = 0 \/ today < n
        /\ \A d \in CronDays(request) : today < d => n # 0 /\ n <= d
    BY <2>1, CronNextDayIsNext, Zenon
  <2> HIDE DEF n
  <2>7. n \in Nat /\ 0 \notin Days
    BY <2>3, <2>6, HorizonType
  <2>8. n \in Days => AwsFires(schedule, n)
    BY <1>0, <2>2, <2>6, <2>7
  <2>9. \A d \in Days : today < d /\ AwsFires(schedule, d) => d \in CronDays(request)
    <3> SUFFICES ASSUME NEW d \in Days, today < d, AwsFires(schedule, d)
                 PROVE  d \in CronDays(request)
      OBVIOUS
    <3>1. d \in Nat
      BY HorizonType, Zenon
    <3>2. today <= d
      BY <1>0, <3>1, SMT
    <3> QED  BY <2>2, <3>2, Zenon
  <2>10. FiresNext(schedule, n)
    BY <2>6, <2>8, <2>9 DEF FiresNext
  <2> QED  BY <2>5, <2>7, <2>10 DEF n
<1>2. CASE request.recurrence # "cron"
  <2>2. CASE request.recurrence = "once"
    <3>1. SetNextRun(hour) = 0
      BY <2>2 DEF SetNextRun
    <3>2. schedule = [kind |-> "date", day |-> request.first]
      BY <2>2 DEF MadeFrom, GetSchedule
    <3>3. \A d \in Days : AwsFires(schedule, d) <=> d = request.first
      BY <3>2 DEF AwsFires
    <3>4. FiresNext(schedule, 0)
      BY <1>0, <3>3, HorizonType DEF FiresNext
    <3> QED  BY <3>1, <3>4
  <2>3. CASE request.recurrence = "monthly"
    <3>1. schedule = GetSchedule(request)
      BY <2>3 DEF MadeFrom
    <3>2. \A d \in Days : AwsFires(schedule, d) <=> DayOfMonth(d) = DayOfMonth(request.first)
      BY <2>3, <3>1, MonthlyFires
    <3> DEFINE n == FirstDay[MonthOf(today) + 1] + DayOfMonth(today) - 1
    <3>3. SetNextRun(hour) = n
      BY <1>0, <2>3 DEF SetNextRun
    <3>4. DayOfMonth(today) <= 28
      BY <2>3, <3>2 DEF WellFormedRequest, MadeFrom
    <3>5. /\ n \in Nat /\ today < n
          /\ n \in Days => DayOfMonth(n) = DayOfMonth(today)
          /\ \A e \in Days : today < e /\ DayOfMonth(e) = DayOfMonth(today) => n <= e
      BY <3>4, SameDayNextMonth, Zenon
    <3> HIDE DEF n
    <3>6. n # 0
      BY <1>0, <3>5
    <3>7. FiresNext(schedule, n)
      BY <3>2, <3>5, <3>6 DEF FiresNext
    <3> QED  BY <3>3, <3>5, <3>7
  <2>4. CASE request.recurrence \in {"daily", "weekly", "biweekly"}
    <3> DEFINE p == RatePeriod[request.recurrence]
    <3>1. p \in {1, 7, 14}
      BY <2>4 DEF RatePeriod
    <3>2. SetNextRun(hour) = today + p
      BY <1>0, <2>4 DEF SetNextRun
    <3>3. PICK from \in Days : schedule = [kind |-> "rate", period |-> p, from |-> from]
      BY <2>4 DEF MadeFrom
    <3> HIDE DEF p
    <3>4. \A d \in Days : AwsFires(schedule, d) <=> (d - from) % p = 0
      BY <3>3 DEF AwsFires
    <3>5. from \in Nat /\ (today - from) % p = 0
      BY <3>4, HorizonType
    <3>6. (today + p - from) % p = 0
      BY <1>0, <3>1, <3>5
    <3>7. ASSUME NEW d \in Nat, today < d, (d - from) % p = 0 PROVE today + p <= d
      BY <1>0, <3>1, <3>5, <3>7
    <3>8. today + p \in Nat /\ today < today + p /\ today + p # 0
      BY <1>0, <3>1
    <3>9. today + p \in Days => AwsFires(schedule, today + p)
      <4>1. ASSUME NEW d \in Days, d = today + p PROVE AwsFires(schedule, d)
        <5>1. (d - from) % p = 0
          BY <1>0, <3>1, <3>5, <3>6, <4>1
        <5> QED  BY <3>4, <5>1
      <4> QED  BY <4>1
    <3>10. \A d \in Days : today < d /\ AwsFires(schedule, d) => today + p <= d
      <4>1. Days \subseteq Nat
        BY HorizonType
      <4> QED  BY <3>4, <3>7, <4>1, Zenon
    <3>11. FiresNext(schedule, today + p)
      BY <3>8, <3>9, <3>10 DEF FiresNext
    <3> QED  BY <3>2, <3>8, <3>11
  <2> QED  BY <1>2, <2>2, <2>3, <2>4 DEF WellFormedRequest
<1> QED  BY <1>1, <1>2

\* A schedule EventBridge gets on the day of the first run is what was asked
\* for, is accepted, and fires on that day.
LEMMA StartingMakesTheSchedule ==
  ASSUME firstWeekday \in 0..6, today \in Days, WellFormedRequest(request),
         IF request.recurrence = "cron" THEN today \in CronDays(request)
                                        ELSE today = request.first
  PROVE  LET s == GetSchedule(request)
         IN  /\ MadeFrom(request, s) /\ AwsAccepts(s) /\ AwsFires(s, today)
             /\ s.kind \in {"cron", "date", "rate"}
             /\ s.kind = "cron" => s.dow \in AwsWeekdayFields
<1> DEFINE s == GetSchedule(request)
<1>0. today \in Nat
  BY HorizonType
<1>1. CASE request.recurrence = "cron"
  <2>1. /\ MonthDays(request.dom) /\ request.dow \in WeekdayFields
        /\ request.dom = All \/ request.dow = All
        /\ request.expiry \in Days
    BY <1>1 DEF WellFormedRequest
  <2>2. request.expiry # 0
    BY <2>1, HorizonType
  <2> DEFINE dow == AwsDayOfWeek(request.dom, request.dow)
  <2>3. s = Cron(AwsDayOfMonth(request.dom, request.dow), dow,
                 YearOf(today)..LastYear(request), request.expiry)
    BY <1>1, <2>2 DEF GetSchedule, EndDate
  <2>4. YearOf(today) \in 1..2 /\ YearOf(request.expiry) \in 1..2
    BY DEF YearOf
  <2>5. /\ LastYear(request) \in 1..2
        /\ YearOf(today) <= LastYear(request) /\ YearOf(request.expiry) <= LastYear(request)
    BY <2>2, <2>4 DEF LastYear
  <2>6. MadeFrom(request, s)
    <3>1. YearOf(today) <= YearOf(today)
      BY <2>4
    <3> HIDE DEF s, dow
    <3>2. \E first \in 1..2, last \in 1..2 :
            /\ first <= YearOf(today) /\ YearOf(request.expiry) <= last
            /\ s = Cron(AwsDayOfMonth(request.dom, request.dow), dow,
                        first..last, request.expiry)
      <4> USE <2>4, <2>5
      <4> WITNESS YearOf(today) \in 1..2, LastYear(request) \in 1..2
      <4> QED  BY <2>3, <2>5, <3>1
    <3> QED  BY <1>1, <3>2 DEF MadeFrom, dow
  <2>7. AwsFires(s, today)
    BY <1>0, <1>1, <2>6, CronFiresOnItsDays
  <2>8. dow \in AwsWeekdayFields
    <3>1. CASE dow = Any
      BY <3>1 DEF AwsWeekdayFields
    <3>2. CASE dow # Any
      <4>1. dow = ShiftWeekdays(request.dow)
        BY <3>2 DEF AwsDayOfWeek
      <4>2. \A w \in 0..6 : AwsWeekday(w) \in 1..7
        BY WeekdaysAreShifted, SMT
      <4>3. ShiftWeekdays(All) = All
        BY DEF ShiftWeekdays, All
      <4>4. ASSUME NEW v \in SUBSET (0..6)
            PROVE  ShiftWeekdays(On(v)) = On({AwsWeekday(w) : w \in v})
        BY DEF ShiftWeekdays, On
      <4>5. ASSUME NEW w \in 0..6, NEW n \in 1..5
            PROVE  ShiftWeekdays(Nth(w, n)) = Nth(AwsWeekday(w), n)
        BY DEF ShiftWeekdays, Nth
      <4>6. \A v \in SUBSET (0..6) : {AwsWeekday(w) : w \in v} \in SUBSET (1..7)
        BY <4>2, Zenon
      <4>7. CASE request.dow = All
        <5>1. dow = All
          BY <4>1, <4>3, <4>7
        <5> HIDE DEF dow
        <5> QED  BY <5>1, SMT DEF AwsWeekdayFields
      <4>8. CASE \E v \in SUBSET (0..6) : request.dow = On(v)
        <5>1. PICK v \in SUBSET (0..6) : request.dow = On(v)
          BY <4>8
        <5> DEFINE shifted == {AwsWeekday(w) : w \in v}
        <5>2. dow = On(shifted) /\ shifted \in SUBSET (1..7)
          BY <4>1, <4>4, <4>6, <5>1
        <5> HIDE DEF dow, shifted
        <5> QED  BY <5>2, SMT DEF AwsWeekdayFields
      <4>9. CASE \E w \in 0..6, n \in 1..5 : request.dow = Nth(w, n)
        <5>1. PICK w \in 0..6, n \in 1..5 : request.dow = Nth(w, n)
          BY <4>9
        <5>2. dow = Nth(AwsWeekday(w), n)
          BY <4>1, <4>5, <5>1
        <5> HIDE DEF dow
        <5> QED  BY <4>2, <5>2, SMT DEF AwsWeekdayFields
      <4> QED  BY <2>1, <4>7, <4>8, <4>9 DEF WeekdayFields
    <3> QED  BY <3>1, <3>2
  <2>9. AwsAccepts(s)
    <3>1. firstWeekday \in Int /\ today \in Int /\ request.expiry \in Int
      <4>1. Days \subseteq Int /\ 0..6 \subseteq Int
        BY HorizonType, SMT
      <4> QED  BY <2>1, <4>1, Zenon
    <3>2. YearOf(today) \in YearOf(today)..LastYear(request)
      BY <2>4, <2>5
    <3>3. today <= request.expiry
      BY <1>1, <2>2 DEF CronDays
    <3> QED  BY <2>1, <2>3, <3>1, <3>2, <3>3, ExpressionsAgree, Zenon
  <2>10. s.kind = "cron" /\ s.dow = dow
    BY <2>3 DEF Cron
  <2> HIDE DEF s, dow
  <2>11. /\ MadeFrom(request, s) /\ AwsAccepts(s) /\ AwsFires(s, today)
         /\ s.kind \in {"cron", "date", "rate"}
         /\ s.kind = "cron" => s.dow \in AwsWeekdayFields
    BY <2>6, <2>7, <2>8, <2>9, <2>10
  <2> QED  BY <2>11 DEF s
<1>2. CASE request.recurrence = "monthly"
  <2>1. s = Cron(On({DayOfMonth(request.first)}), Any, 1..2, Horizon)
    BY <1>2 DEF GetSchedule
  <2>2. s.kind = "cron" /\ s.dow = Any /\ s.dom # Any
    BY <2>1 DEF Cron, On, Any
  <2>3. MadeFrom(request, s)
    BY <1>2 DEF MadeFrom
  <2>4. AwsFires(s, today)
    BY <1>2, MonthlyFires
  <2> QED  BY <2>2, <2>3, <2>4 DEF AwsAccepts, AwsWeekdayFields
<1>3. CASE request.recurrence = "once"
  <2>1. s = [kind |-> "date", day |-> request.first]
    BY <1>3 DEF GetSchedule
  <2>2. MadeFrom(request, s)
    BY <1>3 DEF MadeFrom
  <2> QED  BY <1>3, <2>1, <2>2 DEF AwsAccepts, AwsFires
<1>4. CASE request.recurrence \in {"daily", "weekly", "biweekly"}
  <2>1. s = [kind |-> "rate", period |-> RatePeriod[request.recurrence], from |-> today]
    BY <1>4 DEF GetSchedule
  <2>2. MadeFrom(request, s)
    BY <1>4, <2>1 DEF MadeFrom
  <2>3. RatePeriod[request.recurrence] \in {1, 7, 14}
    BY <1>4 DEF RatePeriod
  <2>4. (today - today) % RatePeriod[request.recurrence] = 0
    BY <1>0, <2>3
  <2> QED  BY <2>1, <2>2, <2>4 DEF AwsAccepts, AwsFires
<1> QED  BY <1>1, <1>2, <1>3, <1>4 DEF WellFormedRequest

\* What a cron expression means does not change as time passes,
LEMMA DatesStay ==
  ASSUME UNCHANGED <<firstWeekday, request>>
  PROVE  CronDays(request)' = CronDays(request)
<1>1. \A f, d, sunday : WeekdayMatches(f, d, sunday)' <=> WeekdayMatches(f, d, sunday)
  BY DEF WeekdayMatches, Weekday
<1>2. \A d : CronMatches(request, d)' <=> CronMatches(request, d)
  BY <1>1 DEF CronMatches
<1> QED  BY <1>2 DEF CronDays

\* and what a schedule of EventBridge means does not either.
LEMMA MeaningStays ==
  ASSUME UNCHANGED <<firstWeekday, request, schedule>>
  PROVE  /\ \A d : AwsFires(schedule, d)' <=> AwsFires(schedule, d)
         /\ CronDays(request)' = CronDays(request)
<1>1. \A d : Weekday(d)' = Weekday(d)
  BY DEF Weekday
<1>2. \A f, d, sunday : WeekdayMatches(f, d, sunday)' <=> WeekdayMatches(f, d, sunday)
  BY <1>1 DEF WeekdayMatches
<1>3. CronDays(request)' = CronDays(request)
  BY DatesStay
<1>4. \A d : AwsFires(schedule, d)' <=> AwsFires(schedule, d)
  BY <1>2 DEF AwsFires
<1> QED  BY <1>3, <1>4

\* A schedule that is what was asked for stays so.
LEMMA MadeFromStays ==
  ASSUME UNCHANGED <<request, schedule>>, today \in Days, today' \in Days, today <= today',
         WellFormedRequest(request), MadeFrom(request, schedule)
  PROVE  MadeFrom(request, schedule)'
<1>1. CASE request.recurrence = "cron"
  <2>1. PICK first \in 1..2, last \in 1..2 :
          /\ first <= YearOf(today) /\ YearOf(request.expiry) <= last
          /\ schedule = Cron(AwsDayOfMonth(request.dom, request.dow),
                             AwsDayOfWeek(request.dom, request.dow),
                             first..last, request.expiry)
    BY <1>1 DEF MadeFrom
  <2>2. YearOf(today) <= YearOf(today') /\ YearOf(today) \in 1..2 /\ YearOf(today') \in 1..2
    BY MonthsPass DEF YearOf
  <2>3. first <= YearOf(today')
    BY <2>1, <2>2
  <2> QED  BY <1>1, <2>1, <2>3 DEF MadeFrom
<1>2. CASE request.recurrence \in {"monthly", "once"}
  <2>1. GetSchedule(request)' = GetSchedule(request)
    BY <1>2 DEF GetSchedule
  <2> QED  BY <1>2, <2>1 DEF MadeFrom
<1>3. CASE request.recurrence \in {"daily", "weekly", "biweekly"}
  BY <1>3 DEF MadeFrom
<1> QED  BY <1>1, <1>2, <1>3 DEF WellFormedRequest

RequestsAreWellFormed == \A r \in Requests : WellFormedRequest(r)

\* What every step keeps.
PromiseInductive == TypeOK /\ PromiseInvariant

\* The promises hold of a request nobody has looked at,
LEMMA PromiseInit == ASSUME RequestsAreWellFormed, Init PROVE PromiseInductive
<1>1. today = 1 /\ 1 \in Days
  BY HorizonType DEF Init, Days
<1>2. schedule.kind = "none" /\ schedule = NoSchedule
  BY DEF Init, NoSchedule
<1>3. since \in Nat /\ since < At(today, 24)
  BY <1>1 DEF Init, At
<1> QED  BY <1>1, <1>2, <1>3 DEF Init, PromiseInductive, TypeOK, PromiseInvariant

\* the hours of the day that are left are hours of the request,
LEMMA HoursType ==
  ASSUME RequestsAreWellFormed, PromiseInductive
  PROVE  /\ request.hours \in (SUBSET (0..23)) \ {{}} /\ request.madeAt \in 0..23
         /\ HoursLeft \in SUBSET request.hours /\ HoursLeft \in SUBSET Nat
         /\ request.recurrence # "cron" => \A h \in request.hours, k \in request.hours : h = k
<1>1. WellFormedRequest(request)
  BY DEF RequestsAreWellFormed, PromiseInductive, TypeOK
<1>2. request.hours \in (SUBSET (0..23)) \ {{}} /\ request.madeAt \in 0..23
  <2>1. \A h \in 0..23 : {h} \in (SUBSET (0..23)) \ {{}}
    OBVIOUS
  <2> QED  BY <1>1, <2>1 DEF WellFormedRequest
<1> QED  BY <1>1, <1>2 DEF HoursLeft, WellFormedRequest

\* the request is accepted with a first date in the future,
LEMMA CreateKeeps ==
  ASSUME RequestsAreWellFormed, PromiseInductive, Create PROVE PromiseInductive'
<1>1. WellFormedRequest(request) /\ today \in Days /\ today \in Nat
  BY HorizonType DEF RequestsAreWellFormed, PromiseInductive, TypeOK
<1>2. CronDays(request)' = CronDays(request)
  BY MeaningStays DEF Create
<1>3. /\ nextRun' \in Nat /\ nextRun' # 0 /\ today <= nextRun'
      /\ IF request.recurrence = "cron" THEN nextRun' \in CronDays(request)
                                        ELSE nextRun' = request.first
  <2>1. CASE request.recurrence = "cron"
    <3>1. request.expiry \in Days
      BY <1>1, <2>1 DEF WellFormedRequest
    <3>2. nextRun' = CronNextRun(request, today, request.madeAt) /\ nextRun' # 0
      BY <2>1 DEF Create
    <3>3. nextRun' \in CronDays(request) /\ today <= nextRun'
      BY <1>1, <3>1, <3>2, CronNextDayIsNext DEF CronNextRun
    <3>4. nextRun' \in Nat
      BY <3>3, HorizonType DEF CronDays
    <3> QED  BY <1>1, <2>1, <3>2, <3>3, <3>4
  <2>2. CASE request.recurrence # "cron"
    <3>1. request.first \in Nat /\ nextRun' = request.first /\ request.first > today
      BY <1>1, <2>2 DEF WellFormedRequest, Create
    <3> QED  BY <1>1, <2>2, <3>1
  <2> QED  BY <2>1, <2>2
<1>4. /\ state = "none" /\ state' = "pending"
      /\ UNCHANGED <<firstWeekday, today, request, schedule, lastRun>>
  BY DEF Create
<1>5. /\ since' = At(today, request.madeAt) /\ since' \in Nat
      /\ since' < At(today, 24) /\ At(today, 24)' = At(today, 24)
  BY <1>1, <1>4, HoursType DEF Create, At
<1>6. nextRun' = today => HoursLeft' # {}
  <2> SUFFICES ASSUME nextRun' = today PROVE HoursLeft' # {}
    OBVIOUS
  <2>1. request.recurrence = "cron"
    BY <1>1 DEF Create
  <2>2. request.expiry \in Days
    BY <1>1, <2>1 DEF WellFormedRequest
  <2>3. PICK h \in request.hours : h > request.madeAt
    <3>1. ~ (today < CronNextDay(request, today)) => CronNextDay(request, today) = 0
      BY <1>1, <2>2, CronNextDayIsNext
    <3>2. today # 0 /\ ~ (today < today)
      BY <1>1, HorizonType
    <3> QED  BY <2>1, <3>1, <3>2 DEF Create, CronNextRun
  <2>4. h \in request'.hours /\ At(today', h) > since'
    BY <1>1, <1>4, <1>5, <2>3, HoursType DEF At
  <2> QED  BY <2>4 DEF HoursLeft
<1>7. TypeOK'
  BY <1>3, <1>4, <1>5 DEF PromiseInductive, TypeOK
<1>8. lastRun = 0
  BY <1>4 DEF PromiseInductive, PromiseInvariant
<1>9. PromiseInvariant'
  BY <1>1, <1>2, <1>3, <1>4, <1>8, <1>5, <1>6 DEF PromiseInvariant
<1> QED  BY <1>7, <1>9 DEF PromiseInductive

\* the schedule is made on the first date,
LEMMA StartKeeps ==
  ASSUME RequestsAreWellFormed, PromiseInductive, Start PROVE PromiseInductive'
<1> DEFINE s == GetSchedule(request)
<1>1. /\ WellFormedRequest(request) /\ firstWeekday \in 0..6
      /\ today \in Days /\ today \in Nat \ {0}
  BY HorizonType DEF RequestsAreWellFormed, PromiseInductive, TypeOK
<1>2. state = "pending" /\ today = nextRun /\ lastRun = 0
  BY DEF Start, DueToStart, PromiseInductive, PromiseInvariant
<1>3. IF request.recurrence = "cron" THEN today \in CronDays(request)
                                     ELSE today = request.first
  BY <1>2 DEF PromiseInductive, PromiseInvariant
<1>4. /\ MadeFrom(request, s) /\ AwsAccepts(s) /\ AwsFires(s, today)
      /\ s.kind \in {"cron", "date", "rate"}
      /\ s.kind = "cron" => s.dow \in AwsWeekdayFields
  BY <1>1, <1>3, StartingMakesTheSchedule
<1>5. /\ schedule' = s /\ state' = "installed"
      /\ UNCHANGED <<firstWeekday, today, request, nextRun, lastRun, since>>
  BY <1>4 DEF Start
<1>6. MadeFrom(request, schedule)'
  <2>1. GetSchedule(request)' = s
    BY <1>5 DEF GetSchedule, LastYear, EndDate
  <2> HIDE DEF s
  <2> QED  BY <1>4, <1>5, <2>1 DEF MadeFrom, s
<1>7. AwsFires(schedule, today)'
  <2>1. \A f, d, sunday : WeekdayMatches(f, d, sunday)' <=> WeekdayMatches(f, d, sunday)
    BY <1>5 DEF WeekdayMatches, Weekday
  <2> HIDE DEF s
  <2> QED  BY <1>4, <1>5, <2>1 DEF AwsFires
<1> HIDE DEF s
<1>8. s # NoSchedule
  BY <1>4 DEF NoSchedule
<1>9. TypeOK'
  BY <1>4, <1>5, <1>8 DEF PromiseInductive, TypeOK
<1>10. /\ HoursLeft' # {} /\ since < At(today, 24)
       /\ HoursLeft' = HoursLeft /\ At(today, 24)' = At(today, 24)
  BY <1>2, <1>5 DEF HoursLeft, At, PromiseInductive, PromiseInvariant
<1>11. PromiseInvariant'
  BY <1>1, <1>2, <1>5, <1>6, <1>7, <1>10 DEF PromiseInvariant
<1> QED  BY <1>9, <1>11 DEF PromiseInductive

\* A day on which EventBridge starts a run is the one shown.
LEMMA FiresAsShown ==
  ASSUME PromiseInductive, Fire
  PROVE  lastRun' = today /\ nextRun = today
BY DEF PromiseInductive, PromiseInvariant, Fire, DueToFire

\* It is the first of the hours left; those after it are left then.
LEMMA FiresInOrder ==
  ASSUME RequestsAreWellFormed, PromiseInductive, Fire
  PROVE  LET h == Min(HoursLeft)
         IN  /\ h \in request.hours /\ h \in 0..23
             /\ since' = At(today, h) /\ since' \in Nat /\ since < since'
             /\ HoursLeft' = {k \in request.hours : k > h}
<1> DEFINE h == Min(HoursLeft)
<1>1. today \in Nat /\ since \in Nat
  BY HorizonType DEF PromiseInductive, TypeOK
<1>2. HoursLeft \in SUBSET Nat /\ HoursLeft # {}
  BY HoursType DEF Fire, DueToFire
<1>3. h \in HoursLeft
  BY <1>2, MinOfNaturals
<1> HIDE DEF h
<1>4. h \in request.hours /\ h \in 0..23 /\ At(today, h) > since
  BY <1>3, HoursType DEF HoursLeft
<1>5. since' = At(today, h) /\ UNCHANGED <<today, request>>
  BY DEF Fire, h
<1>6. since' \in Nat /\ since < since'
  BY <1>1, <1>4, <1>5 DEF At
<1>7. \A k \in request.hours : At(today, k) > At(today, h) <=> k > h
  BY <1>1, <1>4, HoursType DEF At
<1>8. HoursLeft' = {k \in request.hours : k > h}
  BY <1>5, <1>7 DEF HoursLeft, At
<1> QED  BY <1>4, <1>5, <1>6, <1>8 DEF h

\* A run shows the next day on which the schedule fires, or today again.
LEMMA FireKeeps ==
  ASSUME RequestsAreWellFormed, PromiseInductive, Fire PROVE PromiseInductive'
<1> DEFINE h == Min(HoursLeft)
<1>1. /\ WellFormedRequest(request) /\ firstWeekday \in 0..6
      /\ today \in Days /\ today \in Nat
  BY HorizonType DEF RequestsAreWellFormed, PromiseInductive, TypeOK
<1>2. /\ state = "installed" /\ AwsFires(schedule, today)
      /\ MadeFrom(request, schedule)
  BY DEF Fire, DueToFire, PromiseInductive, PromiseInvariant
<1>3. StartDate = today /\ (request.recurrence = "cron" => today \in CronDays(request))
  BY <1>1, <1>2, FiringStartsToday
<1>4. ~ (StartDate < nextRun)
  BY <1>1, <1>3, FiresAsShown
<1>5. /\ h \in request.hours /\ h \in 0..23
      /\ since' = At(today, h) /\ since' \in Nat
      /\ HoursLeft' = {k \in request.hours : k > h}
  BY FiresInOrder
<1>6. /\ lastRun' = today /\ nextRun' = SetNextRun(h)
      /\ UNCHANGED <<firstWeekday, today, request, state, schedule>>
  BY <1>4 DEF Fire
<1> HIDE DEF h
<1>7. \A d : AwsFires(schedule, d)' <=> AwsFires(schedule, d)
  BY <1>6, MeaningStays
<1>8. MadeFrom(request, schedule)'
  <2>1. today <= today
    BY <1>1
  <2> QED  BY <1>1, <1>2, <1>6, <2>1, MadeFromStays
<1>9. since' < At(today, 24)'
  BY <1>1, <1>5, <1>6 DEF At
<1>10. CASE \E k \in request.hours : k > h
  <2>1. request.recurrence = "cron"
    <3>1. ~ (h > h)
      BY <1>5
    <3> QED  BY <1>5, <1>10, <3>1, HoursType
  <2>2. nextRun' = today
    BY <1>3, <1>6, <1>10, <2>1 DEF SetNextRun, CronNextRun
  <2>3. HoursLeft' # {} /\ AwsFires(schedule, today)'
    <3>1. AwsFires(schedule, today)' <=> AwsFires(schedule, today)
      BY <1>6 DEF AwsFires, WeekdayMatches, Weekday
    <3> QED  BY <1>2, <1>5, <1>10, <3>1
  <2>4. TypeOK'
    BY <1>1, <1>5, <1>6, <2>2 DEF PromiseInductive, TypeOK
  <2>5. PromiseInvariant'
    BY <1>1, <1>2, <1>6, <1>8, <1>9, <2>2, <2>3 DEF PromiseInvariant
  <2> QED  BY <2>4, <2>5 DEF PromiseInductive
<1>11. CASE ~ \E k \in request.hours : k > h
  <2>1. SetNextRun(h) \in Nat /\ FiresNext(schedule, SetNextRun(h))
    BY <1>1, <1>2, <1>11, FiringFindsTheNext
  <2>2. FiresNext(schedule, nextRun)'
    BY <1>6, <1>7, <2>1 DEF FiresNext
  <2>3. HoursLeft' = {}
    BY <1>5, <1>11
  <2>4. TypeOK'
    BY <1>1, <1>5, <1>6, <2>1 DEF PromiseInductive, TypeOK
  <2>5. PromiseInvariant'
    BY <1>2, <1>6, <1>8, <1>9, <2>2, <2>3 DEF PromiseInvariant
  <2> QED  BY <2>4, <2>5 DEF PromiseInductive
<1> QED  BY <1>10, <1>11

\* A day passes only when nothing is due on it, so the next firing stays the next.
LEMMA NextDayKeeps ==
  ASSUME RequestsAreWellFormed, PromiseInductive, NextDay PROVE PromiseInductive'
<1>1. /\ WellFormedRequest(request) /\ firstWeekday \in 0..6
      /\ today \in Days /\ today \in Nat /\ nextRun \in Nat /\ since \in Nat
  BY HorizonType DEF RequestsAreWellFormed, PromiseInductive, TypeOK
<1>2. /\ today' = today + 1 /\ today < Horizon
      /\ ~DueToStart /\ ~DueToFire
      /\ UNCHANGED <<firstWeekday, request, state, schedule, nextRun, lastRun, since>>
  BY DEF NextDay
<1>3. today' \in Days /\ today' \in Nat
  BY <1>1, <1>2, HorizonType DEF Days
<1>4. TypeOK'
  BY <1>2, <1>3 DEF PromiseInductive, TypeOK
<1>5. /\ \A d : AwsFires(schedule, d)' <=> AwsFires(schedule, d)
      /\ CronDays(request)' = CronDays(request)
  BY <1>2, MeaningStays
<1>6. since' < At(today, 24)' /\ HoursLeft' # {}
  <2>1. since < At(today, 24)
    BY DEF PromiseInductive, PromiseInvariant
  <2>2. \A h \in request.hours : At(today', h) > since'
    BY <1>1, <1>2, <2>1, HoursType DEF At
  <2>3. HoursLeft' = request.hours
    BY <1>2, <2>2 DEF HoursLeft, At
  <2>4. request.hours # {}
    BY HoursType
  <2>5. since' < At(today, 24)'
    BY <1>1, <1>2, <2>1 DEF At
  <2> QED  BY <2>3, <2>4, <2>5
<1>7. CASE state # "installed"
  <2>1. state = "pending" => today < nextRun
    BY <1>1, <1>2, <1>7 DEF DueToStart, PromiseInductive, PromiseInvariant
  <2>2. state = "pending" => today' <= nextRun'
    BY <1>1, <1>2, <2>1
  <2> QED
    BY <1>2, <1>4, <1>5, <1>6, <1>7, <2>2 DEF PromiseInductive, PromiseInvariant
<1>8. CASE state = "installed"
  <2>1. MadeFrom(request, schedule) /\ FiresNext(schedule, nextRun)
    BY <1>2, <1>8 DEF DueToFire, PromiseInductive, PromiseInvariant
  <2>2. MadeFrom(request, schedule)'
    <3>1. today <= today'
      BY <1>1, <1>2
    <3> QED  BY <1>1, <1>2, <1>3, <2>1, <3>1, MadeFromStays
  <2>3. AwsFires(schedule, today)' <=> AwsFires(schedule, today')
    BY <1>2 DEF AwsFires, WeekdayMatches, Weekday
  <2>4. CASE AwsFires(schedule, today')
    <3>1. nextRun # 0 /\ nextRun <= today'
      BY <1>1, <1>2, <1>3, <2>1, <2>4 DEF FiresNext
    <3>2. today < nextRun
      BY <2>1, <3>1 DEF FiresNext
    <3>3. nextRun' = today'
      BY <1>1, <1>2, <1>3, <3>1, <3>2
    <3> QED
      BY <1>2, <1>4, <1>6, <1>8, <2>2, <2>3, <2>4, <3>3
      DEF PromiseInductive, PromiseInvariant
  <2>5. CASE ~ AwsFires(schedule, today')
    <3>1. nextRun # today'
      BY <1>3, <2>1, <2>5 DEF FiresNext
    <3>2. nextRun' = 0 \/ today' < nextRun'
      BY <1>1, <1>2, <2>1, <3>1 DEF FiresNext
    <3>3. \A d \in Days : today' < d => today < d
      BY <1>1, <1>2, HorizonType
    <3>4. FiresNext(schedule, nextRun)'
      BY <1>2, <1>5, <2>1, <3>2, <3>3 DEF FiresNext
    <3> QED
      BY <1>2, <1>4, <1>6, <1>8, <2>2, <2>3, <2>5, <3>4
      DEF PromiseInductive, PromiseInvariant
  <2> QED  BY <2>4, <2>5
<1> QED  BY <1>7, <1>8

\* Every step keeps the promises.
LEMMA PromiseStep ==
  ASSUME RequestsAreWellFormed, PromiseInductive, [Next]_vars PROVE PromiseInductive'
<1>1. CASE Create
  BY <1>1, CreateKeeps
<1>2. CASE Start
  BY <1>2, StartKeeps
<1>3. CASE Fire
  BY <1>3, FireKeeps
<1>4. CASE NextDay
  BY <1>4, NextDayKeeps
<1>5. CASE UNCHANGED vars
  <2>1. UNCHANGED <<firstWeekday, today, request, state, schedule, nextRun, lastRun, since>>
    BY <1>5 DEF vars
  <2>2. /\ \A d : AwsFires(schedule, d)' <=> AwsFires(schedule, d)
        /\ CronDays(request)' = CronDays(request)
    BY <2>1, MeaningStays
  <2>3. TypeOK'
    BY <2>1 DEF PromiseInductive, TypeOK
  <2>4. FiresNext(schedule, nextRun)' <=> FiresNext(schedule, nextRun)
    BY <2>1, <2>2 DEF FiresNext
  <2>5. state = "installed" => MadeFrom(request, schedule)'
    <3>1. /\ WellFormedRequest(request) /\ today \in Days /\ today' \in Days /\ today <= today'
      BY <2>1, HorizonType DEF RequestsAreWellFormed, PromiseInductive, TypeOK
    <3>2. state = "installed" => MadeFrom(request, schedule)
      BY DEF PromiseInductive, PromiseInvariant
    <3> QED  BY <2>1, <3>1, <3>2, MadeFromStays
  <2>6. AwsFires(schedule, today)' <=> AwsFires(schedule, today)
    BY <2>1 DEF AwsFires, WeekdayMatches, Weekday
  <2>7. HoursLeft' = HoursLeft /\ At(today, 24)' = At(today, 24)
    BY <2>1 DEF HoursLeft, At
  <2> QED
    BY <2>1, <2>2, <2>3, <2>4, <2>5, <2>6, <2>7 DEF PromiseInductive, PromiseInvariant
<1> QED  BY <1>1, <1>2, <1>3, <1>4, <1>5 DEF Next

\* Whatever the calendar, for every set of well-formed requests: the variables
\* keep their types, and a cron schedule's weekdays lie between 1 and 7.
THEOREM ScheduleTypeCorrect == ASSUME RequestsAreWellFormed PROVE Spec => []TypeOK
<1>1. PromiseInductive => TypeOK
  BY DEF PromiseInductive
<1> QED  BY PromiseInit, PromiseStep, <1>1, PTL DEF Spec

\* No day that was shown as the next run passes without the run: the days that
\* cron-parser finds are days on which EventBridge fires.
THEOREM PromisesAreKept == ASSUME RequestsAreWellFormed PROVE Spec => []NoPromiseIsMissed
<1>1. PromiseInductive => NoPromiseIsMissed
  <2>1. PromiseInductive => today \in Nat /\ nextRun \in Nat
    BY HorizonType DEF PromiseInductive, TypeOK
  <2>2. PromiseInductive /\ nextRun # 0 => today <= nextRun \/ today < nextRun \/ today = nextRun
    BY DEF PromiseInductive, PromiseInvariant, FiresNext
  <2> QED  BY <2>1, <2>2 DEF NoPromiseIsMissed
<1> QED  BY PromiseInit, PromiseStep, <1>1, PTL DEF Spec

\* And no run starts on a day that was not shown: the days on which EventBridge
\* fires are days that cron-parser finds.
THEOREM RunsAreAnnounced == ASSUME RequestsAreWellFormed PROVE Spec => FiringsArePromised
<1>1. ASSUME PromiseInductive, [Next]_vars
      PROVE  [state = "installed" /\ since' # since => today = nextRun]_vars
  <2>1. CASE Fire
    BY <1>1, <2>1, FiresAsShown
  <2>2. CASE Create \/ Start \/ NextDay \/ UNCHANGED vars
    BY <2>2 DEF Create, Start, NextDay, vars
  <2> QED  BY <1>1, <2>1, <2>2 DEF Next
<1> QED  BY PromiseInit, PromiseStep, <1>1, PTL DEF Spec, FiringsArePromised

\* EventBridge refuses none of the schedules made of well-formed requests; the
\* accepted expressions it does refuse have a "?" in them.
THEOREM WellFormedSchedulesStart ==
  ASSUME RequestsAreWellFormed PROVE Spec => []AcceptedSchedulesStart
<1>1. PromiseInductive => AcceptedSchedulesStart
  BY DEF PromiseInductive, PromiseInvariant, AcceptedSchedulesStart
<1> QED  BY PromiseInit, PromiseStep, <1>1, PTL DEF Spec

(***************************************************************************)
(* Runs on weekdays do not overlap.  The interval check looks at the first *)
(* ten dates only; on lists of weekdays with at most nine dates a week     *)
(* that is enough, because every gap between two dates returns a week      *)
(* earlier, down to the first week.  On lists of days of a month it is not.*)
(***************************************************************************)

\* The hours of a week.
Week == 168

DatesAfter(r, c) == {t \in Dates(r) : t > c}

\* EnoughInterval, at an hour of its own.
EnoughIntervalFrom(r, c) == r.noRampUp \/ FarApart(r, FirstDates(10, DatesAfter(r, c)))

\* The check compares the dates after the hour of the request.
LEMMA EnoughIntervalToday ==
  ASSUME NEW r, EnoughInterval(r)
  PROVE  EnoughIntervalFrom(r, At(today, r.madeAt))
BY DEF EnoughInterval, EnoughIntervalFrom, DatesAfter

\* The estimated duration is a number of seconds.
LEMMA DurationType ==
  ASSUME NEW r, r.taskCount \in Nat, r.duration \in Nat
  PROVE  EstimatedDuration(r) \in Int
<1>1. CeilDiv(r.taskCount, 10) \in Int
  BY SMT DEF CeilDiv
<1> QED  BY <1>1, SMT DEF EstimatedDuration

\* A cron expression on weekdays, at hours of the day.
OnWeekdays(r) ==
  /\ WellFormedRequest(r) /\ r.recurrence = "cron" /\ r.dom = All
  /\ r.dow \in {All} \cup {On(v) : v \in SUBSET (0..6)}

\* The dates of one are hours of days.
LEMMA DateType ==
  ASSUME NEW r, OnWeekdays(r), NEW t \in Dates(r)
  PROVE  /\ t \in Nat /\ t \div 24 \in CronDays(r) /\ t % 24 \in r.hours
         /\ t = 24 * (t \div 24) + (t % 24) /\ t \div 24 \in Days
<1>1. PICK d \in CronDays(r), h \in r.hours : t = 24 * d + h
  BY DatesOfADay
<1>2. d \in Nat /\ d \in Days /\ h \in 0..23
  BY HorizonType DEF CronDays, OnWeekdays, WellFormedRequest
<1>3. t \in Nat /\ t \div 24 = d /\ t % 24 = h
  BY <1>1, <1>2
<1>4. t \div 24 \in CronDays(r) /\ t % 24 \in r.hours /\ t \div 24 \in Days
  BY <1>2, <1>3, Zenon
<1>5. t = 24 * (t \div 24) + (t % 24)
  BY <1>3, SMT
<1> QED  BY <1>3, <1>4, <1>5, Zenon

\* A date of a list of weekdays is one a week earlier.
LEMMA WeekBefore ==
  ASSUME NEW r, OnWeekdays(r), firstWeekday \in 0..6,
         NEW c \in Nat, 24 <= c, NEW t \in DatesAfter(r, c + Week)
  PROVE  t - Week \in DatesAfter(r, c)
<1> DEFINE d == t \div 24
           h == t % 24
<1>1. t \in Nat /\ d \in CronDays(r) /\ h \in r.hours /\ t = 24 * d + h
  BY DateType DEF DatesAfter
<1>2. d \in Days /\ CronMatches(r, d) /\ (r.expiry = 0 \/ d <= r.expiry)
  BY <1>1 DEF CronDays
<1>3. d \in Nat /\ d <= Horizon /\ h \in 0..23 /\ Horizon \in Nat
  BY <1>1, <1>2, HorizonType DEF Days, OnWeekdays, WellFormedRequest
<1> HIDE DEF d, h
<1>4. d - 7 \in Days /\ d - 7 \in Nat
  <2>1. t > c + 168
    BY DEF DatesAfter, Week
  <2>2. d - 7 >= 1
    BY <1>1, <1>3, <2>1
  <2> QED  BY <1>3, <2>2 DEF Days
<1>5. Weekday(d - 7) = Weekday(d) /\ Weekday(d) \in Nat
  BY <1>3, <1>4, SMT DEF Weekday
<1>6. WeekdayMatches(r.dow, d, 0) <=> WeekdayMatches(r.dow, d - 7, 0)
  <2>1. r.dow.kind \in {"all", "on"}
    BY DEF OnWeekdays, All, On
  <2> QED  BY <1>5, <2>1 DEF WeekdayMatches
<1>7. IsWild(r.dom) /\ \A e : MonthDayMatches(r.dom, e)
  BY DEF OnWeekdays, IsWild, MonthDayMatches, All
<1>8. CronMatches(r, d - 7)
  BY <1>2, <1>6, <1>7 DEF CronMatches
<1>9. r.expiry = 0 \/ d - 7 <= r.expiry
  <2>1. r.expiry \in Nat
    BY HorizonType DEF OnWeekdays, WellFormedRequest
  <2> QED  BY <1>2, <1>3, <2>1
<1>10. d - 7 \in CronDays(r)
  BY <1>4, <1>8, <1>9 DEF CronDays
<1>11. t - Week = 24 * (d - 7) + h
  BY <1>1, <1>3 DEF Week
<1>12. t - Week \in Dates(r)
  BY <1>1, <1>10, <1>11, DatesOfADay
<1>13. t - Week > c
  BY <1>1 DEF DatesAfter, Week
<1> QED  BY <1>12, <1>13 DEF DatesAfter

\* A week has no more dates than weekdays with hours.
LEMMA DatesOfAWeek ==
  ASSUME NEW r, OnWeekdays(r), WeekIsCompared(r), firstWeekday \in 0..6,
         NEW c \in Nat, NEW T, T \subseteq {t \in DatesAfter(r, c) : t <= c + Week}
  PROVE  IsFiniteSet(T) /\ Cardinality(T) \in 0..9
<1>1. PICK weekdays \in SUBSET (0..6) :
        /\ r.dow = On(weekdays) \/ (r.dow = All /\ weekdays = 0..6)
        /\ Cardinality(weekdays) * Cardinality(r.hours) <= 9
  BY DEF WeekIsCompared
<1> DEFINE P == weekdays \X r.hours
           f == [t \in T |-> <<Weekday(t \div 24), t % 24>>]
<1>2. /\ IsFiniteSet(P)
      /\ Cardinality(P) = Cardinality(weekdays) * Cardinality(r.hours)
  <2>1. IsFiniteSet(0..6) /\ IsFiniteSet(0..23)
    <3>1. 0 \in Int /\ 6 \in Int /\ 23 \in Int
      BY SMT
    <3> QED  BY <3>1, FS_Interval, Zenon
  <2>2. r.hours \in SUBSET (0..23)
    BY DEF OnWeekdays, WellFormedRequest
  <2>3. IsFiniteSet(weekdays) /\ IsFiniteSet(r.hours)
    BY <2>1, <2>2, FS_Subset
  <2> QED  BY <2>3, FS_Product
<1>3. ASSUME NEW t \in T
      PROVE  /\ t \in Nat /\ t \div 24 \in Nat /\ t % 24 \in 0..23 /\ t % 24 \in r.hours
             /\ t = 24 * (t \div 24) + (t % 24)
             /\ c < t /\ t <= c + 168
             /\ Weekday(t \div 24) \in weekdays
  <2>1. t \in Dates(r) /\ c < t /\ t <= c + 168
    BY DEF DatesAfter, Week
  <2>2. /\ t \in Nat /\ t \div 24 \in CronDays(r) /\ t % 24 \in r.hours
        /\ t = 24 * (t \div 24) + (t % 24)
    BY <2>1, DateType
  <2>3. t \div 24 \in Nat /\ t % 24 \in 0..23
    BY <2>2
  <2> DEFINE d == t \div 24
  <2>4. CronMatches(r, d)
    BY <2>2 DEF CronDays
  <2>5. d \in Nat
    BY <2>3
  <2> HIDE DEF d
  <2>6. Weekday(d) \in 0..6
    BY <2>5, SMT DEF Weekday
  <2>7. Weekday(d) \in weekdays
    <3>1. CASE r.dow = All
      <4>1. All # On(weekdays)
        BY DEF All, On
      <4> QED  BY <1>1, <2>6, <3>1, <4>1
    <3>2. CASE r.dow = On(weekdays)
      <4>1. WeekdayMatches(r.dow, d, 0)
        BY <2>4 DEF CronMatches, OnWeekdays, IsWild, All
      <4>2. Weekday(d) + 0 = Weekday(d)
        BY <2>6
      <4> QED  BY <3>2, <4>1, <4>2 DEF WeekdayMatches, On, IsWild
    <3> QED  BY <1>1, <3>1, <3>2
  <2> QED  BY <2>1, <2>2, <2>3, <2>7 DEF d
<1>4. f \in [T -> P]
  BY <1>3
<1>5. ASSUME NEW t \in T, NEW u \in T, f[t] = f[u] PROVE t = u
  <2>1. Weekday(t \div 24) = Weekday(u \div 24) /\ t % 24 = u % 24
    BY <1>5
  <2> DEFINE d == t \div 24
             e == u \div 24
             h == t % 24
  <2>2. /\ t \in Nat /\ u \in Nat /\ d \in Nat /\ e \in Nat /\ h \in 0..23
        /\ t = 24 * d + h /\ u = 24 * e + h
        /\ c < t /\ t <= c + 168 /\ c < u /\ u <= c + 168
    BY <1>3, <2>1
  <2>3. Weekday(d) = Weekday(e)
    BY <2>1
  <2> HIDE DEF d, e, h
  <2>4. d - e < 7 /\ e - d < 7
    BY <2>2
  <2>5. (firstWeekday + d - 1) % 7 = (firstWeekday + e - 1) % 7
    BY <2>3 DEF Weekday
  <2>6. d = e
    BY <2>2, <2>4, <2>5
  <2> QED  BY <2>2, <2>6
<1>6. f \in Injection(T, P)
  <2>1. DOMAIN f = T
    OBVIOUS
  <2> HIDE DEF f, P
  <2> QED  BY <1>4, <1>5, <2>1 DEF Injection, IsInjective
<1> HIDE DEF f, P
<1>7. IsFiniteSet(T) /\ Cardinality(T) <= Cardinality(P)
  BY <1>2, <1>6, FS_Injection
<1>8. Cardinality(T) \in Nat /\ Cardinality(P) \in Nat
  BY <1>2, <1>7, FS_CardinalityType
<1>9. Cardinality(P) <= 9
  BY <1>1, <1>2
<1> QED  BY <1>7, <1>8, <1>9

\* At most nine dates are in the first week and one is next after it.
LEMMA FirstWeekIsCompared ==
  ASSUME NEW r, OnWeekdays(r), WeekIsCompared(r), firstWeekday \in 0..6,
         NEW c \in Nat, NEW a \in DatesAfter(r, c), a <= c + Week,
         NEW n \in DatesAfter(r, c), a < n,
         \A e \in DatesAfter(r, c) : a < e => n <= e
  PROVE  a \in FirstDates(10, DatesAfter(r, c)) /\ n \in FirstDates(10, DatesAfter(r, c))
<1> DEFINE D == DatesAfter(r, c)
           upToA == {e \in D : e <= a}
           upToN == {e \in D : e <= n}
<1>1. D \subseteq Nat /\ a \in Nat /\ n \in Nat /\ c + Week \in Nat
  BY DateType DEF DatesAfter, Week
<1>2. upToA \subseteq {t \in DatesAfter(r, c) : t <= c + Week}
  <2>1. ASSUME NEW e \in D, e <= a PROVE e <= c + Week
    BY <1>1, <2>1
  <2> QED  BY <2>1
<1>3. IsFiniteSet(upToA) /\ Cardinality(upToA) \in 0..9
  <2> HIDE DEF upToA
  <2> QED  BY <1>2, DatesOfAWeek
<1>4. upToN \subseteq upToA \cup {n}
  <2>1. ASSUME NEW e \in D, e <= n PROVE e <= a \/ e = n
    BY <1>1, <2>1
  <2> QED  BY <2>1
<1> HIDE DEF upToA, upToN, D
<1>5. IsFiniteSet(upToA \cup {n}) /\ Cardinality(upToA \cup {n}) \in 0..10
  <2>1. IsFiniteSet(upToA \cup {n})
        /\ Cardinality(upToA \cup {n}) = IF n \in upToA THEN Cardinality(upToA)
                                                         ELSE Cardinality(upToA) + 1
    BY <1>3, FS_AddElement
  <2> QED  BY <1>3, <2>1
<1>6. Cardinality(upToN) <= 10
  <2>1. IsFiniteSet(upToN) /\ Cardinality(upToN) <= Cardinality(upToA \cup {n})
    BY <1>4, <1>5, FS_Subset
  <2>2. Cardinality(upToN) \in Nat
    BY <2>1, FS_CardinalityType
  <2> QED  BY <1>5, <2>1, <2>2
<1>7. Cardinality(upToA) <= 10
  BY <1>3
<1>8. a \in D /\ n \in D
  BY DEF D
<1> QED  BY <1>6, <1>7, <1>8 DEF FirstDates, upToA, upToN, D

\* Far enough for the first run to end.
Apart(r, a, b) == (b - a) * SecondsPerHour >= EstimatedDuration(r)

\* Any two dates of a list of weekdays that passed the check are far apart.
LEMMA AllDatesAreFarApart ==
  ASSUME NEW r, OnWeekdays(r), WeekIsCompared(r), firstWeekday \in 0..6,
         NEW c \in Nat, 24 <= c, EnoughIntervalFrom(r, c),
         NEW a \in DatesAfter(r, c), NEW b \in DatesAfter(r, c), a < b
  PROVE  Apart(r, a, b)
<1> DEFINE D == DatesAfter(r, c)
           Close == {d \in D : \E e \in D : d < e /\ ~ Apart(r, d, e)}
<1>1. D \subseteq Nat
  BY DateType DEF DatesAfter
<1>2. SUFFICES ASSUME Close # {} PROVE FALSE
  OBVIOUS
<1>3. PICK d \in Close : \A k \in Close : d <= k
  <2>1. Close \in SUBSET Nat
    BY <1>1
  <2> HIDE DEF Close
  <2> QED  BY <1>2, <2>1, LeastElement
<1>4. PICK e \in D : d < e /\ ~ Apart(r, d, e)
  OBVIOUS
<1>5. d \in D /\ d \in Nat /\ e \in Nat /\ Week \in Nat \ {0}
  BY <1>1 DEF Week
<1>6. d <= c + Week
  <2> SUFFICES ASSUME ~ (d <= c + Week) PROVE FALSE
    OBVIOUS
  <2>1. d > c + Week /\ e > c + Week
    BY <1>4, <1>5
  <2>2. d \in DatesAfter(r, c + Week) /\ e \in DatesAfter(r, c + Week)
    BY <1>5, <2>1 DEF DatesAfter
  <2>3. d - Week \in D /\ e - Week \in D
    BY <2>2, WeekBefore
  <2>4. (e - Week) - (d - Week) = e - d /\ d - Week < e - Week /\ ~ (d <= d - Week)
    BY <1>4, <1>5
  <2>5. ~ Apart(r, d - Week, e - Week)
    BY <1>4, <2>4 DEF Apart
  <2>6. d - Week \in Close
    BY <2>3, <2>4, <2>5
  <2> HIDE DEF Close
  <2> QED  BY <1>3, <2>4, <2>6
<1> DEFINE later == {k \in D : d < k}
           n == Min(later)
<1>7. n \in later /\ \A k \in later : n <= k
  <2>1. later \in SUBSET Nat /\ later # {}
    BY <1>1, <1>4
  <2> HIDE DEF later
  <2> QED  BY <2>1, MinOfNaturals
<1>8. n \in D /\ d < n /\ n <= e /\ \A k \in D : d < k => n <= k
  BY <1>4, <1>7
<1> HIDE DEF n, later, Close
<1>9. d \in FirstDates(10, D) /\ n \in FirstDates(10, D)
  BY <1>5, <1>6, <1>8, FirstWeekIsCompared
<1>10. FarApart(r, FirstDates(10, D))
  BY DEF EnoughIntervalFrom, WeekIsCompared
<1>11. EstimatedDuration(r) \in Int
  BY DurationType DEF OnWeekdays, WellFormedRequest
<1>12. (n - d) * 3600 >= EstimatedDuration(r) /\ n \in Nat
  BY <1>1, <1>8, <1>9, <1>10 DEF FarApart, SecondsPerHour
<1>13. (e - d) * 3600 >= (n - d) * 3600
  BY <1>5, <1>8, <1>12, SMT
<1>14. (e - d) * 3600 >= EstimatedDuration(r)
  BY <1>5, <1>11, <1>12, <1>13, SMT
<1> QED  BY <1>4, <1>14 DEF Apart, SecondsPerHour

\* The dates were compared from some hour before the runs.
IntervalInvariant ==
  request.recurrence = "cron" /\ state # "none" =>
    \E c \in Nat :
      /\ 24 <= c /\ c <= since
      /\ EnoughIntervalFrom(request, c)
      /\ lastRun # 0 => since \in DatesAfter(request, c)

IntervalInductive == PromiseInductive /\ IntervalInvariant

\* Nothing is compared at first;
LEMMA IntervalInit == ASSUME RequestsAreWellFormed, Init PROVE IntervalInductive
BY PromiseInit DEF Init, IntervalInductive, IntervalInvariant

\* A cron schedule runs on later dates of its expression only.
LEMMA FiresOnADate ==
  ASSUME RequestsAreWellFormed, PromiseInductive, Fire, request.recurrence = "cron"
  PROVE  since' \in Dates(request) /\ since' \in Nat /\ since < since'
<1> DEFINE h == Min(HoursLeft)
<1>1. /\ WellFormedRequest(request) /\ firstWeekday \in 0..6 /\ today \in Days
      /\ MadeFrom(request, schedule) /\ AwsFires(schedule, today)
  BY DEF RequestsAreWellFormed, PromiseInductive, TypeOK, Fire, DueToFire, PromiseInvariant
<1>2. today \in CronDays(request)
  BY <1>1, FiringStartsToday
<1>3. /\ h \in request.hours /\ since' = At(today, h)
      /\ since' \in Nat /\ since < since'
  BY FiresInOrder
<1> HIDE DEF h
<1> QED  BY <1>2, <1>3, DatesOfADay DEF At

\* from the request on, every run is one of the dates that were compared, or later.
LEMMA IntervalStep ==
  ASSUME RequestsAreWellFormed, IntervalInductive, [Next]_vars PROVE IntervalInductive'
<1>1. PromiseInductive /\ PromiseInductive'
  BY PromiseStep DEF IntervalInductive
<1>2. /\ WellFormedRequest(request) /\ today \in Nat \ {0}
      /\ since \in Nat /\ since' \in Nat
  BY <1>1, HorizonType DEF RequestsAreWellFormed, PromiseInductive, TypeOK
<1>3. ASSUME UNCHANGED <<firstWeekday, request>>, NEW c
      PROVE  /\ DatesAfter(request, c)' = DatesAfter(request, c)
             /\ EnoughIntervalFrom(request, c)' <=> EnoughIntervalFrom(request, c)
  <2>1. DatesAfter(request, c)' = DatesAfter(request, c)
    <3>1. CronDays(request)' = CronDays(request)
      BY <1>3, DatesStay
    <3> QED  BY <1>3, <3>1 DEF DatesAfter, Dates, At
  <2> QED
    BY <1>3, <2>1 DEF EnoughIntervalFrom, FirstDates, FarApart, EstimatedDuration
<1>4. CASE Create
  <2> SUFFICES ASSUME request.recurrence = "cron" PROVE IntervalInvariant'
    BY <1>1, <1>4 DEF IntervalInductive, IntervalInvariant, Create
  <2>0. At(today, request.madeAt) \in Nat /\ 24 <= At(today, request.madeAt)
    BY <1>1, <1>2, HoursType DEF At
  <2> PICK c \in Nat : c = At(today, request.madeAt) /\ 24 <= c
    BY <2>0
  <2>1. EnoughIntervalFrom(request, c)
    BY <1>4, EnoughIntervalToday DEF Create
  <2>2. /\ UNCHANGED <<firstWeekday, request>> /\ lastRun' = 0 /\ since' = c
    BY <1>1, <1>4 DEF Create, PromiseInductive, PromiseInvariant
  <2>3. c <= c
    OBVIOUS
  <2>4. EnoughIntervalFrom(request, c)'
    BY <1>3, <2>1, <2>2
  <2> QED  BY <2>2, <2>3, <2>4 DEF IntervalInvariant, EnoughIntervalFrom
<1>5. CASE Start \/ Fire \/ NextDay \/ UNCHANGED vars
  <2> SUFFICES ASSUME request'.recurrence = "cron", state' # "none" PROVE IntervalInvariant'
    BY <1>1 DEF IntervalInductive, IntervalInvariant
  <2>1. UNCHANGED <<firstWeekday, request>>
    BY <1>5 DEF Start, Fire, NextDay, vars
  <2>2. state # "none"
    BY <1>5 DEF Start, DueToStart, Fire, DueToFire, NextDay, vars
  <2>3. PICK c \in Nat :
          /\ 24 <= c /\ c <= since
          /\ EnoughIntervalFrom(request, c)
          /\ lastRun # 0 => since \in DatesAfter(request, c)
    BY <2>1, <2>2 DEF IntervalInductive, IntervalInvariant
  <2>4. /\ EnoughIntervalFrom(request, c)'
        /\ DatesAfter(request, c)' = DatesAfter(request, c)
    BY <1>3, <2>1, <2>3
  <2>5. c <= since' /\ (lastRun' # 0 => since' \in DatesAfter(request, c))
    <3>1. CASE Fire
      <4>1. since' \in Dates(request) /\ since < since'
        BY <1>1, <2>1, <3>1, FiresOnADate
      <4>2. c <= since' /\ since' > c
        BY <1>2, <2>3, <4>1
      <4> QED  BY <4>1, <4>2 DEF DatesAfter
    <3>2. CASE Start \/ NextDay \/ UNCHANGED vars
      <4>1. UNCHANGED <<since, lastRun>>
        BY <3>2 DEF Start, NextDay, vars
      <4> QED  BY <2>3, <4>1
    <3> QED  BY <1>5, <3>1, <3>2
  <2> QED  BY <2>3, <2>4, <2>5 DEF IntervalInvariant
<1> QED  BY <1>4, <1>5 DEF Next

\* Whatever the calendar, for every set of well-formed requests: two runs of a
\* schedule that was compared are far enough from each other for the first one
\* to end, although the check looked at ten dates only, if a week of the
\* expression has no more than nine.
THEOREM WeekdayRunsDoNotOverlap ==
  ASSUME RequestsAreWellFormed PROVE Spec => RunsDoNotOverlap
<1>1. ASSUME IntervalInductive, [Next]_vars
      PROVE  [WeekIsCompared(request) /\ lastRun # 0 /\ since' # since
                => (since' - since) * SecondsPerHour >= EstimatedDuration(request)]_vars
  <2> SUFFICES ASSUME WeekIsCompared(request), lastRun # 0, since' # since
               PROVE  Apart(request, since, since')
    BY DEF Apart
  <2>1. PromiseInductive
    BY <1>1 DEF IntervalInductive
  <2>2. Fire
    BY <1>1, <2>1
    DEF Next, Create, Start, NextDay, vars, PromiseInductive, PromiseInvariant
  <2>3. request.recurrence = "cron"
    BY DEF WeekIsCompared
  <2>4. since' \in Dates(request) /\ since' \in Nat /\ since < since'
    BY <2>1, <2>2, <2>3, FiresOnADate
  <2>5. firstWeekday \in 0..6 /\ since \in Nat /\ OnWeekdays(request) /\ state # "none"
    BY <2>1, <2>2, <2>3
    DEF PromiseInductive, TypeOK, RequestsAreWellFormed, OnWeekdays, WeekIsCompared, Fire,
        DueToFire
  <2>6. PICK c \in Nat :
          /\ 24 <= c /\ c <= since
          /\ EnoughIntervalFrom(request, c)
          /\ since \in DatesAfter(request, c)
    BY <1>1, <2>3, <2>5 DEF IntervalInductive, IntervalInvariant
  <2>7. since' \in DatesAfter(request, c)
    BY <2>4, <2>5, <2>6 DEF DatesAfter
  <2> QED  BY <2>4, <2>5, <2>6, <2>7, AllDatesAreFarApart
<1> QED  BY IntervalInit, IntervalStep, <1>1, PTL DEF Spec, RunsDoNotOverlap
=================================================================================
