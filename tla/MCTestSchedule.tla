----------------------------- MODULE MCTestSchedule -----------------------------
(***************************************************************************)
(* Instances of TestSchedule for TLC.                                      *)
(***************************************************************************)
EXTENDS TestSchedule

\* December to March; a month of 31 days is followed by one of 28.
Winter == <<31, 31, 28, 31>>

\* Made in the morning, for noon, unless said otherwise.
Cron5(dom, dow, expiry, duration) ==
  [recurrence |-> "cron", first |-> 0, dom |-> dom, dow |-> dow, hours |-> {12}, madeAt |-> 8,
   expiry |-> expiry, duration |-> duration, noRampUp |-> FALSE, taskCount |-> 10]

Recurrent(recurrence, first) ==
  [recurrence |-> recurrence, first |-> first, dom |-> All, dow |-> All, hours |-> {12},
   madeAt |-> 8, expiry |-> 0, duration |-> 60, noRampUp |-> FALSE, taskCount |-> 10]

DayFields == {All, On({1}), On({31}), On({1, 15}), On({10, 11})}
Weekdays == {On({0}), On({1}), On(1..5), On({0, 6}), On({1, 3, 5}), Nth(2, 3), Nth(6, 5)}

\* At most one day field is restricted, none is "?", and there is an expiry
\* date, in this year or the next.  Tests of 60 s, and of 46 hours.
OnceADay ==
  {Cron5(dom, All, expiry, duration) :
      dom \in DayFields, expiry \in {20, 75}, duration \in {60, 165600}}
    \cup {Cron5(All, dow, expiry, duration) :
      dow \in Weekdays, expiry \in {20, 75}, duration \in {60, 165600}}
    \cup {Recurrent(recurrence, first) :
      recurrence \in {"daily", "weekly", "biweekly", "monthly", "once"}, first \in {2, 28}}

\* Several hours a day, made before, between and after them; tests shorter and
\* longer than the hours are apart; one whose dates are not compared.
SeveralADay ==
  {[Cron5(All, On(weekdays), 20, duration) EXCEPT !.hours = hours, !.madeAt = madeAt] :
      weekdays \in {{1}, {0, 6}, {1, 3, 5}}, hours \in {{0, 12}, {6, 9, 23}},
      madeAt \in {8, 23}, duration \in {60, 10800}}
    \cup {[Cron5(On({1, 31}), All, 75, 60) EXCEPT !.hours = {0, 12}],
          [Cron5(All, On({0, 6}), 20, 165600) EXCEPT !.hours = {6, 9}, !.noRampUp = TRUE]}

WellFormed == OnceADay \cup SeveralADay

\* common/test/cron.test.ts lets these pass.
QuestionMarks == {Cron5(Any, On({1, 2, 3, 5}), 75, 60), Cron5(On({5}), Any, 75, 60)}
=================================================================================
