------------------------------ MODULE PollInterval ------------------------------
(***************************************************************************)
(* How long the state machine waits between two completion polls, and how  *)
(* many polls a test of a given duration (in seconds) can take.  A poll    *)
(* loop runs in a child execution whose history must stay below the limit  *)
(* of Step Functions.                                                      *)
(***************************************************************************)
EXTENDS Integers

MaxPollCycles == 2222
MinPollIntervalSeconds == 10
MaxPollIntervalSeconds == 60
GracePeriodSeconds == 300

\* Of Step Functions: events a cycle leaves in the history, those of the states
\* before the loop and after it (a cleanup at most), and the limit.
EventsPerCycle == 9
EventsAround == 16
HistoryLimit == 25000

CeilDiv(a, b) == (a + b - 1) \div b

Clamped(interval) ==
  LET floored == IF interval < MinPollIntervalSeconds
                   THEN MinPollIntervalSeconds ELSE interval
  IN  IF floored > MaxPollIntervalSeconds THEN MaxPollIntervalSeconds ELSE floored

\* Without the budget in cycles the interval was fixed.
FixedInterval(testDuration) == MinPollIntervalSeconds

ComputePollIntervalSeconds(testDuration) ==
  IF testDuration <= 0 THEN MinPollIntervalSeconds
  ELSE Clamped(CeilDiv(testDuration + GracePeriodSeconds, MaxPollCycles))

\* The clock starts with the first poll, and the loop ends at the first poll
\* past the deadline, testDuration + grace.
MaxPolls(testDuration) ==
  (testDuration + GracePeriodSeconds) \div ComputePollIntervalSeconds(testDuration) + 2

\* The poll loop never exhausts its execution's history.
HistorySuffices(testDuration) ==
  EventsPerCycle * MaxPolls(testDuration) + EventsAround <= HistoryLimit
=================================================================================
