SPECIFICATION Spec
CONSTANTS
  NoRun = NoRun
  q1 = q1
  q2 = q2
  r1 = r1
  r2 = r2
  Requests = {q1, q2}
  Runs = {r1, r2}
  Apart <- UsersKeepApart
  IdleOnly <- StatusOps
  BetweenUpdates = {"delete"}
  Unprocessed = FALSE
  MaxLosses = 1
  Drifts = {0, 1}
SYMMETRY Symmetry
INVARIANTS
  TypeOK
  BaselineIsARun
  CounterInStep
  SafeStatusMeansNoRun
  DeletedScenariosLeaveNothing
  ScheduledMeansASchedule
PROPERTIES
  StaysDeleted
CHECK_DEADLOCK FALSE
