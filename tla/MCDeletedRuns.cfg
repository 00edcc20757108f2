SPECIFICATION Spec
CONSTANTS
  NoRun = NoRun
  q1 = q1
  q2 = q2
  r1 = r1
  r2 = r2
  Requests = {q1, q2}
  Runs = {r1, r2}
  Apart <- UsersKeepApart
  IdleOnly <- StatusOps
  BetweenUpdates = {"delete"}
  Unprocessed = TRUE
  MaxLosses = 0
  Drifts = {0}
PROPERTIES
  DeletedRunsAreGone
CHECK_DEADLOCK FALSE
