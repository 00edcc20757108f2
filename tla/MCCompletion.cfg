SPECIFICATION FairSpec
CONSTANTS
  g1 = g1
  p1 = p1
  p2 = p2
  Regions = {g1}
  Places = {p1, p2}
  HealthyThreshold <- HalfHealthy
  RoundsBelow = FALSE
  MaxStops = 2
  MaxSpurious = 1
  IdleTasksStop = FALSE
INVARIANTS
  TypeOK
  CompletedRegionsAreQuiet
  FailedOnlyOnBreach
PROPERTIES
  PollsEnd
CHECK_DEADLOCK FALSE
