SPECIFICATION FairSpec
CONSTANTS
  NoRun = NoRun
  r1 = r1
  g1 = g1
  Runs = {r1}
  Regions = {g1}
  StartableStatuses <- WhenIdle
  MaxCancels = 2
  Faults = {"dashboard", "stabilization", "parse", "completionCheck", "threshold", "stopExecution", "increment"}
  QueuedWriteLags = TRUE
INVARIANTS
  RunsCountedOnce
PROPERTIES
  RunsAreRecorded
  CancelIsCarriedOut
CHECK_DEADLOCK FALSE
