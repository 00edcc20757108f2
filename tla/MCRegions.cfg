SPECIFICATION Spec
CONSTANTS
  NoRun = NoRun
  r1 = r1
  g1 = g1
  g2 = g2
  Runs = {r1}
  Regions = {g1, g2}
  StartableStatuses <- WhenIdle
  MaxCancels = 0
  Faults = {"runningCheck", "createService", "dashboard", "stabilization", "regionalSync", "start", "completionCheck", "threshold", "parse", "statusWrite", "cleanup", "invoke"}
  QueuedWriteLags = FALSE
INVARIANTS
  TypeOK
  FinishedRunsLeaveNoService
  StartedRegionsKeepTheirService
SYMMETRY RegionSymmetry
CHECK_DEADLOCK FALSE
