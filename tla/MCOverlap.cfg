SPECIFICATION Spec
CONSTANTS
  NoRun = NoRun
  r1 = r1
  r2 = r2
  g1 = g1
  Runs = {r1, r2}
  Regions = {g1}
  StartableStatuses <- AnyTime
  MaxCancels = 1
  Faults = {}
  QueuedWriteLags = FALSE
INVARIANTS
  FinishedRunsLeaveNoService
  CancelledRunsDoNotFinish
PROPERTIES
  HistoryIsFinal
  ImplementsRunLedger
SYMMETRY RunSymmetry
CHECK_DEADLOCK FALSE
