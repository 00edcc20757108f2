SPECIFICATION FairScanSpec
CONSTANTS
  NoRun = NoRun
  r1 = r1
  g1 = g1
  Runs = {r1}
  Regions = {g1}
  StartableStatuses <- WhenIdle
  MaxCancels = 1
  Faults = {"dashboard", "statusWrite", "invoke"}
  QueuedWriteLags = FALSE
INVARIANTS
  ScanTypeOK
  FinishedRunsLeaveNoService
  ScanSparesTheRunsItSaw
PROPERTIES
  ServicesAreReleased
