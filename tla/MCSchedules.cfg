SPECIFICATION Spec
CONSTANTS
  MonthLengths <- Winter
  NewYear = 2
  Requests <- WellFormed
INVARIANTS
  TypeOK
  NoPromiseIsMissed
  PollsFitTheHistory
PROPERTIES
  FiringsArePromised
  RunsDoNotOverlap
CHECK_DEADLOCK FALSE
