SPECIFICATION Spec
CONSTANTS
  MonthLengths <- Winter
  NewYear = 2
  Requests <- QuestionMarks
INVARIANTS
  AcceptedSchedulesStart
CHECK_DEADLOCK FALSE
