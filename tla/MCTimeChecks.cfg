SPECIFICATION Spec
CONSTANTS
  Dates <- MCDates
  MaxTimes = 3
CHECK_DEADLOCK FALSE
INVARIANTS
  ChecksFindOverlaps
