CONSTANTS
  Cores = 2
  MaxTime = 4
SPECIFICATION Spec
INVARIANTS NeverOverReports
CHECK_DEADLOCK FALSE
