CONSTANTS
  Clusters = {"stress", "production"}
  Required = "stress"
  UserCounts = {1, 3}
  Others <- MCOthers
  MaxCommands = 3
SPECIFICATION Spec
INVARIANTS TypeOK AppliedIsUsable FileNeverAhead TornDownIsClean OthersUntouched
CHECK_DEADLOCK FALSE
