CONSTANTS
  LatencyFloor = 1
  LatencyCeiling = 4
  Metrics = {"cpu"}
  Limits <- MCLimits
  Abort <- MCAbort
  ShardCount = 2
  StartRPS = 2
  StepRPS = 2
  MaxRPS = 4
  StepDuration = 2
  Loads <- MCLoads
  Elapsed = {3}
SPECIFICATION Spec
INVARIANT OfferedIsFleetTarget
CHECK_DEADLOCK FALSE
