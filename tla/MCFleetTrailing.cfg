CONSTANTS
  LatencyFloor = 1
  LatencyCeiling = 4
  Metrics = {"cpu"}
  Limits <- MCLimits
  Abort <- MCAbort
  ShardCount = 2
  StartRPS = 2
  StepRPS = 2
  MaxRPS = 6
  StepDuration = 2
  Loads <- MCLoads
  Elapsed = {2}
SPECIFICATION QuietSpec
INVARIANT TrailingStepsDontMatter
CHECK_DEADLOCK FALSE
