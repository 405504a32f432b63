CONSTANTS
  LatencyFloor = 1
  LatencyCeiling = 4
  Metrics = {"cpu"}
  Limits <- MCLimits
  Abort <- MCAbort
  ShardCount = 2
  StartRPS = 2
  StepRPS = 2
  MaxRPS = 4
  StepDuration = 2
  Loads <- MCLoads
  Elapsed = {3}
SPECIFICATION Spec
INVARIANTS TypeOK FullRange OnlyMeasuredData MergeIsLossless
PROPERTIES PodsKeepContract
CHECK_DEADLOCK FALSE
