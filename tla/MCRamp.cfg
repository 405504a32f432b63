CONSTANTS
  LatencyFloor = 1
  LatencyCeiling = 4
  Metrics = {"cpu", "fds"}
  Limits <- MCLimits
  Abort <- MCAbort
  StartRPS = 1
  StepRPS = 1
  MaxRPS = 3
  Warmup = 1
  Settle = 0
  Calls = {"c1", "c2"}
  Results <- MCResults
  Readings <- MCReadings
  Elapsed = {1, 2}
SPECIFICATION FairSpec
INVARIANTS TypeOK OnePollerAtATime ReportCountsOwnCalls SpikeMarksStep
PROPERTIES KeepsContract Terminates
CHECK_DEADLOCK FALSE
