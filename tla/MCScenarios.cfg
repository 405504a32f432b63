CONSTANTS
  ShardCount = 2
  Configs <- MCConfigs
  FixtureFiles <- MCFixtureFiles
  MaxUsers = 3
  MaxFailed = 1
  MaxCalls = 3
  MaxInFlight = 2
  MaxClock = 3
SPECIFICATION FairSpec
INVARIANTS
  TypeOK
  ShardsApart
  ReplayIsARotationApart
  LockNeedsRotations
  PickedByWeight
  ErrorsStopAtTheLock
  ClientsOutliveCalls
PROPERTY LoginsEnd
\* A pod whose Setup failed has exited, and the clock is bounded.
CHECK_DEADLOCK FALSE
