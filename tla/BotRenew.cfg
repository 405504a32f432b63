CONSTANTS
  Pods = {"p1", "p2"}
  BotCount = 2
  Calls = {"c1", "c2"}
  MaxExecutes = 3
SPECIFICATION Spec
INVARIANTS TypeOK LockedOnlyAfterMishap NeverUsesClosed NothingLeftOpen
CHECK_DEADLOCK FALSE
