CONSTANTS
  Pods = {"p1", "p2"}
  BotCount = 1
  Calls = {"c1"}
  MaxExecutes = 1
SPECIFICATION Spec
INVARIANTS SetupIsIndependent
CHECK_DEADLOCK FALSE
