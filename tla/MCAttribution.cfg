CONSTANTS
  auth = auth
  gone = gone
  Targets <- MCTargets
  Exposed <- MCExposed
  Loads <- MCLoads
  Generators <- MCGenerators
  PprofTargets = {auth, gone}
  Configs <- MCConfigs
  ClientTimeout = 15
  MaxProfile = 30
  MaxSteps = 3
  Budgets <- MCBudgets
  Word = 65536
SPECIFICATION MCSpec
INVARIANTS TypeOK BlamesOnlyFailures JudgedByLastPass EvidenceOfOneStep ProfileNamesItsStep LatencyOfTheStep
CHECK_DEADLOCK FALSE
