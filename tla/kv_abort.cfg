SPECIFICATION Spec
CONSTANTS
  NoValue = NoValue
  MaxPropCnt = 2
  MaxCalls = 3
  Scenarios <- KvScenarios
VIEW View
CHECK_DEADLOCK FALSE
INVARIANTS
  NeverAborts
