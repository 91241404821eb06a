SPECIFICATION Spec
CONSTANTS
  AcceptorNum = 3
  Values = {v1}
  NoValue = NoValue
  EnablePreAuth = TRUE
  Writers = {0}
  Readers = {1}
  MaxReads = 2
  MaxCrashes = 1
  CleanStops = FALSE
  MaxPlogErrors = 0
  MaxEvictions = 0
  MaxCleanups = 0
  Duplicates = FALSE
  MaxLosses = 0
  MaxTimeouts = 0
CHECK_DEADLOCK FALSE
INVARIANTS
  ReadsAreFresh
