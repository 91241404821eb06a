SPECIFICATION Spec
CONSTANTS
  AcceptorNum = 3
  Values = {v1, v2}
  NoValue = NoValue
  EnablePreAuth = TRUE
  Writers = {0, 1}
  Readers = {}
  MaxReads = 0
  MaxCrashes = 0
  CleanStops = TRUE
  MaxPlogErrors = 0
  MaxEvictions = 1
  MaxCleanups = 0
  Duplicates = FALSE
  MaxLosses = 0
  MaxTimeouts = 1
SYMMETRY Symmetry
CHECK_DEADLOCK FALSE
INVARIANTS
  Agreement
