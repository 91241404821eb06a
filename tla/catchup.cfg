SPECIFICATION FairSpec
CONSTANTS
  AcceptorNum = 3
  Values = {v1}
  NoValue = NoValue
  EnablePreAuth = TRUE
  Writers = {0}
  Readers = {2}
  MaxReads = 1
  MaxCrashes = 0
  CleanStops = TRUE
  MaxPlogErrors = 0
  MaxEvictions = 0
  MaxCleanups = 1
  Duplicates = FALSE
  MaxLosses = 1
  MaxTimeouts = 1
CHECK_DEADLOCK FALSE
PROPERTIES
  CaughtUp
