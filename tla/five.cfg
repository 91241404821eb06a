SPECIFICATION FairSpec
CONSTANTS
  AcceptorNum = 5
  Values = {v1}
  NoValue = NoValue
  EnablePreAuth = FALSE
  Writers = {0}
  Readers = {}
  MaxReads = 0
  MaxCrashes = 0
  CleanStops = TRUE
  MaxPlogErrors = 0
  MaxEvictions = 0
  MaxCleanups = 0
  Duplicates = FALSE
  MaxLosses = 0
  MaxTimeouts = 1
CHECK_DEADLOCK FALSE
PROPERTIES
  AllLearn
