SPECIFICATION Spec
CONSTANTS
  AcceptorNum = 3
  Values = {v1}
  NoValue = NoValue
  EnablePreAuth = TRUE
  Writers = {0}
  Readers = {2}
  MaxReads = 1
  MaxCrashes = 1
  CleanStops = FALSE
  MaxPlogErrors = 1
  MaxEvictions = 1
  MaxCleanups = 0
  Duplicates = FALSE
  MaxLosses = 0
  MaxTimeouts = 1
CHECK_DEADLOCK FALSE
CONSTRAINT OneSortOfFault
INVARIANTS
  TypeOK
  NoParkedMsg
  AssertsHold
PROPERTIES
  SentIsPersistent
  PlogAdvances
