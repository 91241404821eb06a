SPECIFICATION PartSpec
CONSTANTS
  AcceptorNum = 3
  Values = {v1, v2}
  NoValue = NoValue
  EnablePreAuth = TRUE
  Writers = {0, 1}
  Readers = {2}
  MaxReads = 2
  MaxCrashes = 1
  CleanStops = TRUE
  MaxPlogErrors = 0
  MaxEvictions = 0
  MaxCleanups = 1
  Duplicates = FALSE
  MaxLosses = 0
  MaxTimeouts = 2
SYMMETRY Symmetry
CONSTRAINT FewEvents
CHECK_DEADLOCK FALSE
INVARIANTS
  Agreement
  ChosenIdsAgree
  AckedIsChosen
  NoParkedMsg
  AssertsHold
  PreAuthUnique
  ValueIdUnique
  ReadsAreFresh
  OneWriteWins
