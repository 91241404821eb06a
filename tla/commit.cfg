SPECIFICATION Spec
CONSTANTS
  MaxEntry = 3
  MaxCatchupNum = 2
  MaxReplayNum = 1
  QueueSize = 2
  Scenarios <- CommitScenarios
INVARIANTS
  TypeOK
  
  ContIsBacked
  ContNotAboveChosen
  RecoveryUnderWay
  ReplayIsFresh
PROPERTIES
  KnownIsCommitted
