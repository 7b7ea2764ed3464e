CONSTANTS
  MaxAttempts = 2
SPECIFICATION FairSpec
INVARIANTS
  TypeOK
  EndedLeavesNothing
  OneRejectionPerSession
PROPERTIES
  SilenceIsNoticed
  StopEnds
  RejectionIsReported
CHECK_DEADLOCK FALSE
