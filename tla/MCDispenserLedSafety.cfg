SPECIFICATION Spec
CONSTANTS
  FIRESTORE_UPDATE_RETRIES = 2
  MaxTurns = 2
INVARIANTS
  TypeOK
  NoOrphans
  BlinkEnds
  PatternOnlyAfterFailure
CHECK_DEADLOCK FALSE
