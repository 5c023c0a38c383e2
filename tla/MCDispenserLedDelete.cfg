SPECIFICATION Spec
CONSTANTS
  FIRESTORE_UPDATE_RETRIES = 1
  MaxTurns = 1
INVARIANTS
  NoDoubleDelete
CHECK_DEADLOCK FALSE
