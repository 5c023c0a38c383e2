SPECIFICATION Spec
CONSTANTS
  MAX_COMPARTMENTS = 2
  MaxId = 2
  MaxClock = 2
  FIRESTORE_UPDATE_RETRIES = 2
  MaxGiro = 1
  Schedules <- EitherOrder
  EditKinds = {"arm", "remove"}
  MaxEdits = 1
  MaxRestarts = 1
  MaxServings = 2
INVARIANTS
  TypeOK
  HolderInv
  FetchPaused
  RecordedEverywhere
  AtMostOnce
  MarkInArray
PROPERTIES
  OnlyTurnedRecorded
  LapseCauses
  KeepsLedger
