SPECIFICATION PromptSpec
CONSTANTS
  MAX_COMPARTMENTS = 2
  MaxId = 2
  MaxClock = 2
  FIRESTORE_UPDATE_RETRIES = 1
  MaxGiro = 1
  Schedules <- Malformed
  EditKinds = {}
  MaxEdits = 0
  MaxRestarts = 0
  MaxServings = 2
INVARIANTS
  MarkInArray
