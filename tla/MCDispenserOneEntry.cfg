SPECIFICATION PromptSpec
CONSTANTS
  MAX_COMPARTMENTS = 2
  MaxId = 2
  MaxClock = 2
  FIRESTORE_UPDATE_RETRIES = 1
  MaxGiro = 1
  Schedules <- InOrder
  EditKinds = {"arm"}
  MaxEdits = 1
  MaxRestarts = 0
  MaxServings = 2
PROPERTIES
  UpdateTouchesOneEntry
