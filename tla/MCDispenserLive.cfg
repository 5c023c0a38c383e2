SPECIFICATION TaskSpec
CONSTANTS
  MAX_COMPARTMENTS = 2
  MaxId = 2
  MaxClock = 2
  FIRESTORE_UPDATE_RETRIES = 2
  MaxGiro = 1
  Schedules <- InOrder
  EditKinds = {}
  MaxEdits = 0
  MaxRestarts = 1
  MaxServings = 2
PROPERTIES
  MotorStops
  LocksReturned
  DueDoseServed
  TurnRecorded
