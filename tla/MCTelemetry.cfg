SPECIFICATION TelemetrySpec
CONSTANTS
  MaxRestarts = 2
  UserLengths = {0, 35, 36, 63}
  EspLengths = {0, 15, 16}
INVARIANTS
  TelemetryTypeOK
  FlagVouches
  StatusDated
  TopicOfDevice
PROPERTIES
  StuckWithoutTime
  LostTimeRecovered
  ServicesEnd
CHECK_DEADLOCK FALSE
