SPECIFICATION FairSpec
CONSTANTS
  WIFI_MAXIMUM_RETRY = 1
  HOLD = 2
  MaxCuts = 1
INVARIANTS
  TypeOK
  OneServicesTask
  ActuatorsReady
PROPERTIES
  WipeOnlyWhenAsked
  EventuallyReprovisions
