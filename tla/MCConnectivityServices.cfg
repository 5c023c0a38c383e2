SPECIFICATION FairSpec
CONSTANTS
  WIFI_MAXIMUM_RETRY = 1
  HOLD = 1
  MaxCuts = 0
PROPERTIES
  ServicesComeUp
