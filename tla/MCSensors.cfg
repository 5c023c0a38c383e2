SPECIFICATION SensorsSpec
CONSTANTS
  RESP_BUF_SIZE = 4
  EspIds = {"absent", "long"}
  MaxRequests = 3
  MaxFaults = 2
INVARIANTS
  SensorsTypeOK
  ReadingWhole
  MessageMixesOnePass
  ReadingAge
  PromptReplyAccepted
PROPERTY PassEnds
CHECK_DEADLOCK FALSE
