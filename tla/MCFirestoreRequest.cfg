SPECIFICATION Spec
CONSTANTS
  InitialCapacity = 4
  Pieces = {0, 1, 3, 4, 9}
  MaxBody = 14
  MaxLens = {0, 1, 5}
INVARIANTS
  TypeOK
  BufferFits
  NothingLeaks
  CopyFits
  BodyComplete
CHECK_DEADLOCK FALSE
