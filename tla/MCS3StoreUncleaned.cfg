CONSTANTS
  Writers = {w1}
  Nothing = Nothing
  Sizes = {0, 2, 3}
  PART_SIZE = 2
  MaxChunk = 2
  MinPart = 2
  MaxParts = 2
SPECIFICATION Spec
INVARIANT FailedStoreTriedAbort
CHECK_DEADLOCK FALSE
