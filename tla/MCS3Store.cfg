CONSTANTS
  Writers = {w1, w2}
  Nothing = Nothing
  Sizes = {0, 1, 2, 5}
  PART_SIZE = 2
  MaxChunk = 2
  MinPart = 2
  MaxParts = 2
SPECIFICATION Spec
INVARIANTS
  TypeOK
  ObjectIsWhole
  CompleteIsAcceptable
  BufferBound
  LeakNeedsUnexecutedCall
PROPERTIES
  StoreSpec
  StoreReturns
CHECK_DEADLOCK FALSE
