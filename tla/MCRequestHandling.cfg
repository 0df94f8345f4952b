CONSTANTS
  Requests = {r1, r2}
  MAX_BYTES = 2
  Paths <- MCPaths
  Kinds <- AllKinds
  Nothing = Nothing
SPECIFICATION Spec
INVARIANTS
  TypeOK
  UploadReadBeforeAnswer
  NeverServerError
  KeysAreInert
  OnlyWholeAuthorisedBodies
  PutStatusIsTrue
PROPERTIES
  KeysKeepContract
  OnlyUploadsStall
CHECK_DEADLOCK FALSE
