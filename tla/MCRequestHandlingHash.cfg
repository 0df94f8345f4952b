CONSTANTS
  Requests = {r1, r2}
  MAX_BYTES = 2
  Paths <- MCPaths
  Kinds <- AllKinds
  Nothing = Nothing
SPECIFICATION Spec
INVARIANT OnlyDocumentedHashes
CHECK_DEADLOCK FALSE
