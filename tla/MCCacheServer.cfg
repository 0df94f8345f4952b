CONSTANTS
  Requests = {r1, r2, r3}
  Puts = {r3}
  Hashes = {h1}
  NoRequest = NoRequest
  NEGATIVE_TTL = 1
  POSITIVE_TTL = 2
  UNRESOLVED_TTL = 2
  SWEEP_THRESHOLD = 1
  S3_TIMEOUT = 1
  ATTEMPT_TIMEOUT = 1
  MaxTime = 2
SPECIFICATION ServerSpec
INVARIANTS
  ServerTypeOK
  ReadAfterWrite
  FailuresStayPrivate
PROPERTY GetsAreAnswered
