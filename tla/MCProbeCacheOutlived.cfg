CONSTANTS
  Requests = {r1, r2, r3}
  Hashes = {h1}
  NoRequest = NoRequest
  NEGATIVE_TTL = 1
  POSITIVE_TTL = 3
  UNRESOLVED_TTL = 3
  SWEEP_THRESHOLD = 1
  S3_TIMEOUT = 2
  ATTEMPT_TIMEOUT = 2
  MaxTime = 5
SPECIFICATION Spec
SYMMETRY Interchangeable
INVARIANT NoProbeOutlivesItsSlot
