CONSTANTS
  Requests = {r1, r2, r3}
  Hashes = {h1, h2}
  NoRequest = NoRequest
  NEGATIVE_TTL = 1
  POSITIVE_TTL = 2
  UNRESOLVED_TTL = 2
  SWEEP_THRESHOLD = 0
  S3_TIMEOUT = 1
  ATTEMPT_TIMEOUT = 1
  MaxTime = 3
SPECIFICATION Spec
SYMMETRY Interchangeable
INVARIANT SweptSpread
PROPERTY LiveSlotsStay
