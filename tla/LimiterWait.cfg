\* A user's stream and another under one global limit, reads above the
\* burst, one update, two clients gone.
SPECIFICATION Spec
CONSTANTS
  q1 = q1
  q2 = q2
  l1 = l1
  l2 = l2
  Requests = {q1, q2}
  Limiters = {l1, l2}
  Chain <- UserAndGlobal
  Limits = {0, 1, 2}
  Initial <- Starts
  MaxRead = 2
  MaxUpdates = 1
  MaxCancels = 2
  Scale = 2
INVARIANTS
  RateBound
  PaidInFull
  RefusedOnlyByAChange
PROPERTIES
  WaitsEnd
