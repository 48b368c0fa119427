\* No failed statement and no crash: only the regular way down.
SPECIFICATION Spec
CONSTANTS
  Requests = {r1, r2}
  MaxChunks = 1
  MaxMishaps = 0
  MaxLives = 1
INVARIANTS
  GracefulShutdownKeepsRecords
CHECK_DEADLOCK FALSE
