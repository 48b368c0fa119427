\* Two requests of at most one chunk, one mishap, one restart.
SPECIFICATION Spec
CONSTANTS
  Requests = {r1, r2}
  MaxChunks = 1
  MaxMishaps = 1
  MaxLives = 2
INVARIANTS
  TypeOK
  AccountedOnce
  NothingVanishes
  LossHasACause
  RecordsAreExact
  ActiveIsInFlight
PROPERTIES
  ImplementsLedger
  BookedSettles
\* The last process may be down for good.
CHECK_DEADLOCK FALSE
