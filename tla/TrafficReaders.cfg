\* Two requests of at most one chunk, two reads, a mishap and a restart.
SPECIFICATION SpecReaders
CONSTANTS
  Requests = {r1, r2}
  MaxChunks = 1
  MaxMishaps = 1
  MaxLives = 2
  MaxReads = 2
SYMMETRY Symmetry
INVARIANTS
  CountedAtMostTwice
  PageNamesItsRows
PROPERTIES
  CalmSummaryIsExact
CHECK_DEADLOCK FALSE
