\* A record of an unknown user, flushed, and a restart.
SPECIFICATION SpecBuckets
CONSTANTS
  FormerColumns = {}
  FormerRows = {}
  Users = {"alice"}
  Clients = {"vidhub"}
  MaxRecords = 1
  MaxEnds = 1
INVARIANT PageLists
CHECK_DEADLOCK FALSE
