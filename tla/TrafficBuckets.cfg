\* Former databases, two records, and two ends of the process.
SPECIFICATION SpecBuckets
CONSTANTS
  FormerColumns <- SomeColumns
  FormerRows <- SomeRows
  Users = {"alice"}
  Clients = {"vidhub"}
  MaxRecords = 2
  MaxEnds = 2
INVARIANTS
  RowsSurvive
  ServesCurrentSchema
  EachRecordOnce
  DetailFollowsList
  BucketsStay
PROPERTIES
  EveryStartServes
CHECK_DEADLOCK FALSE
