\* Two sessions, one failure or restart, one change.
SPECIFICATION Spec
CONSTANTS
  Callers = {"timer", "user"}
  MaxSessions = 2
  MaxFailures = 1
  MaxChanges = 1
INVARIANTS
  TypeOK
PROPERTIES
  AnswersOfTheCall
  RefreshSparesItsSession
  NeverOlder
  DeadSessionIsNoticed
CHECK_DEADLOCK FALSE
