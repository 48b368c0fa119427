\* One user and one server, two handlers with two operations, two requests,
\* a restart.
SPECIFICATION Spec
CONSTANTS
  Users = {u}
  Clients = {}
  Servers = {s}
  NoKey = none
  Admins = {a1, a2}
  Requests = {q1, q2}
  Limits = {0, 1}
  MaxOps = 2
  MaxMishaps = 1
  MaxLives = 2
SYMMETRY Symmetry
INVARIANTS
  TypeOK
  SharedLimiters
  AgreesUnlessRaced
CHECK_DEADLOCK FALSE
