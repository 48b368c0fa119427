\* One client rule, two handlers with three operations, two requests.
SPECIFICATION Spec
CONSTANTS
  Users = {}
  Clients = {c}
  Servers = {}
  NoKey = none
  Admins = {a1, a2}
  Requests = {q1, q2}
  Limits = {0, 1}
  MaxOps = 3
  MaxMishaps = 1
  MaxLives = 2
SYMMETRY Symmetry
INVARIANTS
  StaleOnlyAfterRemoval
  AgreesUnlessRaced
CHECK_DEADLOCK FALSE
