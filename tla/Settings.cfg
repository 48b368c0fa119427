\* Two handlers, three saves, a failed call and a restart.
SPECIFICATION Spec
CONSTANTS
  Savers = {h1, h2}
  Limits = {0, 5}
  NoLimit = 0
  ApiKeys = {k1, k2}
  Passwords = {builtin, secret}
  Requests <- FourRequests
  k1 = k1
  k2 = k2
  secret = secret
  BuiltIn = builtin
  Unset = unset
  Empty = empty
  None = nobody
  MaxSaves = 3
  MaxFaults = 1
  MaxLives = 2
INVARIANTS
  TypeOK
  FileFollowsMemory
  LimitsFollowConfig
PROPERTIES
  ImplementsStore
  KeyKeptUnlessRaced
  SavesEnd
CHECK_DEADLOCK FALSE
