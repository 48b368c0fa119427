\* One save in a process that loaded a hashed password.
SPECIFICATION Spec
CONSTANTS
  Savers = {h1}
  Limits = {0, 5}
  NoLimit = 0
  ApiKeys = {k1, k2}
  Passwords = {builtin, secret}
  Requests <- FourRequests
  k1 = k1
  k2 = k2
  secret = secret
  BuiltIn = builtin
  Unset = unset
  Empty = empty
  None = nobody
  MaxSaves = 1
  MaxFaults = 0
  MaxLives = 1
INVARIANT PasswordTakesEffect
CHECK_DEADLOCK FALSE
