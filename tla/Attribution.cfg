\* Two users, a token, two keys, an item and two concurrent requests.
SPECIFICATION Spec
CONSTANTS
  u1 = u1
  u2 = u2
  t = t
  device = device
  ip = ip
  item = item
  Users = {u1, u2}
  Tokens = {t}
  Keys = {device, ip}
  Items = {item}
  NoOne = nobody
  Blank = blank
  NoToken = none
  NoItem = none
  Shapes <- Household
  Requests = {q1, q2}
  CacheTTL = 1
  RecentTTL = 1
  Timeout = 1
SYMMETRY Symmetry
INVARIANTS
PROPERTIES
  TokensAreFresh
  GuessesAreWitnessed
  ItemKeepsItsPlayer
