CONSTANTS
  c1 = c1
  c2 = c2
  n1 = n1
  u1 = u1
  u2 = u2
  p1 = p1
  l1 = l1
  None = None
  Conns <- TwoConns
  Nodes <- OneNode
  Logics <- OneLogic
  Users <- TwoUsers
  Platforms <- OnePlatform
  RedisErrors = TRUE
  MaxRestarts = 1
SPECIFICATION PresenceSpec
CHECK_DEADLOCK FALSE
SYMMETRY Symm
INVARIANTS
  OpenIsFound
  LocationNamesOwner
  NoMisdelivery
