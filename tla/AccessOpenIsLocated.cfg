CONSTANTS
  c1 = c1
  c2 = c2
  c3 = c3
  n1 = n1
  u1 = u1
  u2 = u2
  p1 = p1
  None = None
  Conns <- TwoConns
  Nodes <- OneNode
  Users <- OneUser
  Platforms <- OnePlatform
  RedisErrors = FALSE
  MaxRestarts = 0
SPECIFICATION AccessSpec
CHECK_DEADLOCK FALSE
INVARIANTS
  OpenIsLocated
