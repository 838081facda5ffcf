CONSTANTS
  Conns = {c1, c2}
  Nodes = {n1}
  Users = {u1}
  Platforms = {p1}
  None = None
  RedisErrors = TRUE
  MaxRestarts = 1
  Nothing = Nothing
  StreamConns = {s1}
  Workers = {w1, w2}
  QueueSize = 1
  WriteChanSize = 2
  MaxFrames = 2
  MaxPushes = 2
  MaxConnects = 3
SPECIFICATION EdgeSpec
CHECK_DEADLOCK FALSE
INVARIANTS
  RequestInOnePlace
  PushesInOrder
  OneSession
PROPERTIES
  EndedIsForgotten
  QueuedIsHandled
  LogoutCloses
