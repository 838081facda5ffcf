CONSTANTS
  Nothing = Nothing
  StreamConns = {c1}
  Workers = {w1, w2}
  QueueSize = 1
  WriteChanSize = 1
  MaxFrames = 2
  MaxPushes = 1
SPECIFICATION StreamSpec
CHECK_DEADLOCK FALSE
INVARIANTS
  FramesWhole
