CONSTANTS
  m1 = m1
  m2 = m2
  m3 = m3
  w1 = w1
  w2 = w2
  NoMsg = NoMsg
  Msgs <- MCThree
  Workers <- MCOneWorker
  BufferSize = 1
  BatchSize = 1
  QueueCap = 1
  DBErrors = FALSE
SPECIFICATION ChatSpec
CHECK_DEADLOCK FALSE
PROPERTIES
  ShutdownEnds
