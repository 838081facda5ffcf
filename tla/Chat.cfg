CONSTANTS
  m1 = m1
  m2 = m2
  m3 = m3
  w1 = w1
  w2 = w2
  NoMsg = NoMsg
  Msgs <- MCThree
  Workers <- MCWorkers
  BufferSize = 1
  BatchSize = 2
  QueueCap = 1
  DBErrors = TRUE
SPECIFICATION ChatSpec
CHECK_DEADLOCK FALSE
PROPERTIES
  Answered
INVARIANTS
 ChatTypeOK
 OnePlace
 AckedIsKept
 StoppedWhenQuiet
