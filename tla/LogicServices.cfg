CONSTANTS
  Msgs = {m1, m2, m3, m4}
  BatchSize = 2
  QueueCap = 1
  DBErrors = TRUE
  Tasks = {t1, t2}
  Workers = {w1}
  SlotCount = 2
  QueueSize = 1
  Delays <- TwoDelays
  None = None
  Users <- TwoUsers
  Groups <- OneGroup
  ConvMsgs <- Two
  Scripts <- PeerAndGroup
  MaxBreaks = 1
SPECIFICATION ServicesSpec
CHECK_DEADLOCK FALSE
INVARIANTS
  ServicesTypeOK
  InOrderOnce
  ExecutedOnce
  OnTime
  UnreadIsRouted
PROPERTIES
  EventuallyFlushed
  AddedRuns
  ConversationsListed
