CONSTANTS
  u1 = u1
  u2 = u2
  u3 = u3
  r1 = r1
  r2 = r2
  Creator = u1
  Reqs <- MCReqs
  Users <- MCPair
  SeatCount = 1
  TargetSeats <- MCTargets1
  MaxVer = 5
SPECIFICATION Spec
CHECK_DEADLOCK FALSE
PROPERTIES
  NobodyLeftOut
  InactiveRoomEvicted
