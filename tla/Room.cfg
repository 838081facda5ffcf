CONSTANTS
  u1 = u1
  u2 = u2
  u3 = u3
  r1 = r1
  r2 = r2
  Creator = u1
  Reqs <- MCReqs
  Users <- MCUsers
  SeatCount = 2
  TargetSeats <- MCTargets
  MaxVer = 5
SPECIFICATION Spec
SYMMETRY Symm
CHECK_DEADLOCK FALSE
INVARIANTS
  TypeOK
  LatestIsPushed
PROPERTIES
  ImplementsTable
