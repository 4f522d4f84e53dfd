SPECIFICATION Spec
CONSTANTS
  r1 = r1
  r2 = r2
  A = A
  B = B
  Reservations <- Two
  LongStays <- Two
  Rooms <- TwoRooms
  Horizon = 8
  Plans <- Neighbours
  Corrections = 2
  Effective <- At6
CHECK_DEADLOCK FALSE
INVARIANTS TypeOK StayIsWhole EveryRoomLeftIsOwedWork OneGuestPerRoom
PROPERTIES CleanUnlessMovedInto
SYMMETRY Symmetry

CONSTRAINT EarlyAndFewChanges
