SPECIFICATION SpecOffline
CONSTANTS
  m1 = m1
  m2 = m2
  None = None
  Maids <- TwoMaids
  Requesters = {}
  MaxTarget = 2
  MaxAttempt = 2
  Originals <- Both
  Checkouts <- One
  RoomOf <- TwoRooms
  MaxVersion = 2
  MaxSubmission = 1
SYMMETRY MaidSymmetry
CHECK_DEADLOCK FALSE
INVARIANTS
  OneRunningPerMaid
  LiveLeaseIsBacked
PROPERTY OfflineKeepsTheBook
