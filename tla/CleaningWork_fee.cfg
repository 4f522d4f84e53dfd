SPECIFICATION Spec
CONSTANTS
  m1 = m1
  m2 = m2
  None = None
  Maids <- TwoMaids
  Requesters = {}
  MaxTarget = 4
  MaxAttempt = 4
  Originals <- One
  Checkouts <- One
  RoomOf <- OneRoom
  MaxVersion = 3
  MaxSubmission = 1
SYMMETRY MaidSymmetry
CHECK_DEADLOCK FALSE
INVARIANT ReplacementIsPaidLikeTheOriginal
