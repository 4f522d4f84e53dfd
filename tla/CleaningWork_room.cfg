SPECIFICATION Spec
CONSTANTS
  m1 = m1
  m2 = m2
  None = None
  Maids <- TwoMaids
  Requesters <- TwoMaids
  MaxTarget = 2
  MaxAttempt = 3
  Originals <- Both
  Checkouts <- One
  RoomOf <- SharedRoom
  MaxVersion = 3
  MaxSubmission = 1
SYMMETRY MaidSymmetry
CHECK_DEADLOCK FALSE
INVARIANTS
  OneBlockingAttemptPerTarget
  OneRunningPerRoom
  RunningIsAuthorised
  TargetsTellOneStory
