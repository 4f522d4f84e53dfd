SPECIFICATION Spec
CONSTANTS
  e1 = e1
  e2 = e2
  Earnings <- Two
  LastWeek = 3
  Amounts <- Fees
  Corrections <- Down
  MaxBook = 1
  MaxAttempts = 1
CHECK_DEADLOCK FALSE
INVARIANTS CarryFindsItsWeek
