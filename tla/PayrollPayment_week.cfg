SPECIFICATION Spec
CONSTANTS
  e1 = e1
  e2 = e2
  Earnings <- Two
  LastWeek = 3
  Amounts <- Fees
  Corrections <- Down
  MaxBook = 3
  MaxAttempts = 2
CHECK_DEADLOCK FALSE
INVARIANTS MoneyIsConserved EveryAmountHasItsPlace LockFollowsItsAttempt
PROPERTIES FinalIsFinal
SYMMETRY Symmetry
