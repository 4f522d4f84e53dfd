SPECIFICATION Spec
CONSTANTS
  Keys = {k1, k2}
  Requests = {r1, r2}
  Workers = {w1}
  Nothing = Nothing
  MaxLease = 2
  MaxDay = 1
  MaxPurge = 1
SYMMETRY Symmetry
INVARIANTS TypeOK LedgerFollowsCompensation
PROPERTIES SlotPromise
