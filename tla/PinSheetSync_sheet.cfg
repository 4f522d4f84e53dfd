SPECIFICATION Spec
CONSTANTS
  Rooms = {r1}
  Workers = {w1, w2}
  Nothing = Nothing
  MaxVersion = 2
  MaxResync = 2
  MaxFence = 2
  MaxRetry = 2
SYMMETRY Symmetry
INVARIANTS TypeOK EveryPinIsOwed UncertainWritesStop DrainIsReal
PROPERTIES SuccessIsVisible
CHECK_DEADLOCK FALSE
