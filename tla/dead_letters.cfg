CONSTANTS
  Msg = {m1, m2}
  Handler = {h1, h2}
  DeadSub = {d1, d2}
  MaxAttempts = 3
  PullMax = 2
  DeadCapacity = 1
  MaxBirths = 1
SYMMETRY Symmetry
SPECIFICATION Spec
INVARIANTS TypeOK DeliveriesBounded OnlyExhausted
PROPERTIES NothingFallsBetween
CHECK_DEADLOCK FALSE
