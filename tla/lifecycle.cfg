SPECIFICATION FairSpec
CONSTANTS
  c1 = c1  c2 = c2  d1 = d1  d2 = d2  u1 = u1
  None = None
  Request = {c1, c2, d1, d2, u1}
  Kind <- MCKind
INVARIANTS TypeOK MapsAgree NoStrayDispatcher OneCreationWins
PROPERTIES CancelledStops
\* Every request is answered once and the system stops.
CHECK_DEADLOCK FALSE
