SPECIFICATION Spec
CONSTANTS
  m2 = m2  s2 = s2
  Msg = {m1, m2, m3}
  Stream = {s1, s2}
  ChanCap = 1
  PullMax = 3
  Wrap = 2
SYMMETRY Symmetry
INVARIANTS TypeOK NoClosedConsumer NoLostWakeup
PROPERTIES BatchGoesToOneWithRoom
\* The system stops once the subscription is deleted and its streams have left.
CHECK_DEADLOCK FALSE
