SPECIFICATION NarrowSpec
CONSTANTS
  m2 = m2  s2 = s2
  Msg = {m1, m2}
  Stream = {s1, s2}
  ChanCap = 1
  PullMax = 2
  Wrap = 2
PROPERTIES  MessagesReachAStream
\* The system stops once the subscription is deleted and its streams have left.
CHECK_DEADLOCK FALSE
