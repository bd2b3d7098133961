SPECIFICATION FairSpec
CONSTANTS
  m2 = m2  s2 = s2
  Msg = {m1}
  Stream = {s1}
  ChanCap = 1
  PullMax = 1
  Wrap = 2
PROPERTIES EveryStreamEnds
\* The system stops once the subscription is deleted and its streams have left.
CHECK_DEADLOCK FALSE
