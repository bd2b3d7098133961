SPECIFICATION FairSpec
CONSTANTS
  a1 = a1  a2 = a2  a3 = a3  b1 = b1
  pub1 = pub1  pub2 = pub2
  keyA = keyA  NoKey = NoKey  Nil = Nil
  PM = {a1, a2, b1}
  Publishers = {pub1, pub2}
  Pullers = {pull1}
  Listers = {}
  Seekers = {}
  Batch <- TwoBatches
  MaxMessages <- PullTwo
  QueueSize = 3
  Ordered = TRUE
  Key <- MCKey
  Extendable = {a1}
  MaxExpiry = 2
INVARIANTS Exclusive OneLeasePerKey NoLossBelowCapacity AttemptsCountLeases
PROPERTIES NoLeaseCutShort EveryWaitEnds
