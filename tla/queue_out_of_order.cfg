SPECIFICATION Spec
CONSTANTS
  a1 = a1  a2 = a2  a3 = a3  b1 = b1
  pub1 = pub1  pub2 = pub2
  keyA = keyA  NoKey = NoKey  Nil = Nil
  PM = {a1, a2, a3, b1}
  Publishers = {pub1}
  Pullers = {pull1}
  Listers = {}
  Seekers = {}
  Batch <- MixedBatch
  MaxMessages <- PullOne
  QueueSize = 4
  Ordered = TRUE
  Key <- MCKey
  Extendable = {}
  MaxExpiry = 1
INVARIANTS FirstLeasesInOrder
