SPECIFICATION Spec
CONSTANTS
  a1 = a1  a2 = a2  a3 = a3  b1 = b1
  pub1 = pub1  pub2 = pub2
  keyA = keyA  NoKey = NoKey  Nil = Nil
  PM = {a1, a2}
  Publishers = {pub1}
  Pullers = {pull1}
  Listers = {list1}
  Seekers = {seek1}
  Batch <- OneEach
  MaxMessages <- PullTwo
  QueueSize = 1
  Ordered = TRUE
  Key <- MCKey
  Extendable = {a1}
  MaxExpiry = 1
INVARIANTS TypeOK Conservation
PROPERTIES KeepsPromise
