CONSTANTS
  A = A m1 = m1 m2 = m2 m3 = m3 some = some p1 = p1 p2 = p2 s1 = s1 c1 = c1 c2 = c2
  None = None Deleted = Deleted
  Topic = {A}
  Sub = {s1}
  Msg = {m1, m2, m3}
  Filter = {some}
  Passes <- MCPasses
  Publisher = {p1, p2}
  Batch <- MCBatch
  PublishTo <- MCPublishTo
  Source <- MCSource
  Creator = {c1}
  Asks <- MCAsks
  Deleter = {}
  Updater = {}
  Name <- MCName
  MaxClock = 1
  Snap = {}
  Taker = {}
  Seeker = {k1}
  Hand = {}
SPECIFICATION NarrowSpec
PROPERTIES SeekKeepsLater
CHECK_DEADLOCK FALSE
