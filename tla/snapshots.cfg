CONSTANTS
  A = A m1 = m1 m2 = m2 m3 = m3 some = some p1 = p1 p2 = p2 s1 = s1 c1 = c1 c2 = c2
  None = None Deleted = Deleted
  Topic = {A}
  Sub = {s1}
  Msg = {m1, m2, m3}
  Filter = {some}
  Passes <- MCPasses
  Publisher = {p1, p2}
  Batch <- MCBatch
  PublishTo <- MCPublishTo
  Source <- MCSource
  Creator = {c1, c2}
  Asks <- MCAsks
  Deleter = {d1}
  Updater = {u1}
  Name <- MCName
  MaxClock = 1
  Snap = {n1}
  Taker = {t1}
  Seeker = {k1}
  Hand = {h1}
SPECIFICATION NarrowSpec
INVARIANTS TypeOK PendingIsStored FanOutReaches SnapshotIsComplete SeekGivesBack SeekReplaces
CHECK_DEADLOCK FALSE
