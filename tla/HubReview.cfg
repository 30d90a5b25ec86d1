CONSTANTS
  w1 = w1  w2 = w2  alice = alice  bob = bob  t1 = t1
  NoClick = NoClick  NoWriter = NoWriter
  NoAgent = NoAgent  NoTask = NoTask  NoRow = NoRow
  Writers = {w1, w2}
  Agents = {alice, bob}
  Tasks = {t1}
  Clicks <- ReviewClicks
  Malformed = {}
  Throwing <- MCThrowing
  MaxEpoch = 3
  Recovers = TRUE
  MaxLost = 1
SPECIFICATION HubSpec
INVARIANTS AckedIsProjected ResolvedLeavesQueue ViewsSound
