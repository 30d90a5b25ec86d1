CONSTANTS
  w1 = w1  w2 = w2  alice = alice  bob = bob  t1 = t1
  NoClick = NoClick  NoWriter = NoWriter
  NoAgent = NoAgent  NoTask = NoTask  NoRow = NoRow
  Writers = {w1, w2}
  Agents = {alice, bob}
  Tasks = {t1}
  Clicks <- BoardClicks
  Malformed = {}
  Throwing <- MCThrowing
  MaxEpoch = 2
  Recovers = TRUE
  MaxLost = 0
SPECIFICATION HubSpec
INVARIANT BoardFollowsLog
