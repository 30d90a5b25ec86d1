CONSTANTS
  w1 = w1  w2 = w2  alice = alice  bob = bob  t1 = t1
  NoClick = NoClick  NoWriter = NoWriter
  NoAgent = NoAgent  NoTask = NoTask  NoRow = NoRow  NoCall = NoCall  NoSlice = NoSlice  frontend = frontend
  Writers = {w1, w2}
  Agents = {alice, bob}
  Tasks = {t1}
  Clicks <- MCClicks
  Posted <- MCPosted
  Offered <- MCOffered
  Malformed = {}
  Throwing <- MCThrowing
  Slices = {NoSlice}
  TaskRows = 2
  RecentCap = 1
  MaxEpoch = 2
  Recovers = TRUE
  MaxLost = 0
SYMMETRY Symmetry
SPECIFICATION TasksSpec
INVARIANTS TasksTypeOK RepliesFollowTask
PROPERTIES ClaimWarnings 
