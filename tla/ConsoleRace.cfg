CONSTANTS
  w1 = w1  w2 = w2  plain = plain  mistyped = mistyped
  NoClick = NoClick  NoWriter = NoWriter
  Writers = {w1, w2}
  Clicks = {plain}
  Malformed = {}
  Throwing = {}
  MaxEpoch = 2
  Recovers = TRUE
  SnapshotLimit = 2
SPECIFICATION ConsoleSpec
INVARIANT TimelineFollowsLog
