CONSTANTS
  w1 = w1  w2 = w2  plain = plain  mistyped = mistyped
  NoClick = NoClick  NoWriter = NoWriter
  Writers = {w1, w2}
  Clicks = {plain, mistyped}
  Malformed = {}
  Throwing = {mistyped}
  MaxEpoch = 3
  Recovers = TRUE
  SnapshotLimit = 2
SPECIFICATION FairConsoleSpec
INVARIANTS ConsoleTypeOK OneConnection TimelineComplete
PROPERTY KeepsTrying
