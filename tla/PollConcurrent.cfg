CONSTANTS
  w1 = w1  w2 = w2  p1 = p1
  wanted = wanted  other = other  mistyped = mistyped
  NoClick = NoClick  NoWriter = NoWriter
  Writers = {w1, w2}
  Pollers = {p1}
  Clicks <- MCClicks
  Malformed = {}
  Throwing <- MCThrowing
  Wanted <- MCWanted
  Limit = 1
  Window = 3
  MaxEpoch = 3
  Recovers = TRUE
SPECIFICATION PollSpec
PROPERTY NoMissedMatch
