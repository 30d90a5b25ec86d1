CONSTANTS
  w1 = w1  w2 = w2  w3 = w3
  plain = plain  urgent = urgent  mistyped = mistyped  malformed = malformed
  NoClick = NoClick  NoWriter = NoWriter
  Writers = {w1}
  Clicks <- MCClicks
  Malformed <- MCMalformed
  Throwing <- MCThrowing
  MaxEpoch = 3
  Recovers = FALSE
SPECIFICATION Spec
PROPERTY AppendOnly
