CONSTANTS
  w1 = w1  w2 = w2  alice = alice  bob = bob  path = path
  NoClick = NoClick  NoWriter = NoWriter
  NoAgent = NoAgent  NoCall = NoCall  NoEntry = NoEntry
  Writers = {w1, w2}
  Agents = {alice, bob}
  Paths = {path}
  Pinnable = {1, 2}
  Ttls = {1, 3}
  Wrap = 4
  MaxPins = 1
  DropShare = 1
  MaxClock = 1
  Clicks <- MCClicks
  Malformed <- MCMalformed
  Throwing = {}
  MaxEpoch = 2
  Recovers = TRUE
SPECIFICATION FairToolsSpec
INVARIANTS ToolsTypeOK ReservationLogged NewestReservation
PROPERTIES NoSilentTakeover EvictionKeeps CallsReturn
