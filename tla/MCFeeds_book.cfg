\* Both markets, two levels and four update ids, the last the largest there is;
\* one order of the simulated exchange; a gate with room for two of three streams.
SPECIFICATION FeedsSpec
CONSTANTS
  near = near
  far = far
  order = order
  Own = {order}
  Prior = {}
  Buys = {order}
  SideLimit = 1
  Fates = {"Rests", "Crossed", "Filtered"}
  Entry = 1
  Ack = 1
  MaxMark = 2
  MaxFlips = 2
  MaxCommands = 2
  MaxEvents = 2
  Levels <- TwoLevels
  Nothing = Nothing
  MaxId = 4
  Rules = {"Spot", "Perp"}
  Capacity = 2
  MaxStream = 1
  here = here
  there = there
  elsewhere = elsewhere
  Streams = {here, there, elsewhere}
  MaxKeys = 2
  Ttl = 2
  MaxTime = 4
  MaxBoot = 1
  MaxSeq = 1
SYMMETRY Alike
INVARIANTS TypeOK  EdgeMatchesVenue SettledIsResolved
PROPERTIES ShowsVenueBook ResetsOnlyOnLoss RewindsOnlyAfterSilence
CHECK_DEADLOCK FALSE
