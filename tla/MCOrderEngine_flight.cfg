\* Answers, timeouts and silence on a side with two rungs: a venue that does not lock funds.
SPECIFICATION Spec
CONSTANTS
  MaxAmends = 1
  Levels = 2
  SlotsPerLevel = 1
  MaxOrders = 2
  MaxRejects = 2
  SilenceSpins = 2
  Holds = {FALSE}
  Wants <- OneWant
  QuotedSides <- BuySide
  FlattenQtys = {0}
  Closings = {FALSE}
  Sessions = {"Both", "Neither"}
  Rooms = {TRUE}
  LaneRooms = {20}
  EventKinds = {"AckPlaced", "AckFailed"}
  Balances = {2}
  LateSlots = {}
  MaxRecon = 1
  MaxWatermark = 0
  MaxPosition = 1
  MaxReserved = 2
INVARIANTS TypeOK
PROPERTIES PlacesOneAtATime  HaltIsFinal
