\* Quotes on both sides, and the position they make to flatten beside them; and the meter
\* over two buckets.
SPECIFICATION BudgetSpec
CONSTANTS
  MaxAmends = 1
  Levels = 1
  SlotsPerLevel = 2
  MaxOrders = 1
  MaxRejects = 2
  SilenceSpins = 2
  Holds = {FALSE}
  Wants <- Verdicts
  QuotedSides <- BothSides
  FlattenQtys = {0, 1}
  Closings = {FALSE}
  Sessions = {"Both", "ReducingOnly"}
  Rooms = {TRUE, FALSE}
  LaneRooms = {20}
  EventKinds = {"ReportTrade"}
  Balances = {2}
  LateSlots = {}
  MaxRecon = 0
  MaxWatermark = 0
  MaxPosition = 1
  MaxReserved = 2
  second = second
  minute = minute
  Windows = {second, minute}
  Span <- Lengths
  MaxPlaces <- Two
  MaxStamp = 11
  MaxPlaced = 2
INVARIANTS WithinOrderLimit  NeverOverspends
