\* The code loses a reservation when a closed slot is claimed or reaped before the
\* balance update that would have released it.
SPECIFICATION Spec
CONSTANTS
  MaxAmends = 1
  Levels = 1
  SlotsPerLevel = 2
  MaxOrders = 1
  MaxRejects = 2
  SilenceSpins = 2
  Holds = {TRUE}
  Wants <- OneWant
  QuotedSides <- BuySide
  FlattenQtys = {0}
  Closings = {FALSE}
  Sessions = {"Both"}
  Rooms = {TRUE}
  LaneRooms = {20}
  EventKinds = {"AckPlaced", "PlaceNotSent", "AckFailed", "AckCanceled"}
  Balances = {1}
  LateSlots = {}
  MaxRecon = 0
  MaxWatermark = 1
  MaxPosition = 1
  MaxReserved = 3
INVARIANTS ReservationsAgree
