\* Reservations on venues that lock funds themselves, where a release waits for a balance
\* update, and on venues that do not: amends over a lane to the edge that may take nothing
\* for spins on end, and snapshots that name an order already reaped.
SPECIFICATION Spec
CONSTANTS
  MaxAmends = 1
  Levels = 1
  SlotsPerLevel = 1
  MaxOrders = 1
  MaxRejects = 1
  SilenceSpins = 1
  Holds = {TRUE, FALSE}
  Wants <- Sizes
  QuotedSides <- BuySide
  FlattenQtys = {0}
  Closings = {TRUE, FALSE}
  Sessions = {"Both"}
  Rooms = {TRUE}
  LaneRooms = {0, 20}
  EventKinds = {"AckPlaced", "PlaceNotSent", "ReportTrade", "AckCanceled", "SnapshotOrder", "AmendNotSent", "AckAmended"}
  Balances = {1}
  LateSlots = {0}
  MaxRecon = 0
  MaxWatermark = 1
  MaxPosition = 1
  MaxReserved = 2
INVARIANTS NeverFreedTwice
PROPERTIES  WorkingKeepsReservation
