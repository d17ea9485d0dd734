\* One tab and everything that can go wrong between it and its engine.
SPECIFICATION Spec
CONSTANTS
  older = older
  newer = newer
  Tabs <- OneTab
  BootEpoch <- Boots
  OnLoss = "Idle"
  Mishaps = {"silence", "expiry", "move", "close", "restart", "peerFrame"}
  RingSize = 2
  MaxFlight = 2
  MaxPresses = 2
  MaxMishaps = 2
  Feeds = TRUE
INVARIANTS TypeOK TabIsHonest CellsAgree LostIsIdle
PROPERTIES ViewNeverRewinds
