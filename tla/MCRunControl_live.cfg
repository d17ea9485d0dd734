\* Two tabs on one engine: nothing goes back, and every assertion ends on a verdict over
\* dropped markers, engine restarts and the dead man's switch.
SPECIFICATION FairSpec
CONSTANTS
  older = older
  newer = newer
  Tabs <- TwoTabs
  BootEpoch <- Boots
  OnLoss = "Idle"
  Mishaps = {"restart", "peerFrame", "silence"}
  RingSize = 1
  MaxFlight = 1
  MaxPresses = 1
  MaxMishaps = 2
  Feeds = FALSE
PROPERTIES NoOscillation ControlConverges 
