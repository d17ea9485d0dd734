SPECIFICATION FairSpec
CONSTANTS
  o1 = o1
  o2 = o2
  p1 = p1
  Own <- OneOwn
  Prior = {}
  Buys <- OneOwn
  Commands = {"Cancel"}
  Refusals <- Usual
  RestFails = {FALSE}
  Latches = {"Shutdown","Park"}
  MayGiveUp = {TRUE,FALSE}
  SideLimit = 1
  Lingers = TRUE
  FoldsEarly = TRUE
  MaxUnderway = 1
  MaxNews = 1
  MaxRest = 1
  MaxBacklog = 0
INVARIANT OwedIsInFlight
PROPERTY EveryPlaceAnswered
 
CHECK_DEADLOCK FALSE
