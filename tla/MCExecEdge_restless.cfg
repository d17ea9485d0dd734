SPECIFICATION Spec
CONSTANTS
  o1 = o1
  o2 = o2
  p1 = p1
  Own <- OneOwn
  Prior = {}
  Buys <- OneOwn
  Commands = {"Cancel","Amend","Halt"}
  Refusals <- Usual
  RestFails = {TRUE,FALSE}
  Latches = {"Shutdown","Park"}
  MayGiveUp = {FALSE}
  SideLimit = 1
  Lingers = FALSE
  FoldsEarly = FALSE
  MaxUnderway = 1
  MaxNews = 2
  MaxRest = 1
  MaxBacklog = 0
INVARIANT SweepLeavesNothing
 
INVARIANT QuotesVerified
CHECK_DEADLOCK FALSE
