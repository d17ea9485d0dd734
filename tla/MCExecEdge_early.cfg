SPECIFICATION Spec
CONSTANTS
  o1 = o1
  o2 = o2
  p1 = p1
  Own <- OneOwn
  Prior = {}
  Buys <- OneOwn
  Commands = {}
  Refusals = {}
  RestFails = {FALSE}
  Latches = {"Shutdown"}
  MayGiveUp = {FALSE}
  SideLimit = 1
  Lingers = FALSE
  FoldsEarly = TRUE
  MaxUnderway = 1
  MaxNews = 1
  MaxRest = 1
  MaxBacklog = 1
INVARIANT QuotesVerified
CHECK_DEADLOCK FALSE
