SPECIFICATION Spec
CONSTANTS
  o1 = o1
  o2 = o2
  p1 = p1
  Own <- TwoOwn
  Prior <- OnePrior
  Buys <- Both
  Commands = {"Cancel","Status","Snapshot","CancelPrior"}
  Refusals <- Usual
  RestFails = {FALSE}
  Latches = {"Shutdown"}
  MayGiveUp = {FALSE}
  SideLimit = 1
  Lingers = FALSE
  FoldsEarly = FALSE
  MaxUnderway = 1
  MaxNews = 1
  MaxRest = 1
  MaxBacklog = 1
SYMMETRY Alike
INVARIANTS TypeOK NeverForgets SideLimitHolds QuotesAlone
CHECK_DEADLOCK FALSE
