\* Two orders among public liquidity that comes, goes and is lost from sight.
SPECIFICATION Spec
CONSTANTS
  MaxOrders = 2
  Placements <- Quotes
  AmendQtys = {1}
  Updates <- Levels
  Prints <- Trades
  BookCapacity = 1
  Tick = 1
  Step = 1
  MinQty = 1
  MinNotional = 0
  MaxOrdersPerSide = 2
  MaxAmends = 1
  Scale = 2
  FeeNum = 1
  FeeDen = 2
  Opening <- Wealth
  MaxTimeline = 1
  MaxStaged = 1
  Staging <- Wide
INVARIANTS TypeOK WalletBalances QueuesAreSound
PROPERTIES PlaceNeverWorsens FairFills
CHECK_DEADLOCK FALSE
