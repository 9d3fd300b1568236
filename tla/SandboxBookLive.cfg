SPECIFICATION FairSpec
CONSTANTS
  Clients = {c1}
  Engines = {poll}
  Orders = {o1, o2, o3}
  NONE = NONE
  Keys <- OneKey
  Product <- Intraday
  LotSize <- UnitLot
  Leverage <- SideLeverage
  Holding <- NoHolding
  Requests <- RestingRequests
  Changes <- ToMarket
  Targets <- SmartTargets
  Ltps = {2}
  Capital = 8
  Ops = {"place", "modify"}
  Serial = FALSE
PROPERTIES
  MarketOrdersAreFilled
CHECK_DEADLOCK FALSE
