SPECIFICATION Spec
CONSTANTS
  Clients = {c1}
  Engines = {poll}
  Orders = {o1, o2, o3}
  NONE = NONE
  Keys <- OneKey
  Product <- Intraday
  LotSize <- UnitLot
  Leverage <- SideLeverage
  Holding <- NoHolding
  Requests <- MixedRequests
  Changes <- MixedChanges
  Targets <- SmartTargets
  Ltps = {0, 2, 3}
  Capital = 8
  Ops = {"place", "smart", "closeall", "cancelall", "modify"}
  Serial = TRUE
SYMMETRY Symmetry
INVARIANTS
  TradesMatchOrders
  CommittedMarginIsCovered
  NoMoneyMinted
  NetMatchesAppliedTrades
CHECK_DEADLOCK FALSE
