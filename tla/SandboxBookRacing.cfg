SPECIFICATION Spec
CONSTANTS
  Clients = {c1}
  Engines = {tick, poll}
  Orders = {o1, o2}
  NONE = NONE
  Keys <- OneKey
  Product <- Intraday
  LotSize <- UnitLot
  Leverage <- SideLeverage
  Holding <- NoHolding
  Requests <- RacingRequests
  Changes <- RacingChanges
  Targets <- SmartTargets
  Ltps = {0, 2}
  Capital = 5
  Ops = {"place", "close", "cancel", "modify"}
  Serial = FALSE
SYMMETRY Symmetry
INVARIANTS
  TypeOK
  EquityNeverDestroyed
  OnlyAcceptedOrdersTrade
PROPERTIES
  FundsRowIsALedger
CHECK_DEADLOCK FALSE
