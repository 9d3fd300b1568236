SPECIFICATION Spec
CONSTANTS
  Keys <- ThreeKeys
  Product <- EveryProduct
  Quantities <- LongOnly
  Pnls <- Gain
  Capital = 2
  Weekly = TRUE
  QuotesMove = TRUE
  WebOps = {"squareoff", "settle", "reset", "reconcile"}
  MaxCrashes = 1
  MaxHeld = 1
  MaxBooked = 1
  MaxCash = 2
  Serial = TRUE
INVARIANTS TypeOK MarginIsCovered EquityNeverDestroyed
 
