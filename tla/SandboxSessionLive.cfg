SPECIFICATION FairSpec
CONSTANTS
  Keys <- ThreeKeys
  Product <- EveryProduct
  Quantities <- LongOnly
  Pnls = {1}
  Capital = 1
  Weekly = FALSE
  QuotesMove = FALSE
  WebOps = {"reset"}
  MaxCrashes = 0
  MaxHeld = 2
  MaxBooked = 0
  MaxCash = 1
  Serial = FALSE
PROPERTIES  IntradayIsFlattened
