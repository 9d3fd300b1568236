SPECIFICATION Spec
CONSTANTS
  Legs <- TwoLegs
  NONE = NONE
  Symbol <- OwnSymbol
  Prices = {1, 2, 4, 5}
  Entries = {3}
  Fills = {3}
  Strategies <- MixedStrategies
INVARIANTS
  StopBehindPeak
  BreachedLegIsExiting
PROPERTIES
  StopNeverLoosens
  FloorNeverFalls
CHECK_DEADLOCK FALSE
