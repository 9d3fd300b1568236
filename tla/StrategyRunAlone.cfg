SPECIFICATION FairSpec
CONSTANTS
  Tasks = {t1}
  Legs = {1, 2}
  Runs = {1, 2}
  Ops = {"start", "stop", "close", "tick"}
  MaxCrashes = 1
  NONE = NONE
INVARIANTS
  TypeOK
  NoExitWithoutEntry
  
  NoLegExitedTwice
  StoppedRunHoldsNothing
  HeldLegIsWatched
PROPERTY FlatRunEnds
CHECK_DEADLOCK FALSE
