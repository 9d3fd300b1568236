SPECIFICATION Spec
CONSTANTS
  cron = cron
  desk1 = desk1
  desk2 = desk2
  Tasks = {cron, desk1}
  Cron = cron
  Legs = {1}
  LegSide <- EitherSide
  Directions = {"both", "long_only"}
  Runs = {1, 2}
  Modes = {"sandbox"}
  Answers = {"filled", "resting", "refused"}
  AutoStop = TRUE
  MaxOrders = 3
  MaxCrashes = 0
  Serial = TRUE
  NONE = NONE
INVARIANTS
  TypeOK
  
  SquaredRunIsFlat
  ExitsFollowEntries
CHECK_DEADLOCK FALSE
