SPECIFICATION FairSpec
CONSTANTS
  cron = cron
  desk1 = desk1
  desk2 = desk2
  Tasks = {cron, desk1}
  Cron = cron
  Legs = {1}
  LegSide <- LongOnly
  Directions = {"both"}
  Runs = {1, 2}
  Modes = {"sandbox"}
  Answers = {"filled", "resting", "refused"}
  AutoStop = TRUE
  MaxOrders = 2
  MaxCrashes = 1
  Serial = TRUE
  NONE = NONE
INVARIANT
  LockedDeskIsStopped
PROPERTIES
  RecoveryInventsNothing
  RunsEnd
CHECK_DEADLOCK FALSE
