SPECIFICATION FairSpec
CONSTANTS
  Threads = {t1, t2}
  Symbols = {s1}
  NONE = NONE
  s1 = s1
  Requests <- Every
  PaperFails = FALSE
  MaxPos = 1
  MaxEvents = 1
INVARIANTS
  TypeOK
PROPERTIES
  SwitchTakesHold
  SmartOrderMeetsTarget
