SPECIFICATION FairSpec
CONSTANTS
  c1 = c1
  c2 = c2
  Clients = {c1, c2}
  Tokens = {1}
  Modes = {1}
  Cap = 1
  MaxTries = 1
  Serial = TRUE
  Fatal = {TRUE, FALSE}
  MaxDrops = 2
  MaxKeys = 2
  MaxPending = 2
INVARIANTS
  TypeOK
  
  PauseCanEnd
PROPERTY
  WantedComesBack
CHECK_DEADLOCK FALSE
