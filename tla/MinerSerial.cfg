SPECIFICATION FairSpec
CONSTANTS
  c1 = c1
  c2 = c2
  Update = Update
  Callers <- MCCallers
  LoopIds <- MCLoopIds
  Requests <- MCBoth
  MaxRequests = 4
  Serial = TRUE
INVARIANTS
  TypeOK
  OneMintLoop
  StopperClosedOnce
  NoLoopWhileSyncing
  StartHonoured
  StopHonoured
PROPERTIES
  StartEventuallyMines
  StopEventuallyStops
CHECK_DEADLOCK FALSE
