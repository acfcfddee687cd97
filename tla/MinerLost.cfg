SPECIFICATION Spec
CONSTANTS
  c1 = c1
  c2 = c2
  Update = Update
  Callers <- MCCallers
  LoopIds <- MCLoopIds
  Requests <- MCStartOnly
  MaxRequests = 1
  Serial = FALSE
INVARIANT StartHonoured
CHECK_DEADLOCK FALSE
