SPECIFICATION Spec
CONSTANTS
  c1 = c1
  c2 = c2
  Update = Update
  Callers <- MCCallers
  LoopIds <- MCLoopIds
  Requests <- MCStartOnly
  MaxRequests = 2
  Serial = FALSE
INVARIANT OneMintLoop
CHECK_DEADLOCK FALSE
