SPECIFICATION Spec
CONSTANTS
  g = g
  p1 = p1
  p2 = p2
  p3 = p3
  q1 = q1
  q2 = q2
  None = None
  Genesis = g
  Blocks <- MCBlocks
  Parent <- MCParent
  Number <- MCNumber
  MaxCrashes = 2
  MaxSetHeads = 2
INVARIANTS
  TypeOK
  HeadStored
  CanonicalIsBranch
  HeaderOnBranch
  HeadIsHighest
PROPERTY
  Refinement
CHECK_DEADLOCK FALSE
