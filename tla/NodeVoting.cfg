SPECIFICATION Spec
CONSTANTS
  Candidates = {c1, c2}
  Voters = {v1, v2}
  Zero = Zero
  Blackable = {x, y, Zero}
  Tokens = {0, 1, 2}
  MaxUint = 4
  MaxCalls = 7
  MaxDirect = 1
SYMMETRY Symmetry
INVARIANTS
  TypeOK
  TicketsAreVotes
  DepositCoversVotes
  BlacksListedOnce
CHECK_DEADLOCK FALSE
