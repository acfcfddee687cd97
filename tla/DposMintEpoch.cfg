SPECIFICATION Spec
CONSTANTS
  a1 = a1
  a2 = a2
  l1 = l1
  None = None
  Addresses <- MCAddresses
  Signer = a1
  LocalValidator = a1
  Loops <- MCOneLoop
  BlockInterval = 3
  EpochInterval = 6
  MaxValidatorSize = 1
  GenesisTime = 2
  MaxTime = 14
  Timings <- MCLate
INVARIANT MintedDposStateVerifies
CHECK_DEADLOCK FALSE
