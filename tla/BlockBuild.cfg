SPECIFICATION Spec
CONSTANTS
  a = a
  b = b
  c = c
  Accounts = {a, b}
  Contract = c
  Txs <- MCTxs
  Genesis <- MCGenesis
  Balance = 6
  GasLimit = 7
  TxGas = 2
  CreateGas = 3
  ExtraGas = 20
  BaseGas = 50
  MinerReward = 1
  StockReward = 1
  OffSlot = OffSlot
  None = None
  Slots = {0, 1}
  MaxBlocks = 2
INVARIANTS
  TypeOK
  BlockReplays
  NoncesConsecutive
  GasWithinLimit
PROPERTY
  RefusedAccountSkipped
CHECK_DEADLOCK FALSE
