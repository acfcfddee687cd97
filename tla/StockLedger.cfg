CONSTANTS
    Accounts = {a1, a2}
    NoAccount = zero
    NoStock = NoStock
    Modulus = 16
    Numbers <- MCNumbers
    Rewards <- MCRewards
    MaxList = 3
SPECIFICATION Spec
CHECK_DEADLOCK FALSE
INVARIANTS
    TypeOK
    StockListed
    PayoutWithinPool
    WrapNeedsFrozen
    RemainderOnlyLeft
    PanicNeedsNoActiveStock
PROPERTY
    StockNeedsManager
