CONSTANTS
    u1 = u1
    u2 = u2
    feeAddr = feeAddr
    poolAddr = poolAddr
    Users <- MCUsers
    FeeAddr = feeAddr
    PoolAddr = poolAddr
    GenesisBalance <- MCGenesisBalance
    Fees = {0, 1, 2}
    Amounts = {1}
    GoodChoices <- MCGoodOne
    ReadOnlyEvm = TRUE
    MaxNonce = 2
    MaxBlocks = 2
SPECIFICATION Spec
INVARIANT FeesConserved
CHECK_DEADLOCK FALSE
