CONSTANTS
    u1 = u1
    u2 = u2
    feeAddr = feeAddr
    poolAddr = poolAddr
    Users <- MCUsers
    FeeAddr = feeAddr
    PoolAddr = poolAddr
    GenesisBalance <- MCGenesisBalance
    Fees = {0, 1, 2}
    Amounts = {1}
    GoodChoices <- MCGoodOne
    ReadOnlyEvm = FALSE
    MaxNonce = 2
    MaxBlocks = 2
    Pools <- MCPools
    MaxTxCount = 2
    MinRemainingGas = 1
    BatchGasLimit = 3
    MaxCheckNonceFutureDelta = 0
    MaxMessages = 1
    MaxEmit = 2
    Submissions <- MCSubmissions
SPECIFICATION SchedFairSpec
INVARIANT SchedTypeOK FeesConserved IncludedTxsPaid MessagesWithinSlots
PROPERTY BlocksComplete
CHECK_DEADLOCK FALSE
