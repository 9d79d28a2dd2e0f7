CONSTANTS
    a1 = a1
    a2 = a2
    a3 = a3
    n1 = n1
    n2 = n2
    Addr <- MCAddr
    TxChoices <- MCTxTransfers
    MaxLen = 2
    NumGroups = 2
    Nodes <- MCNodesTwo
SPECIFICATION Spec
INVARIANT SplitAgreement
CHECK_DEADLOCK FALSE
