CONSTANTS
    a1 = a1
    a2 = a2
    a3 = a3
    n1 = n1
    n2 = n2
    Addr <- MCAddr
    TxChoices <- MCTxAll
    MaxLen = 3
    NumGroups = 2
    Nodes <- MCNodesOne
SPECIFICATION Spec
SYMMETRY MCSymmetry
INVARIANT TypeOK NoTxInTwoGroups TransferEndpointsSeparated
CHECK_DEADLOCK FALSE
