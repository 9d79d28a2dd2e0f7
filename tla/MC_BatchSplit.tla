---------------------------- MODULE MC_BatchSplit ----------------------------
EXTENDS BatchSplit, TLC

CONSTANTS a1, a2, a3, n1, n2

MCAddr == {a1, a2, a3}

\* every transaction a batch may hold: uncached (any call but evm.Call, or
\* an entry the node lacks), cached non-transfer (evm.Call of a contract),
\* cached transfer (evm.Call of an account without code)
MCTxAll ==
    {t \in [s : MCAddr, r : MCAddr, cached : BOOLEAN, transfer : BOOLEAN] :
        ~t.cached => ~t.transfer}

\* cached transfers only, with distinct (sender, receiver) pairs in a batch
\* being the interesting case for the grouping itself
MCTxTransfers ==
    [s : MCAddr, r : MCAddr, cached : {TRUE}, transfer : {TRUE}]

MCNodesOne == {n1}
MCNodesTwo == {n1, n2}

MCSymmetry == Permutations(MCAddr)
=============================================================================
