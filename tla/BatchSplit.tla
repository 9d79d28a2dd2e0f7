------------------------------ MODULE BatchSplit ------------------------------
(***************************************************************************)
(* The parallel batch splitter of the dispatcher (dispatcher.rs,           *)
(* split_txn_batch, split_transactions and process_node).  A batch is a    *)
(* sequence of transactions; a transaction is identified by its position   *)
(* (its raw bytes are distinct).  Each transaction carries the endpoints   *)
(* it touches and whether INFO_CACHE holds an entry for it: evm.Call puts  *)
(* (caller, callee, code.is_empty()) there when it checks the transaction, *)
(* other calls never do, and the LRU cache may have evicted an entry or    *)
(* the node may never have checked the transaction.                        *)
(*                                                                         *)
(* Every node of the committee splits the same batch with the same group   *)
(* count; the order in which the components leave the HashMap              *)
(* components_map is chosen per process, so it is an input of the split.   *)
(***************************************************************************)
EXTENDS Naturals, Sequences, SequencesExt, Relation

CONSTANTS
    Addr,       \* account addresses
    TxChoices,  \* transactions a batch may hold: [s, r, cached, transfer]
    MaxLen,     \* bound on the length of a batch
    NumGroups,  \* num_groups
    Nodes       \* nodes that split the batch independently

VARIABLES
    batch,  \* the TxnBatch handed to split_txn_batch
    out     \* out[n]: the all_batches node n returned, << >> before it splits

vars == <<batch, out>>

Batches == UNION {[1..k -> TxChoices] : k \in 1..MaxLen}

Pos(b) == 1..Len(b)

-----------------------------------------------------------------------------

\* the INFO_CACHE lookup: a cached entry whose third field is true makes the
\* transaction a transfer and puts it into txn_infos
IsTransfer(b, i) == b[i].cached /\ b[i].transfer

TransferTxs(b) == {i \in Pos(b) : IsTransfer(b, i)}

\* Faulty variant: the continue after txn_infos.push dropped, so transfers
\* also land in the non-transfer batch.
SubBatchNoContinue(b) == [i \in Pos(b) |-> i]

\* sub_batch: every transaction that is not a cached transfer, in order
SubBatch(b) == SelectSeq([i \in Pos(b) |-> i], LAMBDA i : ~IsTransfer(b, i))

\* the graph of split_transactions: one node per address, one directed edge
\* sender -> receiver per transfer
GraphNodes(b) == {b[i].s : i \in TransferTxs(b)} \cup {b[i].r : i \in TransferTxs(b)}

Edge(b, x, y) == \E i \in TransferTxs(b) : b[i].s = x /\ b[i].r = y

\* Faulty variant: kosaraju_scc run on the directed graph, without the
\* conversion into_edge_type::<Undirected>.
ComponentsDirected(b) ==
    LET N == GraphNodes(b)
        R == ReflexiveTransitiveClosure([p \in N \X N |-> Edge(b, p[1], p[2])], N)
    IN  {{y \in N : R[x, y] /\ R[y, x]} : x \in N}

\* kosaraju_scc on the undirected projection: weakly connected components
Components(b) ==
    LET N == GraphNodes(b)
        R == ReflexiveTransitiveClosure(
               [p \in N \X N |-> Edge(b, p[1], p[2]) \/ Edge(b, p[2], p[1])], N)
    IN  {{y \in N : R[x, y]} : x \in N}

\* process_node over every node of component C: each outgoing edge whose
\* (source, target) pair is not yet in seen_edges yields the FIRST transfer
\* of txn_infos with that sender and receiver
\* Faulty variant: positions counted from zero, as an idx counter that
\* starts one early would give them.
FirstWithZeroBased(b, s, r) ==
    Min({i \in TransferTxs(b) : b[i].s = s /\ b[i].r = r}) - 1

FirstWith(b, s, r) ==
    Min({i \in TransferTxs(b) : b[i].s = s /\ b[i].r = r})

ComponentTxs(b, C) ==
    {FirstWith(b, b[i].s, b[i].r) : i \in {j \in TransferTxs(b) : b[j].s \in C}}

\* components.sort_by(|a, b| b.len().cmp(&a.len())): a stable sort, so
\* components of equal size keep the order components_map gave them
SortBySizeDesc(cs) ==
    LET before(k, l) == Cardinality(cs[k]) > Cardinality(cs[l])
                        \/ (Cardinality(cs[k]) = Cardinality(cs[l]) /\ k < l)
    IN  [k \in 1..Len(cs) |-> cs[SortSeq([j \in 1..Len(cs) |-> j], before)[k]]]

\* group_indices.sort_by(len): stable, from the previous order of indices
SortByLen(gidx, groups) ==
    LET before(k, l) == Cardinality(groups[gidx[k]]) < Cardinality(groups[gidx[l]])
                        \/ (Cardinality(groups[gidx[k]]) = Cardinality(groups[gidx[l]])
                            /\ k < l)
    IN  [k \in 1..Len(gidx) |-> gidx[SortSeq([j \in 1..Len(gidx) |-> j], before)[k]]]

\* for component in components: sort the group indices, extend the first
RECURSIVE Distribute(_, _, _)
Distribute(cs, groups, gidx) ==
    IF cs = << >> THEN groups
    ELSE LET g == SortByLen(gidx, groups)
         IN  Distribute(Tail(cs), [groups EXCEPT ![g[1]] = @ \cup Head(cs)], g)

\* split_transactions, for one order of components_map.values()
SplitTransactions(b, order) ==
    Distribute(SortBySizeDesc(order),
               [g \in 0..NumGroups-1 |-> {}],
               [k \in 1..NumGroups |-> k - 1])

\* split_txn_batch: the non-transfer batch first, then every non-empty group
\* re-sorted by the transactions' positions in the batch (tx_idx counts the
\* cached transactions in batch order, so it orders them as positions do)
SplitTxnBatch(b, order) ==
    LET groups == SplitTransactions(b, order)
        sorted == [k \in 1..NumGroups |-> SetToSortSeq(groups[k-1], <)]
    IN  <<SubBatch(b)>> \o SelectSeq(sorted, LAMBDA s : s # << >>)

\* every result the HashMap's iteration order allows
Splits(b) ==
    {SplitTxnBatch(b, order) :
        order \in SetToSeqs({ComponentTxs(b, C) : C \in Components(b)})}

\* node n runs split_txn_batch on the batch
Split(n) ==
    /\ out[n] = << >>
    /\ \E res \in Splits(batch) : out' = [out EXCEPT ![n] = res]
    /\ UNCHANGED batch

Init ==
    /\ batch \in Batches
    /\ out = [n \in Nodes |-> << >>]

Next == \E n \in Nodes : Split(n)

Spec == Init /\ [][Next]_vars

-----------------------------------------------------------------------------

Done == {n \in Nodes : out[n] # << >>}

\* how often position i occurs in the output o
Occurrences(o, i) ==
    Cardinality({<<k, j>> \in (1..Len(o)) \X (1..MaxLen) :
                    j \in DOMAIN o[k] /\ o[k][j] = i})

\* the output batch of o holding position i (0 if none)
GroupOf(o, i) == IF \E k \in 1..Len(o) : i \in Range(o[k])
                 THEN CHOOSE k \in 1..Len(o) : i \in Range(o[k]) ELSE 0

TypeOK ==
    /\ batch \in Batches
    /\ out \in [Nodes -> Seq(Seq(Pos(batch)))]
    /\ \A n \in Done : Len(out[n]) \in 1..NumGroups + 1

\* No transaction is handed to two shards, nor twice to one: the groups of
\* split_transactions are disjoint and disjoint from the non-transfer batch.
NoTxInTwoGroups ==
    \A n \in Done, i \in Pos(batch) : Occurrences(out[n], i) <= 1

\* I2, first half: the output is a partition of the input, so every
\* transaction of the batch is executed by exactly one shard.
EveryTxScheduled ==
    \A n \in Done, i \in Pos(batch) : Occurrences(out[n], i) = 1

\* I2, second half, for the transfer groups the graph builds: two emitted
\* transfers that share a sender or receiver address run in the same group.
TransferEndpointsSeparated ==
    \A n \in Done : \A i, j \in TransferTxs(batch) :
        LET gi == GroupOf(out[n], i)
            gj == GroupOf(out[n], j)
        IN  (gi > 1 /\ gj > 1 /\ gi # gj)
                => {batch[i].s, batch[i].r} \cap {batch[j].s, batch[j].r} = {}

\* Spec 5: the split is deterministic given the batch and the group count,
\* so every node of the committee hands the same groups to the same shards.
SplitAgreement ==
    \A n, m \in Done : out[n] = out[m]

=============================================================================
