--------------------------- MODULE MC_Scheduler ---------------------------
(* The host queue holds four transactions in any order: u1's nonces 0 and *)
(* 1 and u2's nonce 0, each of gas 1, and a second transaction of u1 with *)
(* nonce 0, no fee and gas 3 that conflicts with the first.  A block of   *)
(* at most two transactions and 3 gas: three schedulable transactions     *)
(* compete for two places, and the large one fits only an empty block.    *)
(* u1's second and u2's transaction each declare one consensus message   *)
(* of the single slot of a block; a call may try to emit up to two.     *)
(* Between blocks a client submits u2's next transaction.                *)
EXTENDS Scheduler, MC_FeeLedger

Tx(u, n, fee, gas, msgs) == [u |-> u, n |-> n, fee |-> fee, gas |-> gas, msgs |-> msgs]

MCPools ==
    LET txs == {Tx(u1, 0, 1, 1, 0), Tx(u1, 1, 1, 1, 1), Tx(u2, 0, 1, 1, 1), Tx(u1, 0, 0, 3, 0)}
    IN  {p \in [1..4 -> txs] : Range(p) = txs}
\* a client later submits u2's next transaction: check_tx accepts it only
\* once u2's first one has executed
MCSubmissions == {Tx(u2, 1, 1, 1, 0)}
=============================================================================
