------------------------------ MODULE FeeLedger ------------------------------
(***************************************************************************)
(* Transaction fees of the native denomination over a sequence of blocks   *)
(* executed by one shard (execute mode):                                   *)
(*  - authenticate_tx (accounts/mod.rs) checks the payer's nonce, moves    *)
(*    the fee from the payer into the batch's FeeAccumulator and bumps the *)
(*    nonce, all outside the transaction overlay;                          *)
(*  - the call runs in the transaction overlay (dispatch_tx_opts): an      *)
(*    accounts transfer, or an EVM transfer or call whose successful path  *)
(*    refunds unused gas with move_from_fee_accumulator; the overlay is    *)
(*    rolled back if the call fails or the transaction is read-only, but   *)
(*    the FeeAccumulator lives in the batch context's values, which the    *)
(*    transaction context borrows (context.rs with_tx), so it is not;      *)
(*  - end_block drains the fee accumulator address, pays 10% to the common *)
(*    pool and an equal share of the rest to each good compute entity,     *)
(*    then moves the block's FeeAccumulator onto that address.            *)
(***************************************************************************)
EXTENDS Naturals, FiniteSets, Functions

CONSTANTS
    Users,           \* transaction signers; good compute entities are among them
    FeeAddr,         \* ADDRESS_FEE_ACCUMULATOR
    PoolAddr,        \* ADDRESS_COMMON_POOL
    GenesisBalance,  \* initial native balances of Users \cup {FeeAddr, PoolAddr}
    Fees,            \* fee amounts a transaction may declare (0 = no fee)
    Amounts,         \* amounts a call may transfer
    GoodChoices,     \* sets of good compute entities a round may report
    ReadOnlyEvm,     \* whether read-only EVM transactions are submitted
    MaxNonce,        \* bound on every account nonce (u64 in the code)
    MaxBlocks        \* bound on the number of blocks

Accts == Users \cup {FeeAddr, PoolAddr}

VARIABLES
    balance,   \* BALANCES of the native denomination
    nonce,     \* Account.nonce of each user
    feeAcc,    \* the batch context's FeeAccumulator (native)
    block      \* blocks ended so far

vars == <<balance, nonce, feeAcc, block>>

Supply == SumFunction(GenesisBalance)

-----------------------------------------------------------------------------

\* add_amount / sub_amount on an account; u128 overflow is out of reach of
\* these bounds and not modelled
Credit(b, a, amt) == [b EXCEPT ![a] = @ + amt]
Debit(b, a, amt) == [b EXCEPT ![a] = @ - amt]

\* authenticate_tx, execute mode.  check_signer_nonces accepts only the
\* account's own nonce (MAX_CHECK_NONCE_FUTURE_DELTA is 0, so one behind or
\* ahead is InvalidNonce and the transaction has no effect), which is why
\* the transaction below carries nonce[u]; move_into_fee_accumulator (a
\* zero fee skips it) fails with InsufficientFeeBalance unless the payer
\* can pay; update_signer_nonces then bumps the nonce.
Authenticate(u, fee) ==
    /\ nonce[u] < MaxNonce
    /\ balance[u] >= fee

\* The FeeAccumulator of the context's values under
\* CONTEXT_KEY_FEE_ACCUMULATOR, native denomination only: a vacant entry
\* is what or_default reads as 0.  add: checked_add(...).unwrap(), which
\* these bounds keep clear of; sub: checked_sub, whose failure
\* (InsufficientBalance) returns before the entry is written.
FeeAccumulatorAdd(acc, fee) == acc + fee
FeeAccumulatorSubOk(acc, fee) == acc >= fee
FeeAccumulatorSub(acc, fee) == acc - fee

\* ContextValue::take(...).unwrap_or_default() as end_block uses it: the
\* value (0 when vacant) and the entry left vacant; the pair is (taken,
\* what stays in the context's values)
TakeFeeAccumulator(acc) == <<acc, 0>>

\* move_into_fee_accumulator, execute mode: sub_amount from the payer, then
\* FeeAccumulator.add on the context's values; the pair is (balances,
\* accumulator)
MoveIntoFeeAccumulator(b, acc, u, fee) == <<Debit(b, u, fee), FeeAccumulatorAdd(acc, fee)>>

\* update_signer_nonces: the signer's Account.nonce + 1 (checked_add, which
\* the MaxNonce bound of Authenticate keeps clear of)
UpdateSignerNonces(n, u) == [n EXCEPT ![u] = @ + 1]

\* Faulty variant: the refund taken out of the accumulator but never
\* credited.
RefundLost(acc, b, u, r) == <<acc - r, b>>

\* move_from_fee_accumulator: FeeAccumulator.sub then add_amount; the
\* refund fails (InsufficientFeeBalance) unless the accumulator holds r
RefundFromAcc(acc, b, u, r) == <<FeeAccumulatorSub(acc, r), Credit(b, u, r)>>

\* evm transfer (tx_call to an account without code): Accounts::transfer,
\* then the refund of the unused prepaid gas to the caller
EvmTransfer(acc, b, u, to, amt, r) ==
    RefundFromAcc(acc, Credit(Debit(b, u, amt), to, amt), u, r)

\* do_evm, successful path: backend.apply commits the executor's state, of
\* which this model keeps the call's value moved from the caller to the
\* callee; then the unused prepaid gas is refunded as in transfer.  A
\* failed execution or apply returns an error after use_tx_gas: the call
\* fails.
DoEvm(acc, b, u, to, amt, r) ==
    RefundFromAcc(acc, Credit(Debit(b, u, amt), to, amt), u, r)

\* tx_call: a callee without code is paid by transfer, any other is called
\* through do_evm
TxCall(acc, b, u, to, amt, r, hasCode) ==
    IF hasCode THEN DoEvm(acc, b, u, to, amt, r) ELSE EvmTransfer(acc, b, u, to, amt, r)

\* One transaction of payer u with the given fee, dispatched in execute
\* mode.  The call either fails (overlay rolled back), or succeeds with the
\* overlay committed; an EVM call that succeeds refunds r unused gas before
\* returning, and a read-only transaction is then rolled back by the
\* ReadOnlyTransaction guard of dispatch_tx_call although it wrote.
DeliverTx(u, fee) ==
    LET moved == MoveIntoFeeAccumulator(balance, feeAcc, u, fee)
        paid == moved[1]
        acc == moved[2]
    IN
    /\ block < MaxBlocks
    /\ Authenticate(u, fee)
    /\ nonce' = UpdateSignerNonces(nonce, u)
    /\ \/ \* the call fails: only the fee and the nonce stay
          /\ balance' = paid /\ feeAcc' = acc
       \/ \* accounts.Transfer, committed
          \E to \in Users, amt \in Amounts :
             /\ paid[u] >= amt
             /\ balance' = Credit(Debit(paid, u, amt), to, amt)
             /\ feeAcc' = acc
       \/ \* evm.Call that succeeds and refunds, committed or rolled back
          \* as read-only
          \E to \in Users, amt \in Amounts, r \in 0..fee, ro, hasCode \in BOOLEAN :
             LET res == TxCall(acc, paid, u, to, amt, r, hasCode)
             IN  /\ ro => ReadOnlyEvm
                 /\ paid[u] >= amt
                 /\ FeeAccumulatorSubOk(acc, r)
                 /\ feeAcc' = res[1]
                 /\ balance' = IF ro THEN paid ELSE res[2]
    /\ UNCHANGED block

\* end_block.  previous_fee is the accumulator address's balance; the tax is
\* F / 10 and each good entity gets (F - tax) / K; nothing else is credited.
Disburse(b, good) ==
    LET F == b[FeeAddr]
        drained == Debit(b, FeeAddr, F)
        tax == F \div 10
        each == (F - tax) \div Cardinality(good)
    IN  IF good = {} THEN drained
        ELSE [a \in Accts |-> drained[a] + (IF a = PoolAddr THEN tax ELSE 0)
                                         + (IF a \in good THEN each ELSE 0)]

EndBlock(good) ==
    /\ block < MaxBlocks
    /\ LET taken == TakeFeeAccumulator(feeAcc)
       IN  /\ balance' = Credit(Disburse(balance, good), FeeAddr, taken[1])
           /\ feeAcc' = taken[2]
    /\ block' = block + 1
    /\ UNCHANGED nonce

Init ==
    /\ balance = GenesisBalance
    /\ nonce = [u \in Users |-> 0]
    /\ feeAcc = 0
    /\ block = 0

Next ==
    \/ \E u \in Users, fee \in Fees : DeliverTx(u, fee)
    \/ \E good \in GoodChoices : EndBlock(good)

Spec == Init /\ [][Next]_vars

-----------------------------------------------------------------------------

TypeOK ==
    /\ balance \in [Accts -> Nat]
    /\ nonce \in [Users -> 0..MaxNonce]
    /\ feeAcc \in Nat
    /\ block \in 0..MaxBlocks

\* I1 and I4 together: every token a payer is charged is, at every moment,
\* in some balance or in the FeeAccumulator (spec 4.3: the rounding
\* remainder of end_block stays with the accumulator address).
FeesConserved == SumFunction(balance) + feeAcc = Supply

=============================================================================
