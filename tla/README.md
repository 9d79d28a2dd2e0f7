# TLA+ models of the Hela runtime SDK

This directory holds TLA+ models of the runtime SDK under `src/`, the TLC
configurations that check them, and `PROJECT.json`. That file lists the
components, the runs, the mutants that show each property can fail, the map
from every definition to the source lines it models, the findings and the
hazards. Run the models from this directory:

    tlasany Governance.tla
    tlc -workers 2 -config MC_Governance_votes.cfg MC_Governance

## 1. The system

The SDK is a fork of the Oasis runtime SDK. Its parts and their interactions:

| Part | Source | State | Operations |
|------|--------|-------|------------|
| Governance (accounts module) | `modules/accounts/mod.rs` 622-870, 1130-1556; `types/{role,vote,proposal}.rs` | `Account.role`, the `ROLES` index (address, role) -> true, the proposal counter, proposals with `results` and `voteOption`, five quorum keys, `Account.init` of the chain initiator | `InitOwners`, `Propose`, `VoteST` (tally, then apply Mint / Burn / Whitelist / Blacklist / Config / SetRoles) |
| Token operations (accounts) | `mod.rs` 398-620, 1114-1127, 1587-1651 | balances and total supply per denomination (u128) | `transfer`, `mint`, `burn`; the handlers `Transfer`, `MintST` (any caller), `BurnST` (chain initiator only) |
| Genesis (accounts) | `mod.rs` 1735-1787 | writes accounts, balances and supplies | `init` asserts that the supplies add up; it ignores `roles_accounts` |
| Fees and nonces (accounts) | `mod.rs` 950-1081, 1818-2004 | nonces, the per-context `FeeAccumulator`, the accumulator address's balance | `authenticate_tx` (nonce check, blacklisted payer, fee debit), `after_dispatch_tx`, `end_block` (10% to the common pool, the rest split over good compute entities) |
| Dispatcher pipeline | `dispatcher.rs` 190-376, `context.rs` 469-947 | the batch overlay, transaction overlays, the fee accumulator shared between a transaction and its batch | decode, authenticate (outside the transaction overlay), dispatch, read-only guard, commit or rollback, emit messages |
| Batch splitter | `dispatcher.rs` 663-754, 1058-1144 | the INFO_CACHE (sender, receiver, is_transfer) per transaction | group the transfers by weakly connected component and put all other transactions in group 0 |
| Sharded execution | `dispatcher.rs` 574-660 | the globals CTX_FEE_ACCUM and MSG_HANDLERS | shard 0 runs begin_block and clears the globals; the other shards publish their fee accumulators; the last shard aggregates them, runs end_block and saves the message handlers |
| EVM bridge | `modules/evm/src/lib.rs` | the block hash window; INFO_CACHE entries | `tx_call` routes to a transfer or a call; the gas refund goes through the fee accumulator; hooks that mint or burn on consensus results |

How the parts interact. Every handler runs in a transaction overlay.
`dispatch_tx_opts` rolls that overlay back when the handler fails. This is why
the `Governance` actions model only the successful path: a failing call is a
stutter. Authentication and the fee debit run before that overlay exists, so
they persist even when the call fails. The fee accumulator map is shared with
the batch context, so a refund made inside a failed transaction is not rolled
back. `end_block` drains the fees that all shards collected.

## 2. Modules

### Governance.tla (with MC_Governance.tla)

Variables and the code they stand for:

- `role`: `Account.role` in ACCOUNTS.
- `roleIndex`: the ROLES keys of each address, as the role bytes
  `marshal_binary` writes. `VotersNum` parses them back the way
  `AddressWithRole::try_from` does, and keeps the code's `as u16` (the count
  modulo 2^16; a wrap needs 65536 role holders, recorded as a hazard).
- `initDone`: `Account.init` of `chain_initiator`.
- `proposalId`: the `proposal_id` counter.
- `proposals`: id -> `Proposal`. An id never written reads as `DefaultProposal`, i.e. Active, NoAction, with no votes, because `get_proposal` uses `unwrap_or_default`.
- `quorum`: the five `proposal_*_quorum` keys, default 100.
- `balance`, `totalSupply`: the native denomination only.

Actions, one per handler:

- `InitOwners`
- `Propose`
- `VoteST`
- `TxTransfer`
- `TxMintST`
- `TxBurnST`

Each guard is the handler's early returns, in code order, plus the
blacklisted-payer check of `authenticate_tx`. A failing handler is rolled
back, so its call is a stutter. The tally in `VoteST` has four branches:

1. Yes at the threshold: the action is applied, then Passed.
2. No at the threshold: Rejected.
3. Abstain reaching half: Cancelled.
4. Below threshold: the vote is only recorded.

In the Yes branch, `ApplyAction` includes every way the application can fail:

- address or amount None;
- mint overflow;
- burn beyond the balance.

A failed application rolls back the whole vote. Several details of the code
are kept:

- the VoteDup check comes before the Active check;
- the voter count comes from the ROLES index, not from `Account.role`;
- SetRoles uses the Config quorum key;
- genesis writes roles but no index entries.

`CheckInvariants` is `check_invariants` for the native denomination.

Data abstraction:

- Addresses are model values.
- A proposal's data keeps only the fields its action reads.
- `MaxU128` stands for `u128::MAX`, so `checked_add` failures happen in the model.
- `MaxProposals` bounds the u32 counter.

Refinement. `ProposalLifecycle.tla` is the abstract specification of what
governance promises of a proposal (spec 4.2 and invariant I6), without roles,
quorums or applied actions:

- ids are handed out in order and never reused;
- a proposal opens Active and its content never changes;
- every account votes at most once while it is Active, adding one to its
  option's tally;
- the deciding vote closes it (Yes Passed, No Rejected, Abstain Cancelled),
  and the record of who voted is dropped.

Its actions are `Open`, `Cast` and `Decide`. `Governance` instantiates it as
`Lifecycle` with this mapping:

- `opened` is `proposalId`;
- `status` is the stored state, or absent above the counter;
- `tally` is `results`;
- `voters` is the set of accounts whose `voteOption` is not NoVote.

`ImplementsProposalLifecycle == Lifecycle!Spec` is checked as a PROPERTY.
`Propose` maps to `Open`, a recording `VoteST` to `Cast`, and a deciding one to
`Decide`. Every other action is a stutter of the abstract specification.

Faulty variants of some operators (named `...Keep`, `...Floor`, `...Never`,
...) sit just before the operator they mimic. Each is the bug a property is
meant to catch.

### EnumCodec.tla

This module holds the byte encodings of `Role`, `Action`, `ProposalState`
and `Vote` (`types/role.rs`, `vote.rs`, `proposal.rs`). The code writes each
enum with one hand-written table (`marshal_binary`, `to_u8`) and reads it
back with another (`from_bytes`, the cbor `Decode` impls). The model keeps
each table as its own operator, so the round trip holds only if the tables
agree. The role bytes do not follow the declaration order. `Governance`
extends this module.

### FeeLedger.tla (with MC_FeeLedger.tla)

This module models fees in the native denomination over `MaxBlocks` blocks on
one shard, in execute mode. Variables:

- `balance`: the users, `ADDRESS_FEE_ACCUMULATOR` and `ADDRESS_COMMON_POOL`.
- `nonce`: `Account.nonce` of each user.
- `feeAcc`: the batch context's `FeeAccumulator`.
- `block`: the number of blocks ended so far.

`DeliverTx` is `dispatch_tx_opts`:

1. `Authenticate` is `authenticate_tx`: nonce equality, then
   `MoveIntoFeeAccumulator`, then `UpdateSignerNonces`. This happens outside the
   transaction overlay.
2. The call then does one of three things:
   - it fails, and the overlay is rolled back;
   - an accounts transfer is committed;
   - an EVM `tx_call` (`TxCall`) refunds `r <= fee` through
     `move_from_fee_accumulator`. It routes on whether the target has code:
     to `DoEvm` (a contract call) or to `EvmTransfer`. Both refund the same way.
     The refund is `FeeAccumulatorSub`, the `checked_sub` of
     `FeeAccumulator::sub`; when the accumulator cannot cover it
     (`FeeAccumulatorSubOk` false) the call fails instead.

   A read-only EVM transaction is rolled back by the ReadOnlyTransaction guard.
   The accumulator is in the batch's `values`, so its change survives the
   rollback.

`EndBlock` is `end_block`:

1. It drains `F` from the accumulator address.
2. It pays `F / 10` to the pool and `(F - F/10) / K` to each of the K good
   entities of the round (`GoodChoices`).
3. It moves `feeAcc` onto the accumulator address, through
   `TakeFeeAccumulator` (`ContextValue::take().unwrap_or_default()`, which
   leaves the entry vacant, read as 0 by the next `or_default`).

A transaction with a wrong nonce, or a payer who cannot pay the fee, has no
effect (a stutter). `FeeLedger` has no run of its own with a passing
configuration: `Scheduler` extends it, and its two violation runs check it
directly.

### Scheduler.tla (with MC_Scheduler.tla)

This module extends `FeeLedger` with `schedule_and_execute_batch`
(`dispatcher.rs` 806-942), the mempool check (`check_tx`, `check_batch`) and
the per-block message budget of the context (`context.rs`). A transaction is
a record: signer, nonce, fee, gas limit and the number of consensus messages
its call may emit. Variables:

- `rest`: the host's queue still to be looked at; `kept`: the skipped
  transactions the host keeps for the next block; `sched`: `new_batch`;
  `rejected`: transactions reported invalid.
- `gasUsed`: the batch gas used; `msgCount`: messages emitted this block;
  `panicked`: `emit_messages(...).expect(...)` in `dispatch_tx_opts` failed.
- `stage`: idle between blocks, scheduling, or the loop stopped;
  `pending`: client submissions not yet checked.

Actions:

- `Stop`: the loop's `break` at `max_tx_count` or below `min_remaining_gas`.
- `Skip`: a transaction that does not fit the remaining gas or message
  slots, or whose pre-check in a `with_child(PreScheduleTx)` context returns
  `FutureNonce`, stays queued; a failed pre-check rejects it.
- `Execute`: `new_batch.push` and `execute_tx`; gas used is any amount up to
  the limit. `ExecuteTx` is `FeeLedger`'s `DeliverTx` or an `EmitCall`, which
  emits up to `MaxEmit` messages through `emit_message` under the limit in
  force (`TxLimits`): `with_tx`'s (the batch's remaining slots), or the
  declared `consensus_messages` if the caller of `limit_max_messages` sets
  it. No code of this repository calls `limit_max_messages`; the core module
  that would is outside it, so the model allows both.
- `Exhausted`: the queue is empty.
- `EndBatch`: `end_block`; the host's queue becomes the kept plus the
  unseen transactions.
- `Submit`: `check_batch` runs `check_tx` on a submission against the
  committed state, in a discarded `CheckTx` child; an accepted transaction
  joins the host's queue. In check mode a nonce ahead by at most
  `MAX_CHECK_NONCE_FUTURE_DELTA` (0) is accepted.
- `BeginBatch`: the host calls the runtime with its queue.

`RuntimeStep` is any step of the loop or of `EndBatch`. `SchedFairSpec`
makes it weakly fair. The host's `BeginBatch` and the clients' `Submit` get
no fairness.

`CheckSignerNoncesIn(t, mode)` is `check_signer_nonces` for one signer. It
covers each mode's branches: `IsCheckOnly` (CheckTx and PreScheduleTx) and
`IsPreSchedule`. `ExecuteTx` calls it in execute mode, `Submit` in CheckTx
mode and `Skip` in PreScheduleTx mode.

### BatchSplit.tla (with MC_BatchSplit.tla)

This module models `split_txn_batch`, `split_transactions` and
`process_node` (`dispatcher.rs` 663-754, 1058-1144) as operators. The graph
has one edge per cached transfer. `Components` is the weakly connected
component relation, written with `ReflexiveTransitiveClosure` from the
`Relation` module. `SortBySizeDesc` and `SortByLen` are the two stable
sorts, and `Distribute` (RECURSIVE) is the greedy loop that gives each
component to the smallest group. The order of `components_map.values()` is
an input: `Splits(b)` is every result any HashMap order can give. The action
`Split(n)` is a node of the committee splitting the batch. The properties
compare the result with the partition the spec (I2) asks for.

### Shards.tla (with MC_Shards.tla)

This module models `execute_batch_common` (`dispatcher.rs` 574-660) for
`NumTh` shards over `MaxRounds` rounds. A shard has four steps, each one
taking a mutex:

- `Begin`: shard 0 clears `CTX_FEE_ACCUM` and `MSG_HANDLERS`, then runs
  `handle_last_round_messages`. That function checks each result's hook in
  the saved `MESSAGE_HANDLERS` store and dispatches it to the EVM hooks
  `message_result_withdraw` or `message_result_transfer`. These hooks call
  the stable-coin contract (`call_sc_mint`, `call_sc_burn`).
- `Spill`: the shard's fees are pushed, or folded on the last shard.
- `Commit`: the shard appends its message hook.
- `Save`: the last shard runs end_block and saves the hooks.

`ShardStep(th)` is any step of shard `th`. `NextRound` starts the next round. It gives the consensus layer's outcome
for each message of the round. `SequentialHost` chooses between the host
running the shards in `th_idx` order and running them on threads in any
interleaving.

## 3. Runs

| Run | Config | Expect | What it shows |
|-----|--------|--------|---------------|
| gov_votes | MC_Governance_votes.cfg | pass | Three accounts, two owner setups (three Admins; Admin + MintVoter + WhitelistedUser), two proposals of every kind, all vote interleavings. Holds: `TypeOK`; `RoleIndexConsistent` (I5: the index equals the role); `TallyMatchesRecord` (results equal recorded votes); `StoredRecordsRoundTrip` (every stored role, proposal state, action and vote decodes to what was written, and the role bytes 12..255 are refused); `PassedActionApplied` (a proposal becomes Passed only in the step that fully applies its action: a failed application rolls the vote back); `ImplementsProposalLifecycle` (the refinement mapping above: ids in order, one counted vote per account while Active, closing by the deciding option, and a closed proposal frozen with its voters cleared, I6); `PassedWithQuorum` (every pass has Q% of the actual voter-role holders voting Yes). |
| gov_tokens | MC_Governance_tokens.cfg | pass | Direct Transfer / MintST / BurnST with amounts 1 and 2 up to `MaxU128` = 4, plus up to three Mint, Burn, Whitelist or Blacklist proposals. Holds: `SupplyConserved` (I1, as `check_invariants` tests it); `PassedActionApplied`, including when direct calls move the balance or supply a proposal's mint or burn depends on. |
| gov_stale_target | MC_Governance_target.cfg | violation | `ApplyRespectsTarget`: a Mint proposal for a WhitelistedUser passes after a SetRoles proposal made the target a BurnVoter. The target check is done only in `tx_propose`. |
| gov_genesis_roles | MC_Governance_genesis.cfg | violation | `PassedWithQuorum`: genesis gives two accounts MintVoter but no index entry, so N = 0, the threshold is 0 and one vote passes a Mint under the 100% quorum. |
| fee_schedule | MC_Scheduler.cfg | pass | Two blocks are built from a host queue of four transactions in every order, plus one later submission through `check_tx`. Two of the queued transactions conflict on a nonce, one is too large for a partly filled block, and calls may emit zero to two messages into a single slot. Holds: `IncludedTxsPaid` (the scheduled transactions of each signer used exactly its consecutive nonces, so neither a stale admission nor a skipped predecessor lets a transaction in out of order); `MessagesWithinSlots` (the per-transaction limits keep the block within `max_messages`, so the `expect` never aborts a batch); `FeesConserved` (every fee token is at all times in a balance or in the FeeAccumulator). `BlocksComplete` under `SchedFairSpec` (every block the host starts reaches `end_block` and returns the queue, whatever is skipped). `SchedTypeOK` includes the gas bound. |
| fee_end_block_loss | MC_FeeLedger_endblock.cfg | violation | `FeesConserved`: `end_block` drains F and credits F/10 to the pool and (F - F/10)/K to each of K good entities. The remainder, or all of F when K = 0, is destroyed. |
| fee_readonly_refund | MC_FeeLedger_readonly.cfg | violation | `FeesConserved`: a read-only EVM transfer refunds its fee. The rollback keeps the accumulator debit but drops the credit. |
| split_partition | MC_BatchSplit.cfg | pass | Every batch of up to three transactions over three addresses (uncached, cached calls, cached transfers) and every HashMap order. `NoTxInTwoGroups`: no transaction goes to two shards. `TransferEndpointsSeparated`: transfers that share an address are in the same group. |
| split_dup_pair | MC_BatchSplit_dup.cfg | violation | `EveryTxScheduled`: a second transfer between the same sender and receiver is in no group. |
| split_nondeterminism | MC_BatchSplit_agree.cfg | violation | `SplitAgreement`: two nodes split one batch differently, because the order of equal-size components comes from a HashMap. |
| shards_sequential | MC_Shards.cfg | pass | Two shards over three rounds, run in `th_idx` order. Holds: `FeesAccounted` (every fee charged reaches the fee accumulator address); `HandlersDelivered` (every message result finds its own hook); `BridgeCallsFollowResults` (the hooks make the stable-coin calls spec 4.4 prescribes for each deposit and withdrawal result). |
| shards_threads | MC_Shards_threads.cfg | violation | `FeesAccounted`: when shards run concurrently, a push into `CTX_FEE_ACCUM` after the last shard's fold is never credited. |

`PROJECT.json` lists a mutant for every property of every passing run: a
plausible bug in the mapped code, and TLC finds the property violated.

Bounds. For Governance, three accounts are needed for the interesting cases:

- a quorum of 50% over three voters, where rounding up matters (threshold 2, not 1);
- a voter, a proposer and a separate target whose role changes between propose and apply;
- a re-vote after a proposal closed.

Two proposals let one proposal change roles or quorums under another one.
In `gov_tokens`, three proposals with `MaxU128` = 4 let two mints fill the
supply so that a third one, or a direct `MintST`, overflows. A deciding Yes
vote then fails and is rolled back.
`ConfigChoices` includes an out-of-range quorum (101), which `tx_propose` must
reject.

For FeeLedger, fees of 0, 1 and 2 tokens and K up to 2 reach every rounding
case of `F / 10` and of `(F - tax) / K`, where one token is the smallest
loss. Two blocks let the fees of one block be disbursed by the next.

For Scheduler, the bounds are small, but every limit is reached:

- A gas limit of 3 and a transaction of gas 3 make the gas skip happen after
  any other transaction.
- `max_tx_count` = 2 with four queued transactions makes the count limit
  bite.
- One message slot and calls of up to two messages reach the emit limit.
- The submission of u2's nonce-1 transaction is rejected before its
  predecessor executes and accepted after.

For BatchSplit, three addresses and three transactions make a chain of two
transfers, a duplicate pair and two equal-size components. Symmetry over the
addresses is sound because the properties are invariants.

For Shards, two shards are the least that share the globals, and three
rounds let the results of one round's messages be handled in the next
round while that round emits messages of its own.

Deadlock. The passing runs set `CHECK_DEADLOCK FALSE`. In the code every
handler can always be called, and a failing call changes nothing (it is a
stutter here). The models halt only when their bounds are used up:
`MaxProposals` and `MaxU128`, `MaxNonce` and `MaxBlocks`, `MaxRounds`, and a
split that every node has done.

Fairness. One run assumes fairness. `fee_schedule` gives weak fairness to
the runtime's steps (`SchedFairSpec`). Once the host has called
`schedule_and_execute_batch`, the loop and `end_block` run to the end
without waiting for anyone. The shard runs check safety only: with no
waits between shards, a liveness property of a round would hold by the
shape of the model, its only obstacle being the failure `HandlersDelivered`
already excludes. No fairness is given to
`NextRound`: whether the host starts another round is its own choice.
Every other property is a safety property. Transactions, votes and
proposals come from external accounts, and nothing in the code makes them
happen. No code path expires a proposal (`Expired` is
never assigned), so eventual closing is not a property the code has.

## 4. Findings

- **Stale target check.** See `gov_stale_target`. The target constraints of the role matrix (spec 4.2; comment at `mod.rs` 1201) hold when a proposal is made, but not when it is applied.
- **Genesis roles not indexed.** See `gov_genesis_roles`. `init` ignores `roles_accounts` and does not build the ROLES index for `genesis.accounts` roles. Voter counts are then too low, and a minority passes proposals.
- **Fees destroyed by end_block.** See `fee_end_block_loss`. Spec 4.3 says the rounding remainder stays with the accumulator address, but `end_block` (`mod.rs` 1977) never credits it. All fees are lost in a round with no good entity.
- **Read-only EVM refund destroyed.** See `fee_readonly_refund`. The refund debits the batch-shared `FeeAccumulator` (`context.rs` 772) and credits the caller in the transaction overlay, which the ReadOnlyTransaction guard rolls back (`evm/src/lib.rs` 523, 827).
- **Duplicate transfer pair dropped.** See `split_dup_pair` (`dispatcher.rs` 741).
- **Split differs between nodes.** See `split_nondeterminism` (`dispatcher.rs` 694).
- **Fees lost between concurrent shards.** See `shards_threads` (`dispatcher.rs` 624).

## 5. Not modelled

- **Per-transaction pipeline**, in part. Decoding, signature checks and the
  call format are not modelled. Every call ends in one of a few outcomes
  chosen by the model.
- **Hela's MAX_CHECK_NONCE_FUTURE_DELTA = 0.** Because of it, `FutureNonce`
  is unreachable in the pre-check. `Skip` keeps the branch anyway.
- **Several message budgets in one round.** Every shard's batch context
  takes `max_messages` from the host (`context.rs` 568). `Shards` and
  `Scheduler` are not composed, so the sum over shards is not checked (a
  hazard in `PROJECT.json`).
- **EVM bridge results.** The results of `call_sc_mint` and `call_sc_burn`
  are discarded (`let _ =`). The contract call is modelled as a record of
  the call, not its execution.
- **`withdraw.reserve`.** It is a public handler with no caller check (a
  hazard in `PROJECT.json`).
- **EVM execution itself** (the SputnikVM interpreter and precompiles): out
  of TLC's reach.
- **Cryptography and address encoding:** pure conversions of data the
  models keep as model values.
- **`Meta` decoding** (`types/proposal.rs` 115-129). It rejects more than 64
  bytes, then panics in `copy_from_slice` for any shorter string. This is a
  hazard in `PROJECT.json`. No handler reads the field, so `ProposalData` in
  the model has no `meta`.
- **Query handlers:** read-only.
