------------------------------ MODULE Scheduler ------------------------------
(***************************************************************************)
(* Block building by schedule_and_execute_batch (dispatcher.rs) over the   *)
(* fee ledger of FeeLedger.  The host hands the runtime the transactions   *)
(* of its queue in order; for each one the loop                           *)
(*  - stops when the remaining batch gas is below min_remaining_gas or     *)
(*    max_tx_count transactions are scheduled;                             *)
(*  - skips it when its gas limit exceeds the remaining batch gas;         *)
(*  - checks it in a child context in PreScheduleTx mode, whose changes    *)
(*    are discarded: authenticate_tx (nonce, fee balance), then the call   *)
(*    in check mode; FutureNonce skips it, any other failure rejects it    *)
(*    (its hash goes to tx_reject_hashes and it leaves the queue);         *)
(*  - otherwise appends it to the new batch and executes it (execute_tx,   *)
(*    FeeLedger's DeliverTx).                                              *)
(* Skipped transactions, and those after the loop stopped, stay queued for *)
(* the next block.  After the loop the single shard runs end_block.        *)
(***************************************************************************)
EXTENDS FeeLedger, Sequences

CONSTANTS
    Pools,           \* initial host queues: sequences of transactions
                     \* [u |-> signer, n |-> nonce, fee |-> fee, gas |-> gas,
                     \*  msgs |-> fee.consensus_messages]
    MaxTxCount,      \* SCHEDULE_CONTROL.max_tx_count
    MinRemainingGas, \* SCHEDULE_CONTROL.min_remaining_gas
    BatchGasLimit,   \* max_batch_gas of the core module
    MaxCheckNonceFutureDelta, \* MAX_CHECK_NONCE_FUTURE_DELTA (0 in the code)
    MaxMessages,     \* max_messages of the round's batch context
    MaxEmit,         \* messages a call of a message-emitting module tries to emit
    Submissions      \* transactions clients submit to the host later on

VARIABLES
    rest,     \* transactions of the host batch not yet looked at
    kept,     \* transactions skipped in this block, still queued
    sched,    \* new_batch: the transactions scheduled in this block
    rejected, \* tx_reject_hashes, over all blocks
    gasUsed,  \* batch gas used in this block
    stage,    \* "idle" between blocks, "sched" while the loop runs, "end"
              \* once it has stopped
    msgCount, \* messages of the batch context (this block)
    panicked, \* emit_messages failed under its expect: the batch aborted
    pending   \* submissions not yet made

allVars == <<balance, nonce, feeAcc, block, rest, kept, sched, rejected,
             gasUsed, stage, msgCount, panicked, pending>>

Remaining == BatchGasLimit - gasUsed

\* the loop of the current block runs (blocks are bounded by MaxBlocks)
Running == stage = "sched" /\ block < MaxBlocks /\ ~panicked

\* remaining_messages: max_messages.saturating_sub(messages.len())
RemainingMessages == IF msgCount >= MaxMessages THEN 0 ELSE MaxMessages - msgCount

-----------------------------------------------------------------------------

\* Context's is_check_only / is_pre_schedule on the modes a transaction is
\* dispatched in: "ExecuteTx", "CheckTx", "PreScheduleTx" (SimulateTx
\* serves queries, which this model leaves out)
IsCheckOnly(mode) == mode \in {"CheckTx", "PreScheduleTx"}
IsPreSchedule(mode) == mode = "PreScheduleTx"

\* check_signer_nonces in a context of the given mode: the outcome for
\* transaction t (debug_disable_nonce_check is off)
CheckSignerNoncesIn(t, mode) ==
    CASE t.n < nonce[t.u] -> "InvalidNonce"
      [] t.n = nonce[t.u] -> "Ok"
      [] t.n - nonce[t.u] > MaxCheckNonceFutureDelta -> "InvalidNonce"
      [] IsPreSchedule(mode) -> "FutureNonce"
      [] ~IsCheckOnly(mode) -> "InvalidNonce"
      [] OTHER -> "Ok"

CheckSignerNonces(t) == CheckSignerNoncesIn(t, "PreScheduleTx")

\* the stop test at the head of the loop body
LoopDone == Remaining < MinRemainingGas \/ Len(sched) >= MaxTxCount

\* Faulty variant: the check of the transaction's gas against the remaining
\* batch gas dropped.
GasFitsAlways(t) == TRUE

GasFits(t) == t.gas <= Remaining

\* the consensus message slots the transaction declares are still free
SlotsFit(t) == t.msgs <= RemainingMessages

\* Faulty variant: a nonce in the past accepted by the pre-schedule check.
PreCheckPassesPastNonce(t) ==
    /\ CheckSignerNonces(t) \in {"Ok", "InvalidNonce"} /\ t.n <= nonce[t.u]
    /\ balance[t.u] >= t.fee

\* authenticate_tx in the discarded child context: nonce, then
\* ensure_balance for the fee (the fee is not moved in check mode)
PreCheckPasses(t) ==
    /\ CheckSignerNonces(t) = "Ok"
    /\ balance[t.u] >= t.fee

\* the loop stops: the rest of the host batch stays queued
Stop ==
    /\ Running
    /\ rest # << >> /\ LoopDone
    /\ stage' = "end"
    /\ UNCHANGED <<balance, nonce, feeAcc, block, rest, kept, sched, rejected, gasUsed,
                   msgCount, panicked, pending>>

\* Faulty variant: a skipped transaction is put back into the host batch
\* being iterated instead of being left for the next block.
SkipRequeue ==
    /\ Running
    /\ rest # << >> /\ ~LoopDone
    /\ LET t == Head(rest) IN
       \E callOk \in BOOLEAN :
         /\ ~(GasFits(t) /\ SlotsFit(t) /\ PreCheckPasses(t) /\ callOk)
         /\ IF ~GasFits(t) \/ ~SlotsFit(t) \/ CheckSignerNonces(t) = "FutureNonce"
              THEN rest' = Append(Tail(rest), t) /\ UNCHANGED <<kept, rejected>>
              ELSE rest' = Tail(rest) /\ rejected' = rejected \cup {t} /\ UNCHANGED kept
    /\ UNCHANGED <<balance, nonce, feeAcc, block, sched, gasUsed, stage, msgCount,
                   panicked, pending>>

\* the head transaction is skipped (gas limit above the remaining batch gas,
\* or FutureNonce) or rejected (any other failed check: nonce, fee balance;
\* callOk stands for the checks authenticate_tx and the call make on data
\* this model leaves out -- validity window, blacklisted payer, the call's
\* own checks in check mode)
Skip ==
    /\ Running
    /\ rest # << >> /\ ~LoopDone
    /\ LET t == Head(rest) IN
       \E callOk \in BOOLEAN :
         /\ ~(GasFits(t) /\ SlotsFit(t) /\ PreCheckPasses(t) /\ callOk)
         /\ rest' = Tail(rest)
         /\ IF ~GasFits(t) \/ ~SlotsFit(t) \/ CheckSignerNonces(t) = "FutureNonce"
              THEN kept' = Append(kept, t) /\ UNCHANGED rejected
              ELSE rejected' = rejected \cup {t} /\ UNCHANGED kept
    /\ UNCHANGED <<balance, nonce, feeAcc, block, sched, gasUsed, stage, msgCount,
                   panicked, pending>>

\* with_tx: the transaction context may emit what the batch context has
\* left
TxMaxMessages == RemainingMessages

\* limit_max_messages(fee.consensus_messages): the limit may only be
\* tightened, raising it is OutOfMessageSlots
LimitMaxMessages(t) == t.msgs <= TxMaxMessages

\* the limits a call may emit under: with_tx's, or the declared
\* consensus_messages when the caller of limit_max_messages sets it (no code
\* of this repository calls it; the core module that would is outside it)
TxLimits(t) == {TxMaxMessages} \cup (IF LimitMaxMessages(t) THEN {t.msgs} ELSE {})

\* Faulty variant: emit_message compares with > and lets one message past
\* the limit.
EmitAcceptsLate(limit, m) == m <= limit + 1

\* emit_message fails with OutOfMessageSlots once messages.len() >=
\* max_messages: m emissions in a row all succeed iff m <= limit
EmitAccepts(limit, m) == m <= limit

\* emit_messages of the batch context, under dispatch_tx_opts' expect("per-tx
\* context has already enforced the limits")
EmitMessages(k) ==
    IF msgCount + k > MaxMessages
      THEN panicked' = TRUE /\ UNCHANGED msgCount
      ELSE msgCount' = msgCount + k /\ UNCHANGED panicked

\* a call of a module outside this repository that emits consensus
\* messages (a consensus-layer deposit or withdrawal; its other effects are
\* not modelled).  It tries to emit m messages under the limit in force;
\* if an emission fails the call fails and keeps only fee and nonce, else
\* the transaction context commits and its messages reach the batch.
EmitCall(t) ==
    /\ block < MaxBlocks
    /\ nonce' = UpdateSignerNonces(nonce, t.u)
    /\ LET moved == MoveIntoFeeAccumulator(balance, feeAcc, t.u, t.fee)
       IN  balance' = moved[1] /\ feeAcc' = moved[2]
    /\ \E lim \in TxLimits(t), m \in 0..MaxEmit :
         IF EmitAccepts(lim, m)
           THEN EmitMessages(m)
           ELSE UNCHANGED <<msgCount, panicked>>
    /\ UNCHANGED block

\* execute_tx: dispatch_tx_opts in execute mode, whose authenticate_tx
\* failing (nonce not the account's) leaves the state as it was; the call
\* is one of this repository's (FeeLedger) or a message-emitting one
ExecuteTx(t) ==
    IF CheckSignerNoncesIn(t, "ExecuteTx") = "Ok" /\ Authenticate(t.u, t.fee)
      THEN \/ DeliverTx(t.u, t.fee) /\ UNCHANGED <<msgCount, panicked>>
           \/ EmitCall(t)
      ELSE UNCHANGED <<balance, nonce, feeAcc, block, msgCount, panicked>>

\* the head transaction passed its checks: new_batch.push and execute_tx,
\* which authenticates again in execute mode (a failure there leaves the
\* transaction in the batch with no effect) and dispatches the call.  The
\* core module charges the batch the gas the transaction used, at least
\* one unit and at most its gas limit.
Execute ==
    /\ Running
    /\ rest # << >> /\ ~LoopDone
    /\ LET t == Head(rest) IN
         /\ GasFits(t) /\ SlotsFit(t) /\ PreCheckPasses(t)
         /\ rest' = Tail(rest)
         /\ sched' = Append(sched, t)
         /\ \E used \in 1..t.gas : gasUsed' = gasUsed + used
         /\ ExecuteTx(t)
    /\ UNCHANGED <<kept, rejected, stage, pending>>

\* the host batch is exhausted: the loop ends as well
Exhausted ==
    /\ Running
    /\ rest = << >>
    /\ stage' = "end"
    /\ UNCHANGED <<balance, nonce, feeAcc, block, rest, kept, sched, rejected, gasUsed,
                   msgCount, panicked, pending>>

\* end_block of the block; the host's queue for the next block is what is
\* left: the skipped transactions and those the loop never reached
EndBatch ==
    /\ stage = "end"
    /\ \E good \in GoodChoices : EndBlock(good)
    /\ rest' = kept \o rest
    /\ kept' = << >>
    /\ sched' = << >>
    /\ gasUsed' = 0
    /\ stage' = "idle"
    /\ msgCount' = 0
    /\ UNCHANGED <<rejected, panicked, pending>>

\* check_tx: dispatch_tx in a with_child(CheckTx) context, so nothing it
\* changes survives: authenticate_tx in check mode (check_signer_nonces,
\* which accepts a nonce ahead by at most the delta; ensure_balance for the
\* fee), then the call in check mode (callOk); after_dispatch_tx's fee and
\* nonce update only touch the discarded child
CheckTx(t, callOk) ==
    /\ CheckSignerNoncesIn(t, "CheckTx") = "Ok"
    /\ balance[t.u] >= t.fee
    /\ callOk

\* between blocks the host runs check_batch on a client's transaction
\* against the committed state and queues it if check_tx accepts it
Submit ==
    /\ stage = "idle" /\ block < MaxBlocks
    /\ \E t \in pending, callOk \in BOOLEAN :
         /\ pending' = pending \ {t}
         /\ rest' = IF CheckTx(t, callOk) THEN Append(rest, t) ELSE rest
    /\ UNCHANGED <<balance, nonce, feeAcc, block, kept, sched, rejected, gasUsed,
                   stage, msgCount, panicked>>

\* the host calls execute_batch with its queue
BeginBatch ==
    /\ stage = "idle"
    /\ stage' = "sched"
    /\ UNCHANGED <<balance, nonce, feeAcc, block, rest, kept, sched, rejected,
                   gasUsed, msgCount, panicked, pending>>

SchedInit ==
    /\ Init
    /\ rest \in Pools
    /\ kept = << >>
    /\ sched = << >>
    /\ rejected = {}
    /\ gasUsed = 0
    /\ stage = "idle"
    /\ msgCount = 0
    /\ panicked = FALSE
    /\ pending = Submissions

SchedNext == Stop \/ Skip \/ Execute \/ Exhausted \/ EndBatch \/ Submit \/ BeginBatch

SchedSpec == SchedInit /\ [][SchedNext]_allVars

\* a step of schedule_and_execute_batch once the host has called it: the
\* runtime runs the loop and end_block to completion without waiting for
\* anyone, so each of its steps is weakly fair; the host's and the clients'
\* steps (BeginBatch, Submit) are not
RuntimeStep == Stop \/ Skip \/ Execute \/ Exhausted \/ EndBatch
SchedFairSpec == SchedSpec /\ WF_allVars(RuntimeStep)

-----------------------------------------------------------------------------

TxRecords == [u : Users, n : 0..MaxNonce, fee : Fees, gas : 1..BatchGasLimit,
              msgs : 0..MaxMessages]

SchedTypeOK ==
    /\ TypeOK
    /\ rest \in Seq(TxRecords) /\ kept \in Seq(TxRecords)
    /\ sched \in Seq(TxRecords)
    /\ rejected \subseteq TxRecords
    /\ gasUsed \in 0..BatchGasLimit
    /\ stage \in {"idle", "sched", "end"}
    /\ pending \subseteq Submissions
    /\ msgCount \in 0..MaxMessages /\ panicked \in BOOLEAN

\* Every transaction of the new batch paid for its place: for each signer,
\* the nonces of its scheduled transactions, in batch order, are exactly the
\* nonces the block consumed, ending just below the account's nonce.  A
\* transaction that failed authentication when executed would be in the
\* block without fee and without a nonce.
IncludedTxsPaid ==
    \A u \in Users :
        LET mine == SelectSeq(sched, LAMBDA t : t.u = u)
            c == Len(mine)
        IN  \A k \in 1..c : mine[k].n = nonce[u] - c + k - 1

\* The per-transaction limits (with_tx, limit_max_messages, emit_message)
\* and the scheduler's slot check keep the batch within max_messages, so
\* the expect on emit_messages in dispatch_tx_opts never aborts the batch.
MessagesWithinSlots == ~panicked

\* Every block the host starts is finished: whatever the order of the
\* queue and however many transactions are skipped for gas, slots or
\* nonces, the loop of schedule_and_execute_batch reaches its end, runs
\* end_block and hands the host the queue for the next block.
BlocksComplete == Running ~> stage = "idle"

=============================================================================
