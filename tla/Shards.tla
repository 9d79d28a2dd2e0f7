-------------------------------- MODULE Shards --------------------------------
(***************************************************************************)
(* Sharded batch execution (dispatcher.rs, execute_batch_common).  The     *)
(* groups of one batch are executed by NumTh shards th_idx = 0..NumTh-1 on *)
(* their own threads; they coordinate only through two process-wide        *)
(* vectors, each behind its own mutex:                                     *)
(*  - CTX_FEE_ACCUM: shards other than the last push the fees of their     *)
(*    FeeAccumulator; the last shard adds every entry to its own before    *)
(*    end_block moves the accumulator onto the fee accumulator address;    *)
(*  - MSG_HANDLERS: every shard appends the hooks of the consensus         *)
(*    messages it emitted; the last shard drains the vector into the       *)
(*    MESSAGE_HANDLERS store, which the next round's shard 0 reads in      *)
(*    handle_last_round_messages.                                          *)
(* Shard 0 clears both vectors when it starts.  Every step that touches    *)
(* only a shard's own context is folded into the neighbouring step that    *)
(* takes a mutex.  Rounds follow each other: a round starts when every     *)
(* shard of the previous one has returned.  How the host schedules the    *)
(* shards of a round is outside this repository: SequentialHost makes it   *)
(* run them one after another in th_idx order, as spec 4.1 describes the   *)
(* last shard aggregating what earlier shards published; otherwise they    *)
(* run on threads in any interleaving (spec 5).                            *)
(*                                                                         *)
(* A message is a consensus-layer deposit into the runtime (its hook is   *)
(* CONSENSUS_WITHDRAW_HANDLER) or a withdrawal out of it (hook            *)
(* CONSENSUS_TRANSFER_HANDLER), emitted by a call of the shard's signer;   *)
(* the consensus layer reports success or failure of each, and the hooks  *)
(* of the EVM module (evm/src/lib.rs) call the stable-coin contract.      *)
(***************************************************************************)
EXTENDS Naturals, Sequences, SequencesExt

CONSTANTS
    NumTh,      \* num_th
    Fees,       \* total fee a shard's transactions may pay in a round
    MaxRounds,  \* bound on the number of rounds
    SequentialHost  \* the host runs shard th only after shard th-1 returned

Shards == 0..NumTh-1
LastTh == NumTh - 1

Kinds == {"deposit", "withdraw"}

\* a message hook: the round and shard that emitted it, and its kind; the
\* shard stands for the address and eth address of the hook's context
Hooks == (1..MaxRounds) \X Shards \X Kinds

\* DW_SYSTEM_ADDRESS, the caller of every stable-coin contract call: an
\* address no shard's signer has
SystemAddr == NumTh

VARIABLES
    round,     \* the round being executed
    pc,        \* pc[th]: the next step of shard th
    acc,       \* acc[th]: the FeeAccumulator of shard th's batch context
    pend,      \* pend[th]: the kind of message shard th emitted this round, or "none"
    feeList,   \* CTX_FEE_ACCUM, as the sum of its entries (one denomination)
    handlers,  \* MSG_HANDLERS
    saved,     \* the MESSAGE_HANDLERS store: index -> hook, saved last round
    prevMsgs,  \* the messages the previous round emitted, in shard order;
               \* runtime_round_results delivers the result of message i
               \* as an event with index i - 1
    results,   \* results[i]: the consensus layer's outcome of prevMsgs[i]
    scCalls,   \* the stable-coin contract calls the hooks made this round
    failed,    \* handle_last_round_messages returned an error
    charged,   \* fees debited from payers so far, all shards
    credited   \* fees moved onto the fee accumulator address so far

vars == <<round, pc, acc, pend, feeList, handlers, saved, prevMsgs, results,
          scCalls, failed, charged, credited>>

-----------------------------------------------------------------------------

\* handle_last_round_messages: the event of every message result removes
\* the hook stored under its index (MessageHandlerMissing if there is none)
\* and no hook may be left over (MessageHandlerNotInvoked); the hook found
\* there must be the one of that message, or its result goes to the wrong
\* hook
HandlersMatch(store, msgs) ==
    /\ DOMAIN store = 0..Len(msgs) - 1
    /\ \A i \in DOMAIN store : store[i] = msgs[i + 1]

\* do_sc_evm: a transact_call from DW_SYSTEM_ADDRESS to DW_CONTRACT_ADDRESS
\* with fixed gas, applied if it succeeds; every caller below discards its
\* result, so the call stands for the attempt
ScCall(op, target, bySystem) == [op |-> op, to |-> target, system |-> bySystem]

\* call_sc_mint / call_sc_burn: calldata selector || address || amount ||
\* flag, the amount being the hook context's
CallScMint(target, bySystem) == ScCall("mint", target, bySystem)
CallScBurn(target, bySystem) == ScCall("burn", target, bySystem)

\* message_result_withdraw: a deposit that failed only emits an event; one
\* that succeeded mints to the context's eth address
MessageResultWithdraw(h, ok) == IF ok THEN <<CallScMint(h[2], FALSE)>> ELSE << >>

\* Faulty variant: the refund and the burn of message_result_transfer
\* swapped.
MessageResultTransferSwapped(h, ok) ==
    IF ok THEN <<CallScMint(h[2], TRUE)>> ELSE <<CallScBurn(SystemAddr, FALSE)>>

\* message_result_transfer: a failed withdrawal is refunded by a mint to the
\* context's eth address, a successful one burnt from the system address
MessageResultTransfer(h, ok) ==
    IF ok THEN <<CallScBurn(SystemAddr, FALSE)>> ELSE <<CallScMint(h[2], TRUE)>>

\* dispatch_message_result by the hook's name
DispatchMessageResult(h, ok) ==
    IF h[3] = "deposit" THEN MessageResultWithdraw(h, ok) ELSE MessageResultTransfer(h, ok)

\* handle_last_round_messages: for each message event, in order, the hook
\* stored under its index is removed and invoked with the event's result
RoundCalls(store, res) ==
    FlattenSeq([i \in 1..Len(res) |-> DispatchMessageResult(store[i - 1], res[i])])

\* Faulty variant: the hooks keyed from 1.
SavedStoreFromOne(h) == [i \in 1..Len(h) |-> h[i]]

\* Faulty variant: MSG_HANDLERS drained by popping, last hook first.
SavedStorePopped(h) == [i \in 0..Len(h) - 1 |-> h[Len(h) - i]]

\* save_emitted_message_handlers: the hooks keyed by enumerate()
SavedStore(h) == [i \in 0..Len(h) - 1 |-> h[i + 1]]

\* Faulty variant: the vectors cleared by the last shard when it starts.
ClearsAtLast(th) == th = LastTh

\* if th_idx == 0: MSG_HANDLERS and CTX_FEE_ACCUM are cleared
Clears(th) == th = 0

\* execute_batch_common up to the return of f: shard 0 clears the vectors
\* and handles the last round's message results, which fails the batch on
\* a mismatch; then the shard executes its transactions, which charge fee
\* and may emit one message.
Begin(th) ==
    /\ ~failed
    /\ pc[th] = "begin"
    /\ SequentialHost /\ th > 0 => pc[th - 1] = "done"
    /\ IF Clears(th)
         THEN feeList' = 0 /\ handlers' = << >>
         ELSE UNCHANGED <<feeList, handlers>>
    /\ failed' = (th = 0 /\ ~HandlersMatch(saved, prevMsgs))
    /\ scCalls' = IF th = 0 /\ ~failed' THEN RoundCalls(saved, results) ELSE scCalls
    /\ \E fee \in Fees, emit \in Kinds \cup {"none"} :
         /\ acc' = [acc EXCEPT ![th] = fee]
         /\ charged' = charged + fee
         /\ pend' = [pend EXCEPT ![th] = emit]
    /\ pc' = [pc EXCEPT ![th] = "spill"]
    /\ UNCHANGED <<round, saved, prevMsgs, results, credited>>

\* Faulty variant: the last shard replaces its accumulator by the entries
\* instead of adding them.
FoldReplace(a, th) == IF th = LastTh THEN feeList ELSE a

\* the last shard's FeeAccumulator after adding every CTX_FEE_ACCUM entry
Fold(a, th) == IF th = LastTh /\ NumTh > 1 THEN a + feeList ELSE a

\* if num_th > 1: a shard other than the last takes its FeeAccumulator and
\* pushes its fees; the last one adds every entry to its own.  The last
\* shard then runs end_block, which moves its accumulator onto the fee
\* accumulator address.
Spill(th) ==
    /\ ~failed
    /\ pc[th] = "spill"
    /\ IF th < LastTh
         THEN /\ feeList' = feeList + acc[th]
              /\ acc' = [acc EXCEPT ![th] = 0]
              /\ UNCHANGED credited
         ELSE /\ credited' = credited + Fold(acc[th], th)
              /\ acc' = [acc EXCEPT ![th] = 0]
              /\ UNCHANGED feeList
    /\ pc' = [pc EXCEPT ![th] = "commit"]
    /\ UNCHANGED <<round, pend, handlers, saved, prevMsgs, results, scCalls, failed,
                   charged>>

\* ctx.commit, then the emitted hooks appended to MSG_HANDLERS
Commit(th) ==
    /\ ~failed
    /\ pc[th] = "commit"
    /\ handlers' = IF pend[th] # "none" THEN Append(handlers, <<round, th, pend[th]>>)
                                       ELSE handlers
    /\ pc' = [pc EXCEPT ![th] = IF th = LastTh THEN "save" ELSE "done"]
    /\ UNCHANGED <<round, acc, pend, feeList, saved, prevMsgs, results, scCalls,
                   failed, charged, credited>>

\* the last shard drains MSG_HANDLERS into save_emitted_message_handlers
Save(th) ==
    /\ ~failed
    /\ th = LastTh
    /\ pc[th] = "save"
    /\ saved' = SavedStore(handlers)
    /\ handlers' = << >>
    /\ pc' = [pc EXCEPT ![th] = "done"]
    /\ UNCHANGED <<round, acc, pend, feeList, prevMsgs, results, scCalls, failed,
                   charged, credited>>

\* every shard has returned: the next round starts, and the consensus layer
\* reports the result of every message the shards emitted
NextRound ==
    /\ ~failed
    /\ \A th \in Shards : pc[th] = "done"
    /\ round < MaxRounds
    /\ round' = round + 1
    /\ pc' = [th \in Shards |-> "begin"]
    /\ prevMsgs' = SelectSeq([k \in 1..NumTh |-> <<round, k - 1, pend[k - 1]>>],
                             LAMBDA h : h[3] # "none")
    /\ results' \in [1..Len(prevMsgs') -> BOOLEAN]
    /\ pend' = [th \in Shards |-> "none"]
    /\ UNCHANGED <<acc, feeList, handlers, saved, scCalls, failed, charged, credited>>

Init ==
    /\ round = 1
    /\ pc = [th \in Shards |-> "begin"]
    /\ acc = [th \in Shards |-> 0]
    /\ pend = [th \in Shards |-> "none"]
    /\ feeList = 0
    /\ handlers = << >>
    /\ saved = << >>
    /\ prevMsgs = << >>
    /\ results = << >>
    /\ scCalls = << >>
    /\ failed = FALSE
    /\ charged = 0
    /\ credited = 0

\* the steps of shard th: the code of execute_batch_common, run by the
\* thread the host started for it
ShardStep(th) == Begin(th) \/ Spill(th) \/ Commit(th) \/ Save(th)

Next ==
    \/ \E th \in Shards : ShardStep(th)
    \/ NextRound

Spec == Init /\ [][Next]_vars

-----------------------------------------------------------------------------

RoundDone == \A th \in Shards : pc[th] = "done"

TypeOK ==
    /\ round \in 1..MaxRounds
    /\ pc \in [Shards -> {"begin", "spill", "commit", "save", "done"}]
    /\ acc \in [Shards -> Nat]
    /\ pend \in [Shards -> Kinds \cup {"none"}]
    /\ feeList \in Nat
    /\ handlers \in Seq(Hooks)
    /\ saved \in UNION {[0..k - 1 -> Hooks] : k \in 0..NumTh}
    /\ prevMsgs \in Seq(Hooks)
    /\ results \in Seq(BOOLEAN) /\ Len(results) = Len(prevMsgs)
    /\ scCalls \in Seq([op : {"mint", "burn"}, to : Shards \cup {SystemAddr},
                        system : BOOLEAN])
    /\ failed \in BOOLEAN
    /\ charged \in Nat /\ credited \in Nat

\* Spec 4.3 and 5: once every shard of a round has returned, the fees the
\* shards charged have all reached the fee accumulator address -- no push
\* to CTX_FEE_ACCUM is missed by the last shard and none is counted twice.
FeesAccounted == RoundDone => credited = charged

\* The hooks the last shard saves are exactly those of the messages the
\* round emitted, so the next round's handle_last_round_messages never
\* fails with MessageHandlerMissing or MessageHandlerNotInvoked.
HandlersDelivered == ~failed

\* Spec 4.4, for the calls of one message result m with outcome ok
SpecBridgeCalls(m, ok) ==
    CASE m[3] = "deposit" /\ ok -> <<[op |-> "mint", to |-> m[2]]>>
      [] m[3] = "withdraw" /\ ~ok -> <<[op |-> "mint", to |-> m[2]]>>
      [] m[3] = "withdraw" /\ ok -> <<[op |-> "burn", to |-> SystemAddr]>>
      [] OTHER -> << >>

\* Spec 4.4: once shard 0 has handled the previous round's message results,
\* the stable-coin calls made are, in message order, a mint to the
\* depositor for each successful deposit, a refund mint for each failed
\* withdrawal and a burn from the system address for each successful one:
\* the hook saved for a message one round earlier, by whichever shard,
\* is dispatched with that message's own result.
BridgeCallsFollowResults ==
    (pc[0] # "begin" /\ ~failed)
        => [i \in 1..Len(scCalls) |-> [op |-> scCalls[i].op, to |-> scCalls[i].to]]
           = FlattenSeq([i \in 1..Len(prevMsgs) |-> SpecBridgeCalls(prevMsgs[i], results[i])])

=============================================================================
