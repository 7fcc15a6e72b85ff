---------------------------- MODULE QosService ----------------------------
(***************************************************************************)
(* The banking threads and the cost tracker they share                     *)
(* (src/core/src/qos_service.rs and its calls in                           *)
(* process_and_record_transactions): a batch reserves the estimated costs  *)
(* of its transactions before it is locked and executed, and settles them  *)
(* after it was unlocked.  Both loops hold the write lock of the tracker,  *)
(* so each is one step.                                                    *)
(***************************************************************************)
EXTENDS CostTracker, Sequences, FiniteSets, FiniteSetsExt, SequencesExt

CONSTANTS
    Threads,
    MaxBatch,
    MevTxs,     \* the transactions that come as a MEV batch of their own
    Units       \* [Txs -> SUBSET Nat]: the units an execution may consume

ASSUME QosAssumption ==
    /\ MaxBatch \in Nat \ {0}
    /\ MevTxs \subseteq Txs
    /\ Units \in [Txs -> SUBSET Nat]

VARIABLES
    cost_tracker,       \* Bank.cost_tracker
    phase,              \* "idle", "selected" or "executed"
    batch,              \* the transactions of the thread's batch
    qos_results,        \* transactions_qos_results
    committed_status,   \* {} when not committed, {units} when committed
    record_ok,          \* commit_transactions_result is Ok
    block               \* the recorded transactions with the units they used

qosVars == <<cost_tracker, phase, batch, qos_results, committed_status, record_ok, block>>

Recorded == {b[1] : b \in block}

\* A batch of user transactions, or one MEV transaction.
QosBatches ==
    {txs \in UNION {[1..n -> Txs \ MevTxs] : n \in 1..MaxBatch} : IsInjective(txs)}
        \cup {<<t>> : t \in MevTxs}

Init ==
    /\ cost_tracker = Default
    /\ phase = [th \in Threads |-> "idle"]
    /\ batch = [th \in Threads |-> <<>>]
    /\ qos_results = [th \in Threads |-> <<>>]
    /\ committed_status = [th \in Threads |-> <<>>]
    /\ record_ok = [th \in Threads |-> TRUE]
    /\ block = {}

TryAdd(acc, t) ==
    LET result == would_fit(acc.tracker, t)
    IN  [tracker |-> IF result = "Ok" THEN add_transaction_cost(acc.tracker, t) ELSE acc.tracker,
         results |-> Append(acc.results, result)]

select_transactions_per_cost(th, txs) ==
    LET selected == FoldLeft(TryAdd, [tracker |-> cost_tracker, results |-> <<>>], txs)
    IN  /\ phase[th] = "idle"
        /\ phase' = [phase EXCEPT ![th] = "selected"]
        /\ batch' = [batch EXCEPT ![th] = txs]
        /\ qos_results' = [qos_results EXCEPT ![th] = selected.results]
        /\ cost_tracker' = selected.tracker
        /\ UNCHANGED <<committed_status, record_ok, block>>

Selected(th) == {i \in DOMAIN batch[th] : qos_results[th][i] = "Ok"}

\* transactions_execute_and_record_status: every executed transaction is
\* marked committed before the record.  The record takes all of them, except
\* a MEV transaction that failed.
ExecuteAndRecord(th) ==
    /\ phase[th] = "selected"
    /\ \E executed \in SUBSET {i \in Selected(th) : batch[th][i] \notin Recorded} :
       \E units \in [executed -> UNION {Units[t] : t \in Txs}] :
           /\ \A i \in executed : units[i] \in Units[batch[th][i]]
           /\ committed_status' = [committed_status EXCEPT ![th] =
                  [i \in DOMAIN batch[th] |-> IF i \in executed THEN {units[i]} ELSE {}]]
           /\ \E failed \in SUBSET {i \in executed : batch[th][i] \in MevTxs} :
                  block' = block \cup {<<batch[th][i], units[i]>> : i \in executed \ failed}
    /\ record_ok' = [record_ok EXCEPT ![th] = TRUE]
    /\ phase' = [phase EXCEPT ![th] = "executed"]
    /\ UNCHANGED <<cost_tracker, batch, qos_results>>

\* The record fails: the slot is over.
RecordFails(th) ==
    /\ phase[th] = "selected"
    /\ Selected(th) # {}
    /\ record_ok' = [record_ok EXCEPT ![th] = FALSE]
    /\ committed_status' = [committed_status EXCEPT ![th] = [i \in DOMAIN batch[th] |-> {}]]
    /\ phase' = [phase EXCEPT ![th] = "executed"]
    /\ UNCHANGED <<cost_tracker, batch, qos_results, block>>

\* update_transaction_costs for a batch that was recorded,
\* remove_transaction_costs otherwise.
Settle(th, tracker, i) ==
    IF i \notin Selected(th) THEN tracker
    ELSE IF ~record_ok[th] \/ committed_status[th][i] = {}
    THEN remove_transaction_cost(tracker, batch[th][i])
    ELSE update_execution_cost(tracker, batch[th][i],
                               CHOOSE units \in committed_status[th][i] : TRUE)

update_or_remove_transaction_costs(th) ==
    /\ phase[th] = "executed"
    /\ cost_tracker' = FoldLeft(LAMBDA tracker, i : Settle(th, tracker, i), cost_tracker,
                                [i \in DOMAIN batch[th] |-> i])
    /\ phase' = [phase EXCEPT ![th] = "idle"]
    /\ batch' = [batch EXCEPT ![th] = <<>>]
    /\ qos_results' = [qos_results EXCEPT ![th] = <<>>]
    /\ committed_status' = [committed_status EXCEPT ![th] = <<>>]
    /\ record_ok' = [record_ok EXCEPT ![th] = TRUE]
    /\ UNCHANGED block

Next ==
    \E th \in Threads :
        \/ \E txs \in QosBatches : select_transactions_per_cost(th, txs)
        \/ ExecuteAndRecord(th)
        \/ RecordFails(th)
        \/ update_or_remove_transaction_costs(th)

Spec == Init /\ [][Next]_qosVars

-----------------------------------------------------------------------------
(* Properties.                                                             *)

\* The types of the variables: the fields of the tracker are u64.
TypeOK ==
    /\ cost_tracker \in [block_cost : 0..U64_MAX, vote_cost : 0..U64_MAX,
                         transaction_count : 0..U64_MAX, account_data_size : 0..U64_MAX,
                         cost_by_writable_accounts : [Accounts -> 0..U64_MAX]]
    /\ phase \in [Threads -> {"idle", "selected", "executed"}]
    /\ batch \in [Threads -> QosBatches \cup {<<>>}]
    /\ \A th \in Threads : DOMAIN qos_results[th] = DOMAIN batch[th]
    /\ \A b \in block : b[2] \in Units[b[1]]

\* What the block really costs: the estimates of the transactions that are
\* still in flight, and the actual costs of the recorded ones that are not.
InFlight == {<<th, i>> \in Threads \X (1..MaxBatch) : i \in Selected(th)}
TxAt(s) == batch[s[1]][s[2]]

Settled ==
    block \ UNION {UNION {{<<batch[th][i], u>> : u \in committed_status[th][i]} :
                             i \in DOMAIN committed_status[th]} : th \in Threads}

Cost(t) == TransactionCost[t].sum
ActualCost(b) == Cost(b[1]) - TransactionCost[b[1]].bpf_execution_cost + b[2]

TrueCost(txs) ==
    MapThenSumSet(LAMBDA s : Cost(TxAt(s)), {s \in InFlight : TxAt(s) \in txs}) +
    MapThenSumSet(ActualCost, {b \in Settled : b[1] \in txs})

TrueDataSize ==
    MapThenSumSet(LAMBDA s : TransactionCost[TxAt(s)].account_data_size, InFlight) +
    MapThenSumSet(LAMBDA b : TransactionCost[b[1]].account_data_size, Settled)

Votes == {t \in Txs : TransactionCost[t].is_simple_vote}
WritersOf(a) == {t \in Txs : a \in TransactionCost[t].writable_accounts}

\* The tracker is exact, whatever batches are in flight in however many
\* threads: reservations of what was not committed are given back, those of
\* what was committed are replaced by the actual costs, and no saturating
\* subtraction ever cuts off.  update_or_remove_transaction_costs says it
\* keeps the tracker from "being inflated with unsuccessfully executed
\* transactions".
CostsAreExact ==
    /\ TypeOK
    /\ cost_tracker.block_cost = TrueCost(Txs)
    /\ cost_tracker.vote_cost = TrueCost(Votes)
    /\ \A a \in Accounts : cost_tracker.cost_by_writable_accounts[a] = TrueCost(WritersOf(a))
    /\ cost_tracker.account_data_size = TrueDataSize
    /\ cost_tracker.transaction_count = Cardinality(InFlight) + Cardinality(Settled)

\* A step in which the cost model admits a transaction leaves the block, the
\* votes in it and each account the transaction writes within their limits,
\* measured by what the block really costs and not by the tracker.
AdmittedWithinLimits ==
    [][\A th \in Threads : phase[th] = "idle" =>
           \A i \in Selected(th)' :
               LET t == (batch[th][i])'
               IN  /\ TrueCost(Txs)' <= block_cost_limit
                   /\ t \in Votes => TrueCost(Votes)' <= vote_cost_limit
                   /\ \A a \in TransactionCost[t].writable_accounts :
                          TrueCost(WritersOf(a))' <= account_cost_limit]_qosVars

=============================================================================
