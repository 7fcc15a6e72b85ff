---------------------------- MODULE CostTracker ----------------------------
(***************************************************************************)
(* CostTracker (src/runtime/src/cost_tracker.rs): the costs a block has    *)
(* accumulated, as operators from one tracker to the next.  A tracker is a *)
(* record of the fields of the struct; an account without an entry in the  *)
(* map has cost 0.                                                         *)
(***************************************************************************)
EXTENDS Naturals

CONSTANTS
    Txs, Accounts,
    TransactionCost,          \* [Txs -> record of the fields of TransactionCost]
    account_cost_limit, block_cost_limit, vote_cost_limit,
    account_data_size_limit,  \* the optional limit: a set of at most one number
    MAX_ACCOUNT_DATA_BLOCK_LEN,
    U64_MAX

CostFields ==
    [sum : Nat, bpf_execution_cost : Nat, account_data_size : Nat,
     is_simple_vote : BOOLEAN, writable_accounts : SUBSET Accounts]

\* The compiled-in limits are ordered, and a cost is at least its execution part.
ASSUME CostAssumption ==
    /\ TransactionCost \in [Txs -> CostFields]
    /\ \A t \in Txs : TransactionCost[t].bpf_execution_cost <= TransactionCost[t].sum
    /\ {account_cost_limit, vote_cost_limit} \subseteq 0..block_cost_limit
    /\ block_cost_limit \in 0..U64_MAX
    /\ account_data_size_limit \subseteq Nat
    /\ MAX_ACCOUNT_DATA_BLOCK_LEN \in Nat /\ U64_MAX \in Nat

saturating_add(x, y) == IF x + y > U64_MAX THEN U64_MAX ELSE x + y
saturating_sub(x, y) == IF x < y THEN 0 ELSE x - y

Default ==
    [block_cost |-> 0, vote_cost |-> 0, transaction_count |-> 0, account_data_size |-> 0,
     cost_by_writable_accounts |-> [a \in Accounts |-> 0]]

\* Mutant: the costs already on an account are not looked at.
FitsBlockOnly(tracker, t) ==
    IF saturating_add(tracker.block_cost, TransactionCost[t].sum) > block_cost_limit
    THEN "WouldExceedMaxBlockCostLimit"
    ELSE IF TransactionCost[t].sum > account_cost_limit THEN "WouldExceedMaxAccountCostLimit"
    ELSE "Ok"

\* The checks are made in this order: a transaction that exceeds several
\* limits gets the first error.
would_fit(tracker, t) ==
    LET cost == TransactionCost[t].sum
        vote_cost == IF TransactionCost[t].is_simple_vote THEN cost ELSE 0
        data_size == saturating_add(tracker.account_data_size, TransactionCost[t].account_data_size)
    IN  IF saturating_add(tracker.block_cost, cost) > block_cost_limit
        THEN "WouldExceedMaxBlockCostLimit"
        ELSE IF saturating_add(tracker.vote_cost, vote_cost) > vote_cost_limit
        THEN "WouldExceedMaxVoteCostLimit"
        ELSE IF cost > account_cost_limit
        THEN "WouldExceedMaxAccountCostLimit"
        ELSE IF \E limit \in account_data_size_limit : data_size > limit
        THEN "WouldExceedAccountDataTotalLimit"
        ELSE IF data_size > MAX_ACCOUNT_DATA_BLOCK_LEN
        THEN "WouldExceedAccountDataBlockLimit"
        ELSE IF \E a \in TransactionCost[t].writable_accounts :
                    saturating_add(tracker.cost_by_writable_accounts[a], cost) > account_cost_limit
        THEN "WouldExceedMaxAccountCostLimit"
        ELSE "Ok"

add_transaction_execution_cost(tracker, t, adjustment) ==
    [tracker EXCEPT
        !.block_cost = saturating_add(@, adjustment),
        !.vote_cost = IF TransactionCost[t].is_simple_vote THEN saturating_add(@, adjustment) ELSE @,
        !.cost_by_writable_accounts = [a \in Accounts |->
            IF a \in TransactionCost[t].writable_accounts THEN saturating_add(@[a], adjustment) ELSE @[a]]]

sub_transaction_execution_cost(tracker, t, adjustment) ==
    [tracker EXCEPT
        !.block_cost = saturating_sub(@, adjustment),
        !.vote_cost = IF TransactionCost[t].is_simple_vote THEN saturating_sub(@, adjustment) ELSE @,
        !.cost_by_writable_accounts = [a \in Accounts |->
            IF a \in TransactionCost[t].writable_accounts THEN saturating_sub(@[a], adjustment) ELSE @[a]]]

add_transaction_cost(tracker, t) ==
    [add_transaction_execution_cost(tracker, t, TransactionCost[t].sum) EXCEPT
        !.account_data_size = saturating_add(@, TransactionCost[t].account_data_size),
        !.transaction_count = saturating_add(@, 1)]

\* Mutant: the size of the account data stays.
RemoveExecutionCost(tracker, t) ==
    [sub_transaction_execution_cost(tracker, t, TransactionCost[t].sum) EXCEPT
        !.transaction_count = saturating_sub(@, 1)]

remove_transaction_cost(tracker, t) ==
    [sub_transaction_execution_cost(tracker, t, TransactionCost[t].sum) EXCEPT
        !.account_data_size = saturating_sub(@, TransactionCost[t].account_data_size),
        !.transaction_count = saturating_sub(@, 1)]

\* Replace the estimated execution units by the actual ones.
update_execution_cost(tracker, t, actual) ==
    LET estimated == TransactionCost[t].bpf_execution_cost
    IN  IF actual > estimated
        THEN add_transaction_execution_cost(tracker, t, actual - estimated)
        ELSE sub_transaction_execution_cost(tracker, t, estimated - actual)

=============================================================================
