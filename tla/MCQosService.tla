---------------------------- MODULE MCQosService ----------------------------
(***************************************************************************)
(* Two threads with batches of at most two transactions: a vote, a payment *)
(* that may use more units than estimated, one that creates an account,    *)
(* and a MEV transaction.  The limits let two or three of them into the    *)
(* block, and every limit is met by some batch.                            *)
(***************************************************************************)
EXTENDS QosService

MCTxs == {"vote", "pay", "create", "mev"}
UserTxs == {"vote", "pay", "create"}

Fields(sum, bpf, data, vote, accounts) ==
    [sum |-> sum, bpf_execution_cost |-> bpf, account_data_size |-> data,
     is_simple_vote |-> vote, writable_accounts |-> accounts]

MCTransactionCost == [t \in Txs |->
    CASE t = "vote"   -> Fields(3, 0, 0, TRUE, {"v"})
      [] t = "pay"    -> Fields(4, 2, 0, FALSE, {"a"})
      [] t = "create" -> Fields(3, 1, 2, FALSE, {"a", "b"})
      [] t = "mev"    -> Fields(5, 3, 0, FALSE, {"b"})]

MCUnits == [t \in Txs |->
    CASE t = "vote" -> {0} [] t = "pay" -> {1, 3} [] t = "create" -> {1} [] t = "mev" -> {1, 3}]
=============================================================================
