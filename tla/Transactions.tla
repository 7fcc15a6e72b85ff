---------------------------- MODULE Transactions ----------------------------
(***************************************************************************)
(* What committing an executed transaction writes to the accounts.  The    *)
(* value of an account is the sequence of the transactions that wrote it,  *)
(* so that two values are equal only when the same writes led to them.     *)
(***************************************************************************)
EXTENDS LockSets

CONSTANTS
    Payer,          \* [Txs -> Accounts]: fee_payer()
    NonceAccount,   \* [Txs -> SUBSET Accounts]: the durable nonce, {} when none is used
    Outcomes        \* [Txs -> SUBSET ExecutionResults]: what loading and executing may give

\* NotExecuted stands for every load error, Err for an instruction error.
ExecutionResults == {"NotExecuted", "Ok", "Err"}

ASSUME PayerAssumption ==
    /\ Payer \in [Txs -> Accounts]
    /\ NonceAccount \in [Txs -> SUBSET Accounts]
    /\ \A t \in Txs : {Payer[t]} \cup NonceAccount[t] \subseteq Writable[t]
    /\ Outcomes \in [Txs -> (SUBSET ExecutionResults) \ {{}}]

Values == Seq(Txs)
MessageKeys(t) == Writable[t] \cup Readonly[t]

\* The accounts collect_accounts_to_store returns: every writable one of a
\* successful transaction, payer and nonce of a failed one that has a nonce.
StoredAccounts(t, result) ==
    CASE result = "Ok" -> Writable[t]
      [] result = "Err" /\ NonceAccount[t] # {} -> {Payer[t]} \cup NonceAccount[t]
      [] OTHER -> {}

\* The account filter_program_errors_and_collect_fee withdraws a fee from.
FeeAccounts(t, result) ==
    IF result = "Err" /\ NonceAccount[t] = {} THEN {Payer[t]} ELSE {}

CommittedWrites(t, result) == StoredAccounts(t, result) \cup FeeAccounts(t, result)

=============================================================================
