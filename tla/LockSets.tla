------------------------------ MODULE LockSets ------------------------------
(***************************************************************************)
(* The lock set of a transaction: the keys its message writes and reads    *)
(* (src/sdk/src/transaction/sanitized.rs) and the pool accounts the MEV    *)
(* code adds for every transaction that calls a watched program            *)
(* (fill_tx_mev_accounts, get_readable_and_writable_locks_vec).            *)
(***************************************************************************)
EXTENDS Naturals, Sequences, FiniteSets

CONSTANTS
    Threads,            \* the threads that prepare batches on one bank
    Accounts,           \* account addresses
    Txs,                \* sanitized transactions
    Writable, Readonly, \* [Txs -> SUBSET Accounts]: the keys of the message
    SanitizeResult,     \* [Txs -> SanitizeResults]: the verdict of get_account_locks
    QosResults,         \* the verdicts select_transactions_per_cost may return
    MaxBatch,           \* transactions in a batch (64 in the code)
    WatchedPrograms,    \* Mev.watched_programs
    MonitoredPools,     \* Mev.orca_monitored_accounts
    UserAuthority,      \* the authority's address, {} when none is configured
    TokenProgram,       \* address of the SPL token program
    MevFilled           \* the transactions fill_tx_mev_accounts is called on

SanitizeResults == {"Ok", "AccountLoadedTwice", "TooManyAccountLocks"}

\* The errors select_transactions_per_cost maps the CostTrackerErrors to.
QosErrors ==
    {"WouldExceedMaxBlockCostLimit", "WouldExceedMaxVoteCostLimit",
     "WouldExceedMaxAccountCostLimit", "WouldExceedAccountDataBlockLimit",
     "WouldExceedAccountDataTotalLimit"}

LockResults == SanitizeResults \cup QosErrors \cup {"AccountInUse"}

\* A pool of the configuration: "info" stands for the pool's address and its
\* authority, "vaults" for token_a, token_b, pool_mint and pool_fee; the
\* optional source and destination are sets of at most one account.
PoolKeys ==
    [info : SUBSET Accounts, vaults : SUBSET Accounts,
     source : SUBSET Accounts, destination : SUBSET Accounts]

ASSUME ThreadsAssumption == IsFiniteSet(Threads)
ASSUME BatchAssumption == MaxBatch \in Nat \ {0}
ASSUME KeysAssumption ==
    /\ Writable \in [Txs -> SUBSET Accounts]
    /\ Readonly \in [Txs -> SUBSET Accounts]
    /\ SanitizeResult \in [Txs -> SanitizeResults]
    /\ QosResults \subseteq {"Ok"} \cup QosErrors
ASSUME MevAssumption ==
    /\ MonitoredPools \subseteq PoolKeys
    /\ UserAuthority \subseteq Accounts
    /\ TokenProgram \in Accounts
    /\ WatchedPrograms \subseteq Accounts
    /\ MevFilled \subseteq Txs

-----------------------------------------------------------------------------
(* The lock set of a transaction.                                          *)

is_monitored_account(t) == (Writable[t] \cup Readonly[t]) \cap WatchedPrograms # {}

\* Some(mev_keys): only transactions that came through
\* process_packets_transactions are filled, never the MEV transaction itself.
has_mev_keys(t) == t \in MevFilled /\ is_monitored_account(t)

Extracting(p) == p.source # {} /\ p.destination # {}

get_readonly_accounts ==
    UserAuthority \cup {TokenProgram} \cup
        (UNION {p.info \cup (IF Extracting(p) THEN {} ELSE p.vaults) : p \in MonitoredPools})

get_write_accounts ==
    UNION {IF Extracting(p) THEN p.source \cup p.destination \cup p.vaults ELSE {} :
               p \in MonitoredPools}

\* get_readable_and_writable_locks_vec
WriteKeys(t) ==
    Writable[t] \cup (IF has_mev_keys(t) THEN get_write_accounts ELSE {})

ReadKeys(t) ==
    IF has_mev_keys(t) THEN (Readonly[t] \cup get_readonly_accounts) \ WriteKeys(t)
                       ELSE Readonly[t]

\* Two transactions that may not be in flight together.
Conflict(t, u) ==
    \/ WriteKeys(t) \cap (WriteKeys(u) \cup ReadKeys(u)) # {}
    \/ WriteKeys(u) \cap ReadKeys(t) # {}

\* The transactions of a batch, and the verdict each one has before any lock
\* is taken: a transaction the cost model selected has the verdict of
\* get_account_locks, the others keep the error of the cost model.
Batches == UNION {[1..n -> Txs] : n \in 1..MaxBatch}

Verdict(t, q) == IF q = "Ok" THEN SanitizeResult[t] ELSE q
Verdicts(txs, qos) == [i \in 1..Len(txs) |-> Verdict(txs[i], qos[i])]

=============================================================================
