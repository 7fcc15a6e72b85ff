---------------------------- MODULE BankingStage ----------------------------
(***************************************************************************)
(* One leader slot of the banking stage (src/core/src/banking_stage.rs):   *)
(* every thread takes batches of buffered packets through lock, check,     *)
(* load, execute, record, commit and unlock, and processes the MEV         *)
(* transaction that a batch gave rise to as a batch of its own.  PoH ticks *)
(* and replay, which freezes the complete bank, run beside the threads.    *)
(* The account locks are the atomic ones of BatchLocks, which AccountLocks *)
(* implements.                                                             *)
(***************************************************************************)
EXTENDS BatchLocks, Transactions

CONSTANTS
    Incoming,      \* [Threads -> SUBSET Txs]: the packets buffered by a thread
    Sanitizable,   \* packets transaction_from_deserialized_packet accepts
    Expiring,      \* transactions too old for the next leader
    MevTxs,        \* the transactions the MEV scan may craft
    MaxTicks       \* ticks until bank.max_tick_height()

ASSUME IncomingAssumption ==
    /\ Incoming \in [Threads -> SUBSET Txs]
    /\ Sanitizable \subseteq Txs
    /\ Expiring \subseteq Txs
    /\ MevTxs \subseteq Txs \ MevFilled
    /\ MaxTicks \in Nat \ {0}

\* The scan crafts and signs its transactions here: none is among the packets.
ASSUME CraftedAssumption == \A th \in Threads : Incoming[th] \cap MevTxs = {}

VARIABLES
    \* the bank and the PoH recorder
    tick_height, working_bank, freeze_writer, freeze_started, bank_hash,
    freeze_readers, ledger, status_cache, store,
    \* every thread
    pc, buffer, pending, retryable, batch_type, view, execution_results,
    commit_result, mev_tx, end_of_slot

bankVars == <<tick_height, working_bank, freeze_writer, freeze_started, bank_hash>>
commitVars == <<freeze_readers, ledger, status_cache, store>>
packetVars == <<buffer, pending, retryable, end_of_slot>>
resultVars == <<view, execution_results, commit_result>>
mevVars == <<batch_type, mev_tx>>
vars == <<batchVars, bankVars, commitVars, packetVars, resultVars, mevVars, pc>>

BankingInit ==
    /\ Init
    /\ tick_height = 0
    /\ working_bank = TRUE
    /\ freeze_writer = FALSE
    /\ freeze_started = FALSE
    /\ bank_hash = {}
    /\ freeze_readers = {}
    /\ ledger = <<>>
    /\ status_cache = {}
    /\ store = [a \in Accounts |-> <<>>]
    /\ pc = [th \in Threads |-> "Idle"]
    /\ buffer = Incoming
    /\ pending = [th \in Threads |-> {}]
    /\ retryable = [th \in Threads |-> {}]
    /\ batch_type = [th \in Threads |-> "Normal"]
    /\ view = [th \in Threads |-> <<>>]
    /\ execution_results = [th \in Threads |-> <<>>]
    /\ commit_result = [th \in Threads |-> "None"]
    /\ mev_tx = [th \in Threads |-> {}]
    /\ end_of_slot = [th \in Threads |-> FALSE]

Goto(th, from, to) == pc[th] = from /\ pc' = [pc EXCEPT ![th] = to]

-----------------------------------------------------------------------------
(* Packets.                                                                *)

\* consume_buffered_packets starts: the recorder has a working bank.
bank_start(th) ==
    /\ working_bank
    /\ buffer[th] # {}
    /\ Goto(th, "Idle", "Scan")
    /\ pending' = [pending EXCEPT ![th] = buffer[th]]
    /\ buffer' = [buffer EXCEPT ![th] = {}]
    /\ end_of_slot' = [end_of_slot EXCEPT ![th] = FALSE]
    /\ UNCHANGED <<batchVars, bankVars, commitVars, resultVars, mevVars, retryable>>

\* What the scanner may hand out: no two packets write the same account.
ScannedBatches(th) ==
    {txs \in Batches :
        \A i \in 1..Len(txs) :
            /\ txs[i] \in pending[th] \cap Sanitizable
            /\ \A j \in 1..Len(txs) \ {i} : Writable[txs[i]] \cap Writable[txs[j]] = {}}

\* One turn of the scanner, the cost model's selection and the account locks.
\* Packets that cannot be sanitized are forgotten when the scanner meets them.
process_normal_batch(th) ==
    /\ Goto(th, "Scan", "Check")
    /\ ~end_of_slot[th]
    /\ \E txs \in ScannedBatches(th), dropped \in SUBSET (pending[th] \ Sanitizable) :
           /\ LockBatch(th, txs)
           /\ pending' = [pending EXCEPT ![th] =
                  @ \ (dropped \cup {txs[i] : i \in 1..Len(txs)})]
    /\ batch_type' = [batch_type EXCEPT ![th] = "Normal"]
    /\ UNCHANGED <<bankVars, commitVars, resultVars, mev_tx, buffer, retryable, end_of_slot>>

\* The batch of the MEV transaction: its result and its retryable indexes
\* are only logged.
process_mev_batch(th) ==
    /\ Goto(th, "MevBatch", "Check")
    /\ \E t \in mev_tx[th] : LockBatch(th, <<t>>)
    /\ batch_type' = [batch_type EXCEPT ![th] = "Mev"]
    /\ mev_tx' = [mev_tx EXCEPT ![th] = {}]
    /\ UNCHANGED <<bankVars, commitVars, packetVars, resultVars>>

\* filter_pending_packets_from_pending_txs; the thread also leaves the slot
\* when its time is up.
filter_pending(th) ==
    /\ Goto(th, "Filter", "Scan")
    /\ buffer' = [buffer EXCEPT ![th] =
           @ \cup {t \in retryable[th] : t \notin status_cache /\ t \notin Expiring}]
    /\ retryable' = [retryable EXCEPT ![th] = {}]
    /\ \E time_is_up \in BOOLEAN :
           end_of_slot' = [end_of_slot EXCEPT ![th] = @ \/ time_is_up]
    /\ UNCHANGED <<batchVars, bankVars, commitVars, resultVars, mevVars, pending>>

\* The scanner is exhausted, or it hands out the rest unprocessed.
finish_consume(th) ==
    /\ Goto(th, "Scan", "Idle")
    /\ end_of_slot[th] \/ pending[th] \cap Sanitizable = {}
    /\ buffer' = [buffer EXCEPT ![th] =
           IF end_of_slot[th] THEN @ \cup pending[th] ELSE @]
    /\ pending' = [pending EXCEPT ![th] = {}]
    /\ UNCHANGED <<batchVars, bankVars, commitVars, resultVars, mevVars, retryable, end_of_slot>>

-----------------------------------------------------------------------------
(* Executing a batch whose locks are held.                                 *)

Indexes(th) == DOMAIN batch[th]
Executed(th) == {i \in DOMAIN execution_results[th] : execution_results[th][i] # "NotExecuted"}

\* Mutant: the status cache is not looked at again once the locks are held.
CheckLocksOnly(th) ==
    /\ Goto(th, "Check", "Load")
    /\ execution_results' = [execution_results EXCEPT ![th] =
           [i \in Indexes(th) |-> IF i \in Granted(th) THEN "Loading" ELSE "NotExecuted"]]
    /\ UNCHANGED <<batchVars, bankVars, commitVars, packetVars, mevVars, view, commit_result>>

\* check_transactions: a transaction without its locks, or one that is in
\* the status cache, is not executed.
check_transactions(th) ==
    /\ Goto(th, "Check", "Load")
    /\ execution_results' = [execution_results EXCEPT ![th] =
           [i \in Indexes(th) |->
               IF i \in Granted(th) /\ batch[th][i] \notin status_cache
               THEN "Loading" ELSE "NotExecuted"]]
    /\ UNCHANGED <<batchVars, bankVars, commitVars, packetVars, mevVars, view, commit_result>>

\* load_accounts and the execution loop.  The MEV scan runs after every
\* executed transaction with MEV keys, a failed one included, and keeps at
\* most one transaction.
load_and_execute_transactions(th) ==
    /\ Goto(th, "Load", "FreezeLock")
    /\ \E results \in [Indexes(th) -> ExecutionResults] :
           /\ \A i \in Indexes(th) :
                  IF execution_results[th][i] = "Loading"
                  THEN results[i] \in Outcomes[batch[th][i]]
                  ELSE results[i] = "NotExecuted"
           /\ execution_results' = [execution_results EXCEPT ![th] = results]
           /\ view' = [view EXCEPT ![th] =
                  [a \in UNION {MessageKeys(batch[th][i]) : i \in {j \in Indexes(th) :
                             results[j] # "NotExecuted"}} |-> store[a]]]
           /\ \E found \in {{}} \cup {{m} : m \in MevTxs} :
                  /\ found # {} =>
                         \E i \in Indexes(th) :
                             results[i] # "NotExecuted" /\ has_mev_keys(batch[th][i])
                  /\ mev_tx' = [mev_tx EXCEPT ![th] = found]
    /\ UNCHANGED <<batchVars, bankVars, commitVars, packetVars, commit_result, batch_type>>

\* Mutant: the guard of the freeze lock is dropped at once.
FreezeLockNotKept(th) ==
    /\ Goto(th, "FreezeLock", "Record")
    /\ ~freeze_writer
    /\ UNCHANGED <<batchVars, bankVars, commitVars, packetVars, resultVars, mevVars>>

freeze_lock(th) ==
    /\ Goto(th, "FreezeLock", "Record")
    /\ ~freeze_writer
    /\ freeze_readers' = freeze_readers \cup {th}
    /\ UNCHANGED <<batchVars, bankVars, packetVars, resultVars, mevVars,
                   ledger, status_cache, store>>

\* Mutant: a failed MEV transaction is recorded like any other.
ProcessedAlike(th) == Executed(th)

\* The transactions record_transactions hands to PoH.
Processed(th) ==
    {i \in Executed(th) : batch_type[th] = "Mev" => execution_results[th][i] = "Ok"}

Entry(th) ==
    {[tx |-> batch[th][i], result |-> execution_results[th][i],
      view |-> [a \in MessageKeys(batch[th][i]) |-> view[th][a]]] : i \in Processed(th)}

\* Nothing to record is a success, and nothing is committed.
record_nothing(th) ==
    /\ Processed(th) = {}
    /\ Goto(th, "Record", "Drop")
    /\ commit_result' = [commit_result EXCEPT ![th] = "Ok"]
    /\ UNCHANGED <<batchVars, bankVars, commitVars, packetVars, mevVars, view, execution_results>>

\* The request waits in the channel to the PoH service, which answers it
\* under the lock of the recorder.
record_entry(th) ==
    /\ Processed(th) # {}
    /\ working_bank
    /\ Goto(th, "Record", "Store")
    /\ ledger' = Append(ledger, Entry(th))
    /\ commit_result' = [commit_result EXCEPT ![th] = "Ok"]
    /\ UNCHANGED <<batchVars, bankVars, packetVars, mevVars, view, execution_results,
                   freeze_readers, status_cache, store>>

record_max_height(th) ==
    /\ Processed(th) # {}
    /\ ~working_bank
    /\ Goto(th, "Record", "Drop")
    /\ commit_result' = [commit_result EXCEPT ![th] = "MaxHeightReached"]
    /\ UNCHANGED <<batchVars, bankVars, commitVars, packetVars, mevVars, view, execution_results>>

record_transactions(th) == record_nothing(th) \/ record_entry(th) \/ record_max_height(th)

-----------------------------------------------------------------------------
(* commit_transactions.                                                    *)

\* The transactions of the batch that write account a.
StoreWriters(th, a) ==
    {batch[th][i] : i \in {j \in Executed(th) :
        a \in StoredAccounts(batch[th][j], execution_results[th][j])}}

FeeWriters(th, a) ==
    {batch[th][i] : i \in {j \in Executed(th) :
        a \in FeeAccounts(batch[th][j], execution_results[th][j])}}

store_cached(th) ==
    /\ Goto(th, "Store", "Statuses")
    /\ store' = [a \in Accounts |->
           IF StoreWriters(th, a) = {} THEN store[a]
           ELSE Append(view[th][a], CHOOSE t \in StoreWriters(th, a) : TRUE)]
    /\ UNCHANGED <<batchVars, bankVars, packetVars, resultVars, mevVars,
                   freeze_readers, ledger, status_cache>>

update_transaction_statuses(th) ==
    /\ Goto(th, "Statuses", "Fees")
    /\ status_cache' = status_cache \cup {batch[th][i] : i \in Executed(th)}
    /\ UNCHANGED <<batchVars, bankVars, packetVars, resultVars, mevVars,
                   freeze_readers, ledger, store>>

\* withdraw reads the payer's account again.
filter_program_errors_and_collect_fee(th) ==
    /\ Goto(th, "Fees", "Drop")
    /\ store' = [a \in Accounts |->
           IF FeeWriters(th, a) = {} THEN store[a]
           ELSE Append(store[a], CHOOSE t \in FeeWriters(th, a) : TRUE)]
    /\ UNCHANGED <<batchVars, bankVars, packetVars, resultVars, mevVars,
                   freeze_readers, ledger, status_cache>>

\* Mutant: the freeze lock is kept.
FreezeLockLeaks(th) ==
    /\ Goto(th, "Drop", "Unlock")
    /\ UNCHANGED <<batchVars, bankVars, commitVars, packetVars, resultVars, mevVars>>

drop_freeze_lock(th) ==
    /\ Goto(th, "Drop", "Unlock")
    /\ freeze_readers' = freeze_readers \ {th}
    /\ UNCHANGED <<batchVars, bankVars, packetVars, resultVars, mevVars,
                   ledger, status_cache, store>>

-----------------------------------------------------------------------------
(* The end of a batch.                                                     *)

RetryableErrors == {"AccountInUse"} \cup (QosErrors \ {"WouldExceedAccountDataTotalLimit"})

\* Mutant: what could not be recorded is not retried.
LockErrorIndexes(th) == {i \in Indexes(th) : lock_results[th][i] \in RetryableErrors}

\* retryable_transaction_indexes: errors of the locks and of the cost model,
\* and what could not be recorded.
RetryableIndexes(th) ==
    {i \in Indexes(th) :
        \/ lock_results[th][i] \in RetryableErrors
        \/ commit_result[th] = "MaxHeightReached" /\ i \in Processed(th)}

\* drop(batch), and the summary of the batch in process_transactions.
unlock_accounts(th) ==
    /\ Goto(th, "Unlock",
            IF batch_type[th] = "Normal" /\ mev_tx[th] # {} THEN "MevBatch" ELSE "Filter")
    /\ UnlockBatch(th)
    /\ IF batch_type[th] = "Normal"
       THEN /\ retryable' = [retryable EXCEPT ![th] =
                   {batch[th][i] : i \in RetryableIndexes(th)}]
            /\ end_of_slot' = [end_of_slot EXCEPT
                   ![th] = commit_result[th] = "MaxHeightReached"]
       ELSE UNCHANGED <<retryable, end_of_slot>>
    /\ view' = [view EXCEPT ![th] = <<>>]
    /\ execution_results' = [execution_results EXCEPT ![th] = <<>>]
    /\ commit_result' = [commit_result EXCEPT ![th] = "None"]
    /\ UNCHANGED <<bankVars, commitVars, mevVars, buffer, pending>>

-----------------------------------------------------------------------------
(* PoH and replay.                                                         *)

\* The tick that completes the bank also clears it: both happen under the
\* lock of the recorder.
tick ==
    /\ working_bank
    /\ tick_height' = tick_height + 1
    /\ working_bank' = (tick_height + 1 < MaxTicks)
    /\ UNCHANGED <<freeze_writer, freeze_started, bank_hash,
                   batchVars, commitVars, packetVars, resultVars, mevVars, pc>>

\* Replay moves the recorder to another fork.
reset ==
    /\ working_bank
    /\ working_bank' = FALSE
    /\ UNCHANGED <<tick_height, freeze_writer, freeze_started, bank_hash,
                   batchVars, commitVars, packetVars, resultVars, mevVars, pc>>

is_complete == tick_height = MaxTicks

\* freeze waits for the write lock, and then hashes the accounts.
freeze_write_lock ==
    /\ is_complete
    /\ bank_hash = {}
    /\ ~freeze_writer
    /\ freeze_readers = {}
    /\ freeze_writer' = TRUE
    /\ UNCHANGED <<tick_height, working_bank, freeze_started, bank_hash,
                   batchVars, commitVars, packetVars, resultVars, mevVars, pc>>

\* Mutant: the write lock is never released.
FreezeKeepsLock ==
    /\ freeze_writer
    /\ bank_hash = {}
    /\ freeze_started' = TRUE
    /\ bank_hash' = {store}
    /\ UNCHANGED <<freeze_writer, tick_height, working_bank,
                   batchVars, commitVars, packetVars, resultVars, mevVars, pc>>

freeze ==
    /\ freeze_writer
    /\ freeze_writer' = FALSE
    /\ freeze_started' = TRUE
    /\ bank_hash' = {store}
    /\ UNCHANGED <<tick_height, working_bank,
                   batchVars, commitVars, packetVars, resultVars, mevVars, pc>>

ThreadStep(th) ==
    \/ bank_start(th) \/ process_normal_batch(th) \/ process_mev_batch(th)
    \/ filter_pending(th) \/ finish_consume(th)
    \/ check_transactions(th) \/ load_and_execute_transactions(th)
    \/ freeze_lock(th) \/ record_transactions(th)
    \/ store_cached(th) \/ update_transaction_statuses(th)
    \/ filter_program_errors_and_collect_fee(th)
    \/ drop_freeze_lock(th) \/ unlock_accounts(th)

BankingNext == (\E th \in Threads : ThreadStep(th)) \/ tick \/ reset \/ freeze_write_lock \/ freeze

BankingSpec == BankingInit /\ [][BankingNext]_vars

\* Threads are scheduled, PoH keeps ticking, replay freezes a complete bank.
FairBankingSpec ==
    /\ BankingSpec
    /\ \A th \in Threads : WF_vars(ThreadStep(th))
    /\ WF_vars(tick)
    /\ WF_vars(freeze_write_lock)
    /\ WF_vars(freeze)

-----------------------------------------------------------------------------
(* Properties.                                                             *)

PCs == {"Idle", "Scan", "MevBatch", "Filter", "Check", "Load", "FreezeLock", "Record",
        "Store", "Statuses", "Fees", "Drop", "Unlock"}

Committing(th) == pc[th] \in {"Store", "Statuses", "Fees"}

\* The types of the variables.
TypeOK ==
    /\ batch \in [Threads -> Batches \cup {<<>>}]
    /\ \A th \in Threads : lock_results[th] \in [DOMAIN batch[th] -> LockResults]
    /\ tick_height \in 0..MaxTicks
    /\ {working_bank, freeze_writer, freeze_started} \subseteq BOOLEAN
    /\ bank_hash \subseteq [Accounts -> Values]
    /\ freeze_readers \subseteq Threads
    /\ \A n \in DOMAIN ledger : \A e \in ledger[n] : e.tx \in Txs /\ e.result \in {"Ok", "Err"}
    /\ status_cache \subseteq Txs
    /\ store \in [Accounts -> Values]
    /\ pc \in [Threads -> PCs]
    /\ {buffer, pending, retryable} \subseteq [Threads -> SUBSET Txs]
    /\ batch_type \in [Threads -> {"Normal", "Mev"}]
    /\ \A th \in Threads :
           /\ \A a \in DOMAIN view[th] : view[th][a] \in Values
           /\ \A i \in DOMAIN execution_results[th] :
                  execution_results[th][i] \in ExecutionResults \cup {"Loading"}
    /\ commit_result \in [Threads -> {"None", "Ok", "MaxHeightReached"}]
    /\ mev_tx \in [Threads -> SUBSET MevTxs]
    /\ end_of_slot \in [Threads -> BOOLEAN]

\* The assertion of commit_transactions never fails: no thread commits to a
\* bank whose freeze has begun, although the decision to freeze (the last
\* tick) and the decision to commit (the record) are taken by two threads.
CommitBeforeFreeze ==
    \A th \in Threads : Committing(th) => ~freeze_writer /\ ~freeze_started

InLedger(t) == \E n \in DOMAIN ledger : \E e \in ledger[n] : e.tx = t

\* A transaction that may be dropped: it cannot be sanitized, locked or
\* loaded, it expires, or it would exceed the total account data limit.
Droppable(t) ==
    \/ t \notin Sanitizable \/ SanitizeResult[t] # "Ok" \/ t \in Expiring
    \/ "NotExecuted" \in Outcomes[t]
    \/ "WouldExceedAccountDataTotalLimit" \in QosResults

\* No packet is lost: the thread that received it keeps it, through lock
\* conflicts, cost limits and the end of the slot, until it is recorded.  The
\* buffers, batches and results keep their types with it.
NothingLost ==
    /\ TypeOK
    /\ \A th \in Threads : \A t \in Incoming[th] :
           \/ Droppable(t) \/ InLedger(t)
           \/ t \in buffer[th] \cup pending[th] \cup retryable[th]
           \/ \E i \in DOMAIN batch[th] : batch[th][i] = t

\* A MEV transaction of the block is alone in its entry, was successful, and
\* a transaction that called a watched program is in an earlier entry:
\* record_transactions drops the failed ones, process_transactions submits
\* it after the batch of its trigger.
MevFollowsTrigger ==
    \A n \in DOMAIN ledger : \A e \in ledger[n] :
        e.tx \in MevTxs =>
            /\ ledger[n] = {e}
            /\ e.result = "Ok"
            /\ \E m \in 1..(n - 1) : \E f \in ledger[m] : has_mev_keys(f.tx)

\* Recorded writes of thread th to account a that the store does not have yet.
UnstoredWriters(th, a) ==
    CASE pc[th] = "Store" -> StoreWriters(th, a) \cup FeeWriters(th, a)
      [] pc[th] \in {"Statuses", "Fees"} -> FeeWriters(th, a)
      [] OTHER -> {}

LedgerState ==
    [a \in Accounts |->
        LET unstored == UNION {UnstoredWriters(th, a) : th \in Threads}
        IN  IF unstored = {} THEN store[a] ELSE Append(store[a], CHOOSE t \in unstored : TRUE)]

L == INSTANCE Ledger WITH accounts <- LedgerState

\* Executing entry after entry, as replay does, gives every transaction the
\* accounts it saw here, and the frozen bank the same hash, although the
\* threads load, execute, record and store concurrently.
BlockIsSequential == L!Spec

\* Once the bank has its last tick it is frozen: no thread keeps the freeze
\* lock, or keeps taking it, for ever.
CompleteIsFrozen == is_complete ~> bank_hash # {}

\* The threads leave the slot: none hangs, and none retries for ever.
SlotEnds == <>[](\A th \in Threads : pc[th] = "Idle")

=============================================================================
