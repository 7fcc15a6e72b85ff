------------------------- MODULE BankingStageProofs -------------------------
(***************************************************************************)
(* The argument of the comment in Bank::freeze, for every number of        *)
(* threads, transactions and ticks: a recorded transaction was recorded    *)
(* under the freeze lock before the last tick, the lock is kept until the  *)
(* commit is over, and freeze, called after the last tick, waits for it.   *)
(* Then, that a MEV transaction of the block follows its trigger, and      *)
(* that the state of the slot keeps its types.                             *)
(***************************************************************************)
EXTENDS BankingStage, TLAPS

\* The steps a thread takes with the read guard of freeze_lock in its hands.
Guarded == {"Record", "Store", "Statuses", "Fees", "Drop"}

Clock ==
    /\ tick_height \in Nat
    /\ working_bank \in BOOLEAN
    /\ freeze_writer \in BOOLEAN
    /\ freeze_started \in BOOLEAN
    /\ working_bank => tick_height < MaxTicks

\* The inductive invariant behind CommitBeforeFreeze: a guarded thread is
\* among the readers, the writer excludes readers, and the freeze is begun
\* only on a complete bank, which the recorder no longer has.
FreezeInv ==
    /\ Clock
    /\ pc \in [Threads -> PCs]
    /\ \A th \in Threads : pc[th] \in Guarded => th \in freeze_readers
    /\ freeze_writer => freeze_readers = {}
    /\ freeze_writer \/ freeze_started => is_complete
    /\ freeze_started => \A th \in Threads : ~Committing(th)

LEMMA FreezeInit == BankingInit => FreezeInv
<1> SUFFICES ASSUME BankingInit PROVE FreezeInv
  OBVIOUS
<1>1. Clock
  <2>1. 0 \in Nat /\ 0 < MaxTicks
    BY IncomingAssumption
  <2>2. tick_height = 0 /\ working_bank = TRUE /\ freeze_writer = FALSE /\ freeze_started = FALSE
    BY DEF BankingInit
  <2> QED  BY <2>1, <2>2, Zenon DEF Clock
<1>2. pc \in [Threads -> PCs] /\ \A th \in Threads : pc[th] = "Idle"
  BY DEF BankingInit, PCs
<1>3. ~freeze_writer /\ ~freeze_started
  BY DEF BankingInit
<1> QED  BY <1>1, <1>2, <1>3 DEF FreezeInv, Guarded

\* A step of a thread that moves it outside the guarded region, or within it
\* without entering the commit, and leaves the bank alone.
LEMMA ThreadMove ==
  ASSUME NEW th \in Threads, NEW from \in PCs, NEW to \in PCs,
         FreezeInv, UNCHANGED <<bankVars, freeze_readers>>, Goto(th, from, to),
         to \in Guarded => from \in Guarded,
         to \in {"Store", "Statuses", "Fees"} =>
             from \in {"Store", "Statuses", "Fees"} \/ ~freeze_started
  PROVE  FreezeInv'
  BY DEF FreezeInv, Clock, bankVars, Goto, PCs, Guarded, Committing, is_complete

LEMMA PacketSteps ==
  ASSUME NEW th \in Threads, FreezeInv,
         bank_start(th) \/ process_normal_batch(th) \/ process_mev_batch(th)
             \/ filter_pending(th) \/ finish_consume(th)
  PROVE  FreezeInv'
<1>1. CASE bank_start(th)
  BY <1>1, ThreadMove DEF bank_start, commitVars, PCs, Guarded
<1>2. CASE process_normal_batch(th)
  BY <1>2, ThreadMove DEF process_normal_batch, commitVars, PCs, Guarded
<1>3. CASE process_mev_batch(th)
  BY <1>3, ThreadMove DEF process_mev_batch, commitVars, PCs, Guarded
<1>4. CASE filter_pending(th)
  BY <1>4, ThreadMove DEF filter_pending, commitVars, PCs, Guarded
<1>5. CASE finish_consume(th)
  BY <1>5, ThreadMove DEF finish_consume, commitVars, PCs, Guarded
<1> QED  BY <1>1, <1>2, <1>3, <1>4, <1>5

LEMMA ExecuteSteps ==
  ASSUME NEW th \in Threads, FreezeInv,
         check_transactions(th) \/ load_and_execute_transactions(th)
             \/ record_transactions(th) \/ unlock_accounts(th)
  PROVE  FreezeInv'
<1>1. CASE check_transactions(th)
  BY <1>1, ThreadMove, ZenonT(60) DEF check_transactions, commitVars, PCs, Guarded
<1>2. CASE load_and_execute_transactions(th)
  BY <1>2, ThreadMove DEF load_and_execute_transactions, commitVars, PCs, Guarded
<1>3. CASE record_nothing(th)
  BY <1>3, ThreadMove DEF record_nothing, commitVars, PCs, Guarded
<1>4. CASE record_max_height(th)
  BY <1>4, ThreadMove DEF record_max_height, commitVars, PCs, Guarded
<1>5. CASE record_entry(th)
  \* The recorder still has the bank: the last tick is to come.
  <2>1. ~freeze_started
    BY <1>5, IncomingAssumption DEF record_entry, FreezeInv, Clock, is_complete
  <2> QED  BY <1>5, <2>1, ThreadMove DEF record_entry, PCs, Guarded
<1>6. CASE unlock_accounts(th)
  <2>1. PICK to \in {"MevBatch", "Filter"} : Goto(th, "Unlock", to)
    BY <1>6 DEF unlock_accounts
  <2> QED  BY <1>6, <2>1, ThreadMove, Zenon DEF unlock_accounts, commitVars, PCs, Guarded
<1> QED  BY <1>1, <1>2, <1>3, <1>4, <1>5, <1>6 DEF record_transactions

LEMMA CommitSteps ==
  ASSUME NEW th \in Threads, FreezeInv,
         store_cached(th) \/ update_transaction_statuses(th)
             \/ filter_program_errors_and_collect_fee(th)
  PROVE  FreezeInv'
<1>1. CASE store_cached(th)
  BY <1>1, ThreadMove DEF store_cached, PCs, Guarded
<1>2. CASE update_transaction_statuses(th)
  BY <1>2, ThreadMove DEF update_transaction_statuses, PCs, Guarded
<1>3. CASE filter_program_errors_and_collect_fee(th)
  BY <1>3, ThreadMove DEF filter_program_errors_and_collect_fee, PCs, Guarded
<1> QED  BY <1>1, <1>2, <1>3

LEMMA FreezeLockSteps ==
  ASSUME NEW th \in Threads, FreezeInv, freeze_lock(th) \/ drop_freeze_lock(th)
  PROVE  FreezeInv'
<1>1. CASE freeze_lock(th)
  BY <1>1 DEF freeze_lock, FreezeInv, Clock, bankVars, Goto, PCs, Guarded, Committing, is_complete
<1>2. CASE drop_freeze_lock(th)
  BY <1>2 DEF drop_freeze_lock, FreezeInv, Clock, bankVars, Goto, PCs, Guarded, Committing, is_complete
<1> QED  BY <1>1, <1>2

LEMMA BankSteps ==
  ASSUME FreezeInv, tick \/ reset \/ freeze_write_lock \/ freeze
  PROVE  FreezeInv'
<1> USE DEF FreezeInv, Clock, commitVars, Committing, is_complete
<1>1. CASE tick
  BY <1>1, IncomingAssumption DEF tick
<1>2. CASE reset
  BY <1>2, Zenon DEF reset
<1>3. CASE freeze_write_lock
  BY <1>3 DEF freeze_write_lock
<1>4. CASE freeze
  BY <1>4, Zenon DEF freeze, Guarded
<1> QED  BY <1>1, <1>2, <1>3, <1>4

LEMMA FreezeStep == FreezeInv /\ [BankingNext]_vars => FreezeInv'
<1> SUFFICES ASSUME FreezeInv, [BankingNext]_vars PROVE FreezeInv'
  OBVIOUS
<1>1. ASSUME NEW th \in Threads, ThreadStep(th) PROVE FreezeInv'
  BY <1>1, PacketSteps, ExecuteSteps, CommitSteps, FreezeLockSteps DEF ThreadStep
<1>2. CASE UNCHANGED vars
  BY <1>2 DEF vars, bankVars, commitVars, FreezeInv, Clock, Committing, is_complete
<1> QED  BY <1>1, <1>2, BankSteps DEF BankingNext

LEMMA FreezeSafe == FreezeInv => CommitBeforeFreeze
  BY DEF FreezeInv, CommitBeforeFreeze, Committing, Guarded

\* commit_transactions never finds the bank frozen or freezing (the assertion
\* in Bank::commit_transactions), for any threads, transactions and ticks:
\* recording under the freeze lock and clearing the recorder's bank with the
\* last tick is enough.
THEOREM CommitsBeforeFreeze == BankingSpec => []CommitBeforeFreeze
  BY FreezeInit, FreezeStep, FreezeSafe, PTL DEF BankingSpec

-----------------------------------------------------------------------------
(* MEV transactions follow their trigger.                                  *)

\* A transaction with MEV keys is in the block, or the recorder has left the
\* bank and the block gets no more entries: from then on a MEV transaction
\* may be submitted.
Triggered ==
    \/ ~working_bank
    \/ \E m \in 1..Len(ledger) : \E f \in ledger[m] : has_mev_keys(f.tx)

OnThreads(f) == f = [x \in Threads |-> f[x]]

MevShape ==
    /\ pc \in [Threads -> PCs]
    /\ working_bank \in BOOLEAN
    /\ batch_type \in [Threads -> {"Normal", "Mev"}]
    /\ mev_tx \in [Threads -> SUBSET MevTxs]
    /\ buffer \in [Threads -> SUBSET (Txs \ MevTxs)]
    /\ pending \in [Threads -> SUBSET (Txs \ MevTxs)]
    /\ retryable \in [Threads -> SUBSET (Txs \ MevTxs)]
    /\ OnThreads(batch) /\ OnThreads(execution_results)
    /\ ledger \in Seq({ledger[n] : n \in DOMAIN ledger})

BeforeRecord == {"Check", "Load", "FreezeLock", "Record"}
AfterRecord == {"Store", "Statuses", "Fees", "Drop", "Unlock"}

\* A normal batch holds no MEV transaction.  If its scan found one, it
\* executed a trigger, which is in the block once the record is answered.  A
\* MEV batch is that one transaction.
MevThread(th) ==
    /\ pc[th] \in BeforeRecord \cup AfterRecord =>
           IF batch_type[th] = "Mev"
           THEN Triggered /\ DOMAIN batch[th] = {1} /\ batch[th][1] \in MevTxs
           ELSE \A i \in DOMAIN batch[th] : batch[th][i] \in Txs \ MevTxs
    /\ pc[th] \in {"Load", "FreezeLock", "Record"} =>
           DOMAIN execution_results[th] = DOMAIN batch[th]
    /\ pc[th] \in {"FreezeLock", "Record"} /\ batch_type[th] = "Normal" /\ mev_tx[th] # {} =>
           \E i \in Executed(th) : has_mev_keys(batch[th][i])
    /\ pc[th] \in AfterRecord /\ batch_type[th] = "Normal" /\ mev_tx[th] # {} => Triggered
    /\ pc[th] = "MevBatch" => Triggered

MevInv == MevShape /\ MevFollowsTrigger /\ \A th \in Threads : MevThread(th)

LEMMA MevInit == BankingInit => MevInv
<1> SUFFICES ASSUME BankingInit PROVE MevInv
  OBVIOUS
<1>1. MevShape
  BY IncomingAssumption, CraftedAssumption DEF BankingInit, Init, MevShape, PCs, OnThreads
<1>2. MevFollowsTrigger
  BY DEF BankingInit, MevFollowsTrigger
<1>3. \A th \in Threads : MevThread(th)
  BY DEF BankingInit, MevThread, BeforeRecord, AfterRecord
<1> QED  BY <1>1, <1>2, <1>3 DEF MevInv

\* A step of thread th that keeps the block's triggers leaves what the
\* invariant says of the other threads.
LEMMA MevFrame ==
  ASSUME NEW th \in Threads, MevInv, MevShape', MevFollowsTrigger', MevThread(th)',
         Triggered => Triggered',
         \A x \in Threads \ {th} :
             /\ pc'[x] = pc[x] /\ batch_type'[x] = batch_type[x] /\ mev_tx'[x] = mev_tx[x]
             /\ batch'[x] = batch[x] /\ execution_results'[x] = execution_results[x]
  PROVE  MevInv'
<1>1. ASSUME NEW x \in Threads \ {th} PROVE MevThread(x)'
  <2>1. MevThread(x)
    BY <1>1 DEF MevInv
  <2>2. Executed(x)' = Executed(x)
    BY <1>1 DEF Executed
  <2> QED  BY <1>1, <2>1, <2>2 DEF MevThread
<1> QED  BY <1>1 DEF MevInv

\* The same for a step that records nothing.
LEMMA MevQuiet ==
  ASSUME NEW th \in Threads, MevInv, MevShape', UNCHANGED <<ledger, working_bank>>,
         MevThread(th)',
         \A x \in Threads \ {th} :
             /\ pc'[x] = pc[x] /\ batch_type'[x] = batch_type[x] /\ mev_tx'[x] = mev_tx[x]
             /\ batch'[x] = batch[x] /\ execution_results'[x] = execution_results[x]
  PROVE  MevInv'
<1>1. Triggered => Triggered'
  BY DEF Triggered
<1>2. MevFollowsTrigger'
  BY ZenonT(60) DEF MevInv, MevFollowsTrigger
<1> QED  BY <1>1, <1>2, MevFrame

LEMMA MevPacketSteps ==
  ASSUME NEW th \in Threads, MevInv,
         bank_start(th) \/ filter_pending(th) \/ finish_consume(th)
  PROVE  MevInv'
<1> USE DEF MevInv, MevShape, MevThread, Goto, PCs, OnThreads, BeforeRecord, AfterRecord,
            batchVars, bankVars, commitVars, resultVars, mevVars
<1>1. CASE bank_start(th)
  <2>1. MevShape'
    BY <1>1, SMTT(60) DEF bank_start
  <2>2. MevThread(th)'
    BY <1>1, Zenon DEF bank_start
  <2> QED  BY <1>1, <2>1, <2>2, MevQuiet, Zenon DEF bank_start
<1>2. CASE filter_pending(th)
  <2>1. MevShape'
    BY <1>2, SMTT(60) DEF filter_pending
  <2>2. MevThread(th)'
    BY <1>2, Zenon DEF filter_pending
  <2> QED  BY <1>2, <2>1, <2>2, MevQuiet, Zenon DEF filter_pending
<1>3. CASE finish_consume(th)
  <2>1. MevShape'
    BY <1>3, SMTT(60) DEF finish_consume
  <2>2. MevThread(th)'
    BY <1>3 DEF finish_consume
  <2> QED  BY <1>3, <2>1, <2>2, MevQuiet, ZenonT(60) DEF finish_consume
<1> QED  BY <1>1, <1>2, <1>3, Zenon

\* The parts of the shape that the steps of a batch can change.
LEMMA MevShapeKept ==
  ASSUME MevShape, pc' \in [Threads -> PCs], batch_type' \in [Threads -> {"Normal", "Mev"}],
         mev_tx' \in [Threads -> SUBSET MevTxs], pending' \in [Threads -> SUBSET (Txs \ MevTxs)],
         OnThreads(batch)', OnThreads(execution_results)',
         UNCHANGED <<working_bank, buffer, retryable, ledger>>
  PROVE  MevShape'
<1>1. ledger' \in Seq({ledger'[n] : n \in DOMAIN ledger'})
  BY DEF MevShape
<1>2. /\ working_bank' \in BOOLEAN /\ buffer' \in [Threads -> SUBSET (Txs \ MevTxs)]
      /\ retryable' \in [Threads -> SUBSET (Txs \ MevTxs)]
  BY ZenonT(60) DEF MevShape
<1> QED  BY <1>1, <1>2, Zenon DEF MevShape

LEMMA MevLockSteps ==
  ASSUME NEW th \in Threads, MevInv, process_normal_batch(th) \/ process_mev_batch(th)
  PROVE  MevInv'
<1> USE DEF MevInv, MevShape, MevThread, Goto, PCs, OnThreads, BeforeRecord, AfterRecord,
            bankVars, commitVars, packetVars, resultVars
<1>1. CASE process_normal_batch(th)
  <2>1. PICK txs \in ScannedBatches(th), dropped \in SUBSET (pending[th] \ Sanitizable) :
            /\ LockBatch(th, txs)
            /\ pending' = [pending EXCEPT ![th] = @ \ (dropped \cup {txs[i] : i \in 1..Len(txs)})]
    BY <1>1, Zenon DEF process_normal_batch
  <2>2. batch' = [batch EXCEPT ![th] = txs]
    BY <2>1 DEF LockBatch
  <2>3. \A i \in DOMAIN txs : txs[i] \in Txs \ MevTxs
    <3>1. PICK n \in 1..MaxBatch : txs \in [1..n -> Txs]
      BY DEF ScannedBatches, Batches
    <3>2. DOMAIN txs = 1..Len(txs)
      BY <3>1, BatchAssumption
    <3> QED  BY <3>1, <3>2 DEF ScannedBatches
  <2>4. MevShape'
    <3>1. pending' \in [Threads -> SUBSET (Txs \ MevTxs)]
      BY <2>1
    <3>2. OnThreads(batch)'
      BY <2>2, Zenon
    <3>3. pc' \in [Threads -> PCs] /\ batch_type' \in [Threads -> {"Normal", "Mev"}]
      BY <1>1, Zenon DEF process_normal_batch
    <3>4. UNCHANGED <<working_bank, mev_tx, buffer, retryable, execution_results, ledger>>
      BY <1>1 DEF process_normal_batch
    <3>5. mev_tx' \in [Threads -> SUBSET MevTxs] /\ OnThreads(execution_results)'
      BY <3>4, Zenon
    <3> HIDE DEF MevShape, OnThreads, PCs
    <3> QED  BY <3>1, <3>2, <3>3, <3>4, <3>5, MevShapeKept
  <2>5. MevThread(th)'
    <3>1. pc'[th] = "Check" /\ batch_type'[th] = "Normal" /\ batch'[th] = txs
      BY <1>1, <2>2, ZenonT(60) DEF process_normal_batch
    <3> HIDE DEF MevInv, MevShape
    <3> QED  BY <2>3, <3>1, Zenon
  <2> QED  BY <1>1, <2>2, <2>4, <2>5, MevQuiet, ZenonT(60) DEF process_normal_batch
<1>2. CASE process_mev_batch(th)
  <2>1. PICK t \in mev_tx[th] : batch' = [batch EXCEPT ![th] = <<t>>]
    BY <1>2, Zenon DEF process_mev_batch, LockBatch
  <2>2. MevShape'
    <3>1. OnThreads(batch)'
      BY <2>1, Zenon
    <3>2. /\ pc' \in [Threads -> PCs] /\ batch_type' \in [Threads -> {"Normal", "Mev"}]
          /\ mev_tx' \in [Threads -> SUBSET MevTxs]
      BY <1>2 DEF process_mev_batch
    <3>3. UNCHANGED <<working_bank, buffer, pending, retryable, execution_results, ledger>>
      BY <1>2 DEF process_mev_batch
    <3>4. pending' \in [Threads -> SUBSET (Txs \ MevTxs)] /\ OnThreads(execution_results)'
      BY <3>3, Zenon
    <3> HIDE DEF MevShape, OnThreads, PCs
    <3> QED  BY <3>1, <3>2, <3>3, <3>4, MevShapeKept
  <2>3. Triggered'
    BY <1>2 DEF process_mev_batch, Triggered
  <2>4. MevThread(th)'
    <3>1. /\ pc'[th] = "Check" /\ batch_type'[th] = "Mev" /\ batch'[th] = <<t>>
          /\ t \in MevTxs
      BY <1>2, <2>1, Zenon DEF process_mev_batch
    <3> HIDE DEF MevInv, MevShape
    <3> QED  BY <2>3, <3>1, SMTT(60)
  <2> QED  BY <1>2, <2>1, <2>2, <2>4, MevQuiet, ZenonT(60) DEF process_mev_batch
<1> QED  BY <1>1, <1>2, Zenon

LEMMA MevExecuteSteps ==
  ASSUME NEW th \in Threads, MevInv,
         check_transactions(th) \/ load_and_execute_transactions(th) \/ freeze_lock(th)
  PROVE  MevInv'
<1> USE DEF MevInv, MevShape, Goto, PCs, OnThreads, BeforeRecord, AfterRecord,
            batchVars, bankVars, commitVars, packetVars, resultVars, mevVars
<1>0. MevThread(th)
  BY Zenon
<1>1. CASE check_transactions(th)
  <2>1. MevShape'
    BY <1>1, ZenonT(60) DEF check_transactions
  <2>2. Triggered' <=> Triggered
    BY <1>1 DEF check_transactions, Triggered
  <2>3. MevThread(th)'
    BY <1>0, <1>1, <2>2, ZenonT(60) DEF check_transactions, MevThread, Indexes
  <2> QED  BY <1>1, <2>1, <2>3, MevQuiet, Zenon DEF check_transactions
<1>2. CASE load_and_execute_transactions(th)
  <2>1. PICK results \in [Indexes(th) -> ExecutionResults], found \in {{}} \cup {{m} : m \in MevTxs} :
            /\ execution_results' = [execution_results EXCEPT ![th] = results]
            /\ found # {} => \E i \in Indexes(th) :
                                 results[i] # "NotExecuted" /\ has_mev_keys(batch[th][i])
            /\ mev_tx' = [mev_tx EXCEPT ![th] = found]
    BY <1>2, ZenonT(60) DEF load_and_execute_transactions
  <2>2. MevShape'
    <3>1. mev_tx' \in [Threads -> SUBSET MevTxs]
      BY <2>1
    <3>2. OnThreads(execution_results)'
      BY <2>1, Zenon
    <3>3. pc' \in [Threads -> PCs]
      BY <1>2 DEF load_and_execute_transactions
    <3>4. UNCHANGED <<working_bank, batch_type, buffer, pending, retryable, batch, ledger>>
      BY <1>2 DEF load_and_execute_transactions
    <3>5. /\ pending' \in [Threads -> SUBSET (Txs \ MevTxs)] /\ OnThreads(batch)'
          /\ batch_type' \in [Threads -> {"Normal", "Mev"}]
      BY <3>4, ZenonT(60)
    <3> HIDE DEF MevShape, OnThreads, PCs
    <3> QED  BY <3>1, <3>2, <3>3, <3>4, <3>5, MevShapeKept
  <2>3. Triggered' <=> Triggered
    BY <1>2 DEF load_and_execute_transactions, Triggered
  <2>4. Executed(th)' = {i \in Indexes(th) : results[i] # "NotExecuted"}
    BY <2>1 DEF Executed
  <2>5. MevThread(th)'
    BY <1>0, <1>2, <2>1, <2>3, <2>4, ZenonT(60) DEF load_and_execute_transactions, MevThread, Indexes
  <2> QED  BY <1>2, <2>1, <2>2, <2>5, MevQuiet, ZenonT(60) DEF load_and_execute_transactions
<1>3. CASE freeze_lock(th)
  <2>1. MevShape'
    BY <1>3 DEF freeze_lock
  <2>2. (Triggered' <=> Triggered) /\ Executed(th)' = Executed(th)
    BY <1>3 DEF freeze_lock, Triggered, Executed
  <2>3. MevThread(th)'
    BY <1>0, <1>3, <2>2, ZenonT(60) DEF freeze_lock, MevThread
  <2> QED  BY <1>3, <2>1, <2>3, MevQuiet, Zenon DEF freeze_lock
<1> QED  BY <1>1, <1>2, <1>3

\* Recording nothing, or too late, leaves the block as it is; a batch with
\* nothing to record has executed no trigger.
LEMMA MevNoRecord ==
  ASSUME NEW th \in Threads, MevInv, record_nothing(th) \/ record_max_height(th)
  PROVE  MevInv'
<1> USE DEF MevInv, MevShape, Goto, PCs, OnThreads, BeforeRecord, AfterRecord,
            batchVars, bankVars, commitVars, packetVars, mevVars
<1>0. MevThread(th)
  OBVIOUS
<1>1. CASE record_nothing(th)
  <2>1. MevShape'
    BY <1>1 DEF record_nothing
  <2>2. Triggered' <=> Triggered
    BY <1>1 DEF record_nothing, Triggered
  <2>3. batch_type[th] = "Normal" => Executed(th) = {}
    BY <1>1, Zenon DEF record_nothing, Processed
  <2>4. MevThread(th)'
    BY <1>0, <1>1, <2>2, <2>3, Zenon DEF record_nothing, MevThread
  <2> QED  BY <1>1, <2>1, <2>4, MevQuiet, Zenon DEF record_nothing
<1>2. CASE record_max_height(th)
  <2>1. MevShape'
    BY <1>2 DEF record_max_height
  <2>2. Triggered' /\ Triggered
    BY <1>2, Zenon DEF record_max_height, Triggered
  <2>3. MevThread(th)'
    BY <1>0, <1>2, <2>2, Zenon DEF record_max_height, MevThread
  <2> QED  BY <1>2, <2>1, <2>3, MevQuiet, Zenon DEF record_max_height
<1> QED  BY <1>1, <1>2

LEMMA MevEntry ==
  ASSUME NEW th \in Threads, MevInv, pc[th] = "Record", NEW e \in Entry(th)
  PROVE  /\ e.tx \in MevTxs => Triggered /\ Entry(th) = {e} /\ e.result = "Ok"
         /\ batch_type[th] = "Normal" => e.tx \notin MevTxs
<1>1. MevThread(th) /\ batch_type[th] \in {"Normal", "Mev"}
  BY DEF MevInv, MevShape
<1>2. PICK i \in Processed(th) : e.tx = batch[th][i] /\ e.result = execution_results[th][i]
  BY SMTT(60) DEF Entry
<1>3. Processed(th) \subseteq DOMAIN batch[th]
  BY <1>1 DEF Processed, Executed, MevThread
<1>4. CASE batch_type[th] = "Mev"
  <2>1. Triggered /\ Processed(th) \subseteq {1}
    BY <1>1, <1>3, <1>4, Zenon DEF MevThread, BeforeRecord
  <2>2. Entry(th) = {e}
    BY <2>1 DEF Entry
  <2>3. e.result = "Ok"
    BY <1>2, <1>4, Zenon DEF Processed
  <2> QED  BY <1>4, <2>1, <2>2, <2>3, Zenon
<1>5. CASE batch_type[th] = "Normal"
  BY <1>1, <1>2, <1>3, <1>5, Zenon DEF MevThread, BeforeRecord
<1> QED  BY <1>1, <1>4, <1>5

LEMMA AppendEntry ==
  ASSUME NEW s, s \in Seq({s[n] : n \in DOMAIN s}), NEW e
  PROVE  LET r == Append(s, e) IN
         /\ Len(s) \in Nat /\ DOMAIN s = 1..Len(s)
         /\ r \in Seq({r[n] : n \in DOMAIN r})
         /\ DOMAIN r = 1..(Len(s) + 1) /\ Len(r) = Len(s) + 1
         /\ \A n \in 1..Len(s) : r[n] = s[n]
         /\ r[Len(s) + 1] = e
<1> DEFINE r == Append(s, e)
<1>1. s \in Seq({s[n] : n \in DOMAIN s} \cup {e})
  OBVIOUS
<1>2. /\ Len(s) \in Nat /\ DOMAIN s = 1..Len(s)
      /\ DOMAIN r = 1..(Len(s) + 1) /\ Len(r) = Len(s) + 1
      /\ \A n \in 1..Len(s) : r[n] = s[n]
      /\ r[Len(s) + 1] = e
      /\ r \in Seq({s[n] : n \in DOMAIN s} \cup {e})
  BY <1>1
<1> HIDE DEF r
<1>3. r \in [1..Len(r) -> {r[n] : n \in DOMAIN r}]
  <2>1. r \in [1..Len(r) -> {s[n] : n \in DOMAIN s} \cup {e}]
    BY <1>2
  <2> QED  BY <2>1
<1>4. r \in Seq({r[n] : n \in DOMAIN r})
  <2>1. Len(r) \in Nat
    BY <1>2
  <2>2. ASSUME NEW X, r \in [1..Len(r) -> X] PROVE r \in Seq(X)
    BY <2>1, <2>2, SMTT(60)
  <2> QED  BY <1>3, <2>2
<1> QED  BY <1>2, <1>4, Zenon DEF r

LEMMA MevRecord ==
  ASSUME NEW th \in Threads, MevInv, record_entry(th)
  PROVE  MevInv'
<1>0. MevThread(th) /\ MevShape /\ MevFollowsTrigger /\ pc[th] = "Record"
  BY DEF MevInv, record_entry, Goto
<1>1. /\ working_bank /\ working_bank' = working_bank
      /\ ledger' = Append(ledger, Entry(th)) /\ pc' = [pc EXCEPT ![th] = "Store"]
      /\ UNCHANGED <<batch, execution_results, packetVars, mevVars>>
  BY DEF record_entry, Goto, batchVars, bankVars
<1>2. /\ Len(ledger) \in Nat /\ DOMAIN ledger = 1..Len(ledger)
      /\ ledger' \in Seq({ledger'[n] : n \in DOMAIN ledger'})
      /\ DOMAIN ledger' = 1..(Len(ledger) + 1) /\ Len(ledger') = Len(ledger) + 1
      /\ \A n \in 1..Len(ledger) : ledger'[n] = ledger[n]
      /\ ledger'[Len(ledger) + 1] = Entry(th)
  <2>1. ledger \in Seq({ledger[n] : n \in DOMAIN ledger})
    BY <1>0 DEF MevShape
  <2>2. LET r == Append(ledger, Entry(th)) IN
        /\ Len(ledger) \in Nat /\ DOMAIN ledger = 1..Len(ledger)
        /\ r \in Seq({r[n] : n \in DOMAIN r})
        /\ DOMAIN r = 1..(Len(ledger) + 1) /\ Len(r) = Len(ledger) + 1
        /\ \A n \in 1..Len(ledger) : r[n] = ledger[n]
        /\ r[Len(ledger) + 1] = Entry(th)
    BY <2>1, AppendEntry, Zenon
  <2> QED  BY <1>1, <2>2, Zenon
<1>3. MevShape'
  BY <1>0, <1>1, <1>2 DEF MevShape, OnThreads, PCs, packetVars, mevVars
<1>4. Triggered => Triggered'
  BY <1>1, <1>2, SMTT(60) DEF Triggered
<1>5. MevFollowsTrigger'
  <2> SUFFICES ASSUME NEW n \in DOMAIN ledger', NEW e \in ledger'[n], e.tx \in MevTxs
               PROVE  /\ ledger'[n] = {e} /\ e.result = "Ok"
                      /\ \E m \in 1..(n - 1) : \E f \in ledger'[m] : has_mev_keys(f.tx)
    BY DEF MevFollowsTrigger
  <2>1. CASE n \in 1..Len(ledger)
    <3>1. /\ ledger[n] = {e} /\ e.result = "Ok"
          /\ \E m \in 1..(n - 1) : \E f \in ledger[m] : has_mev_keys(f.tx)
      BY <1>0, <1>2, <2>1, Zenon DEF MevFollowsTrigger
    <3> QED  BY <1>2, <2>1, <3>1, SMTT(60)
  <2>2. CASE n = Len(ledger) + 1
    <3>1. e \in Entry(th)
      BY <1>2, <2>2, Zenon
    <3>2. Triggered /\ Entry(th) = {e} /\ e.result = "Ok"
      BY <1>0, <3>1, MevEntry, Zenon
    <3>3. PICK m \in 1..Len(ledger) : \E f \in ledger[m] : has_mev_keys(f.tx)
      BY <1>1, <3>2, Zenon DEF Triggered
    <3>4. ledger'[m] = ledger[m] /\ ledger'[n] = Entry(th)
      BY <1>2, <2>2
    <3>5. m \in 1..(n - 1)
      BY <1>2, <2>2
    <3> QED  BY <3>2, <3>3, <3>4, <3>5, Zenon
  <2> QED  BY <1>2, <2>1, <2>2
<1>6. batch_type[th] = "Normal" /\ mev_tx[th] # {} => Triggered'
  <2> SUFFICES ASSUME batch_type[th] = "Normal", mev_tx[th] # {} PROVE Triggered'
    BY Zenon
  <2>1. PICK i \in Executed(th) : has_mev_keys(batch[th][i])
    BY <1>0, Zenon DEF MevThread
  <2>2. i \in Processed(th)
    BY <2>1, Zenon DEF Processed
  <2> DEFINE f == [tx |-> batch[th][i], result |-> execution_results[th][i],
                   view |-> [a \in MessageKeys(batch[th][i]) |-> view[th][a]]]
  <2>3. f \in Entry(th) /\ f.tx = batch[th][i]
    BY <2>2, Zenon DEF Entry
  <2> HIDE DEF f
  <2>4. f \in ledger'[Len(ledger) + 1] /\ has_mev_keys(f.tx) /\ Len(ledger) + 1 \in 1..Len(ledger')
    <3>1. f \in ledger'[Len(ledger) + 1] /\ has_mev_keys(f.tx)
      BY <1>2, <2>1, <2>3, Zenon
    <3>2. Len(ledger) + 1 \in 1..Len(ledger')
      BY <1>2, SMTT(60)
    <3> QED  BY <3>1, <3>2
  <2> QED  BY <2>4 DEF Triggered
<1>7. MevThread(th)'
  BY <1>0, <1>1, <1>4, <1>6, <1>3, Zenon DEF MevThread, MevShape, BeforeRecord, AfterRecord, mevVars
<1> QED  BY <1>0, <1>1, <1>3, <1>4, <1>5, <1>7, MevFrame, Zenon DEF MevShape, mevVars

LEMMA MevCommitSteps ==
  ASSUME NEW th \in Threads, MevInv,
         store_cached(th) \/ update_transaction_statuses(th)
             \/ filter_program_errors_and_collect_fee(th) \/ drop_freeze_lock(th)
  PROVE  MevInv'
<1>0. MevThread(th) /\ MevShape
  BY DEF MevInv
<1>1. /\ UNCHANGED <<ledger, working_bank, batch, execution_results, packetVars, mevVars>>
      /\ pc[th] \in AfterRecord
      /\ \E to \in AfterRecord : pc' = [pc EXCEPT ![th] = to]
  BY DEF store_cached, update_transaction_statuses, filter_program_errors_and_collect_fee,
         drop_freeze_lock, Goto, batchVars, bankVars, resultVars, AfterRecord
<1>2. PICK to \in AfterRecord : pc' = [pc EXCEPT ![th] = to]
  BY <1>1, Zenon
<1>3. MevShape'
  BY <1>0, <1>1, <1>2 DEF MevShape, OnThreads, PCs, AfterRecord, packetVars, mevVars
<1>4. Triggered' <=> Triggered
  BY <1>1 DEF Triggered
<1>5. MevThread(th)'
  BY <1>0, <1>1, <1>2, <1>4, ZenonT(60) DEF MevThread, MevShape, BeforeRecord, AfterRecord, mevVars
<1> QED  BY <1>0, <1>1, <1>2, <1>3, <1>5, MevQuiet, Zenon DEF MevShape, mevVars

LEMMA MevUnlock ==
  ASSUME NEW th \in Threads, MevInv, unlock_accounts(th)
  PROVE  MevInv'
<1>0. MevThread(th) /\ MevShape
  BY DEF MevInv
<1>1. /\ UNCHANGED <<ledger, working_bank, mevVars, buffer, pending>>
      /\ pc[th] = "Unlock"
      /\ pc' = [pc EXCEPT ![th] =
             IF batch_type[th] = "Normal" /\ mev_tx[th] # {} THEN "MevBatch" ELSE "Filter"]
      /\ batch' = [batch EXCEPT ![th] = <<>>]
      /\ execution_results' = [execution_results EXCEPT ![th] = <<>>]
  BY DEF unlock_accounts, UnlockBatch, Goto, bankVars, commitVars
<1>2. retryable' \in [Threads -> SUBSET (Txs \ MevTxs)]
  <2>1. CASE batch_type[th] = "Normal"
    <3>1. {batch[th][i] : i \in RetryableIndexes(th)} \subseteq Txs \ MevTxs
      BY <1>0, <1>1, <2>1, ZenonT(60) DEF MevThread, AfterRecord, RetryableIndexes, Indexes
    <3>2. retryable' = [retryable EXCEPT ![th] = {batch[th][i] : i \in RetryableIndexes(th)}]
      BY <2>1 DEF unlock_accounts
    <3> QED  BY <1>0, <3>1, <3>2, Zenon DEF MevShape
  <2>2. CASE batch_type[th] # "Normal"
    BY <1>0, <2>2 DEF unlock_accounts, MevShape
  <2> QED  BY <2>1, <2>2
<1>3. MevShape'
  BY <1>0, <1>1, <1>2, ZenonT(60) DEF MevShape, OnThreads, PCs, mevVars
<1>4. Triggered' <=> Triggered
  BY <1>1 DEF Triggered
<1>5. MevThread(th)'
  BY <1>0, <1>1, <1>4 DEF MevThread, MevShape, BeforeRecord, AfterRecord, mevVars
<1> QED  BY <1>0, <1>1, <1>3, <1>5, MevQuiet, Zenon DEF MevShape, OnThreads, mevVars

\* A tick or a reset can only take the bank from the recorder.
LEMMA MevBankSteps ==
  ASSUME MevInv, tick \/ reset \/ freeze_write_lock \/ freeze \/ UNCHANGED vars
  PROVE  MevInv'
<1>1. /\ UNCHANGED <<pc, batch_type, mev_tx, buffer, pending, retryable, batch,
                     execution_results, ledger>>
      /\ working_bank' \in BOOLEAN /\ (working_bank' => working_bank)
  <2> USE DEF batchVars, bankVars, commitVars, packetVars, resultVars, mevVars
  <2>0. working_bank \in BOOLEAN
    BY DEF MevInv, MevShape
  <2>1. CASE tick
    <3>1. working_bank' \in BOOLEAN
      BY <2>1 DEF tick
    <3> QED  BY <2>1, <3>1, Zenon DEF tick
  <2>2. CASE reset
    BY <2>2, Zenon DEF reset
  <2>3. CASE freeze_write_lock
    BY <2>0, <2>3, Zenon DEF freeze_write_lock
  <2>4. CASE freeze
    BY <2>0, <2>4, Zenon DEF freeze
  <2>5. CASE UNCHANGED vars
    BY <2>0, <2>5, Zenon DEF vars
  <2> QED  BY <2>1, <2>2, <2>3, <2>4, <2>5
<1>2. MevShape' /\ MevFollowsTrigger'
  <2>1. MevShape'
    BY <1>1, Zenon DEF MevInv, MevShape, OnThreads
  <2>2. MevFollowsTrigger'
    BY <1>1, Zenon DEF MevInv, MevFollowsTrigger
  <2> QED  BY <2>1, <2>2
<1>3. Triggered => Triggered'
  BY <1>1, ZenonT(60) DEF Triggered
<1>4. \A th \in Threads : MevThread(th)'
  BY <1>1, <1>3 DEF MevInv, MevThread, Executed
<1> QED  BY <1>2, <1>4, Zenon DEF MevInv

LEMMA MevStep == MevInv /\ [BankingNext]_vars => MevInv'
<1> SUFFICES ASSUME MevInv, [BankingNext]_vars PROVE MevInv'
  BY Zenon
<1>1. ASSUME NEW th \in Threads, ThreadStep(th) PROVE MevInv'
  BY <1>1, MevPacketSteps, MevLockSteps, MevExecuteSteps, MevNoRecord, MevRecord,
     MevCommitSteps, MevUnlock DEF ThreadStep, record_transactions
<1> QED  BY <1>1, MevBankSteps DEF BankingNext

LEMMA MevSafe == MevInv => MevFollowsTrigger
  BY DEF MevInv

\* No block holds a MEV transaction that failed, that shares its entry, or
\* that no earlier transaction with MEV keys gave rise to, for any threads and
\* transactions: process_transactions submits it after the batch of its
\* trigger, and if that batch came too late for the recorder, so does it.
THEOREM MevFollows == BankingSpec => []MevFollowsTrigger
  BY MevInit, MevStep, MevSafe, PTL DEF BankingSpec

-----------------------------------------------------------------------------
(* Type correctness.                                                       *)

InBatch == BeforeRecord \cup AfterRecord
Checked == InBatch \ {"Check"}
Loaded == Checked \ {"Load"}

Shape ==
    /\ OnThreads(batch) /\ OnThreads(lock_results) /\ OnThreads(pc)
    /\ OnThreads(buffer) /\ OnThreads(pending) /\ OnThreads(retryable)
    /\ OnThreads(batch_type) /\ OnThreads(view) /\ OnThreads(execution_results)
    /\ OnThreads(commit_result) /\ OnThreads(mev_tx) /\ OnThreads(end_of_slot)

BankTypes ==
    /\ tick_height \in 0..MaxTicks
    /\ working_bank \in BOOLEAN /\ freeze_writer \in BOOLEAN /\ freeze_started \in BOOLEAN
    /\ working_bank => tick_height < MaxTicks
    /\ bank_hash \subseteq [Accounts -> Values]
    /\ freeze_readers \subseteq Threads
    /\ status_cache \subseteq Txs
    /\ store \in [Accounts -> Values]

LedgerTypes ==
    /\ ledger \in Seq({ledger[n] : n \in DOMAIN ledger})
    /\ \A n \in DOMAIN ledger : \A e \in ledger[n] : e.tx \in Txs /\ e.result \in {"Ok", "Err"}

ThreadTypes(th) ==
    /\ pc[th] \in PCs
    /\ batch[th] \in Batches \cup {<<>>}
    /\ lock_results[th] \in [DOMAIN batch[th] -> LockResults]
    /\ buffer[th] \subseteq Txs /\ pending[th] \subseteq Txs /\ retryable[th] \subseteq Txs
    /\ batch_type[th] \in {"Normal", "Mev"}
    /\ commit_result[th] \in {"None", "Ok", "MaxHeightReached"}
    /\ mev_tx[th] \subseteq MevTxs
    /\ end_of_slot[th] \in BOOLEAN

\* The results of a batch are those of its transactions, and once they are
\* loaded the thread has seen every account of what it executed.
ResultTypes(th) ==
    /\ \A a \in DOMAIN view[th] : view[th][a] \in Values
    /\ \A i \in DOMAIN execution_results[th] :
           execution_results[th][i] \in ExecutionResults \cup {"Loading"}
    /\ pc[th] \in Checked => DOMAIN execution_results[th] = DOMAIN batch[th]
    /\ pc[th] \in Loaded =>
           \A i \in DOMAIN batch[th] :
               /\ execution_results[th][i] \in ExecutionResults
               /\ execution_results[th][i] # "NotExecuted" =>
                      MessageKeys(batch[th][i]) \subseteq DOMAIN view[th]

TypeInv ==
    /\ Shape /\ BankTypes /\ LedgerTypes
    /\ \A th \in Threads : ThreadTypes(th) /\ ResultTypes(th)

LEMMA BatchTxs ==
  ASSUME NEW b \in Batches \cup {<<>>}
  PROVE  \A i \in DOMAIN b : b[i] \in Txs
<1>1. CASE b = <<>>
  BY <1>1
<1>2. CASE b \in Batches
  <2>1. PICK n \in 1..MaxBatch : b \in [1..n -> Txs]
    BY <1>2 DEF Batches
  <2> QED  BY <2>1
<1> QED  BY <1>1, <1>2

LEMMA TypeInit == BankingInit => TypeInv
<1> SUFFICES ASSUME BankingInit PROVE TypeInv
  BY Zenon
<1>1. Shape
  BY IncomingAssumption DEF BankingInit, Init, Shape, OnThreads
<1>2. BankTypes
  <2>1. 0 \in 0..MaxTicks /\ 0 < MaxTicks
    BY IncomingAssumption
  <2>2. store \in [Accounts -> Values]
    BY DEF BankingInit, Values
  <2> QED  BY <2>1, <2>2, Zenon DEF BankingInit, BankTypes
<1>3. LedgerTypes
  BY DEF BankingInit, LedgerTypes
<1>4. ASSUME NEW th \in Threads PROVE ThreadTypes(th) /\ ResultTypes(th)
  <2>1. ThreadTypes(th)
    BY <1>4, IncomingAssumption, SMTT(60) DEF BankingInit, Init, ThreadTypes, PCs
  <2>2. ResultTypes(th)
    BY <1>4 DEF BankingInit, ResultTypes, Checked, Loaded, InBatch, BeforeRecord, AfterRecord
  <2> QED  BY <2>1, <2>2, Zenon
<1> QED  BY <1>1, <1>2, <1>3, <1>4 DEF TypeInv

\* The step is another thread's.
SameThread(x) ==
    /\ pc'[x] = pc[x] /\ batch'[x] = batch[x] /\ lock_results'[x] = lock_results[x]
    /\ buffer'[x] = buffer[x] /\ pending'[x] = pending[x] /\ retryable'[x] = retryable[x]
    /\ batch_type'[x] = batch_type[x] /\ commit_result'[x] = commit_result[x]
    /\ mev_tx'[x] = mev_tx[x] /\ end_of_slot'[x] = end_of_slot[x]
    /\ view'[x] = view[x] /\ execution_results'[x] = execution_results[x]

LEMMA SameThreadTypes ==
  ASSUME NEW x, SameThread(x), ThreadTypes(x), ResultTypes(x)
  PROVE  ThreadTypes(x)' /\ ResultTypes(x)'
<1>1. ThreadTypes(x)'
  BY ZenonT(60) DEF SameThread, ThreadTypes
<1>2. ResultTypes(x)'
  BY DEF SameThread, ResultTypes
<1> QED  BY <1>1, <1>2, Zenon

LEMMA TypeFrame ==
  ASSUME NEW th \in Threads, TypeInv, Shape', BankTypes', LedgerTypes',
         ThreadTypes(th)', ResultTypes(th)', \A x \in Threads \ {th} : SameThread(x)
  PROVE  TypeInv'
  BY SameThreadTypes DEF TypeInv

\* A thread changes its own entries of the variables only.
LEMMA OwnEntries ==
  ASSUME NEW th \in Threads, Shape, ThreadStep(th)
  PROVE  Shape' /\ \A x \in Threads \ {th} : SameThread(x)
<1> USE DEF Shape, OnThreads, SameThread, Goto, batchVars, bankVars, commitVars, packetVars,
            resultVars, mevVars
<1>1. CASE bank_start(th)
  BY <1>1, Zenon DEF bank_start
<1>2. CASE process_normal_batch(th)
  BY <1>2, Zenon DEF process_normal_batch, LockBatch
<1>3. CASE process_mev_batch(th)
  BY <1>3, Zenon DEF process_mev_batch, LockBatch
<1>4. CASE filter_pending(th)
  BY <1>4, Zenon DEF filter_pending
<1>5. CASE finish_consume(th)
  BY <1>5, Zenon DEF finish_consume
<1>6. CASE check_transactions(th)
  BY <1>6, Zenon DEF check_transactions
<1>7. CASE load_and_execute_transactions(th)
  BY <1>7, Zenon DEF load_and_execute_transactions
<1>8. CASE freeze_lock(th)
  BY <1>8, Zenon DEF freeze_lock
<1>9. CASE record_nothing(th)
  BY <1>9, Zenon DEF record_nothing
<1>10. CASE record_entry(th)
  BY <1>10, Zenon DEF record_entry
<1>11. CASE record_max_height(th)
  BY <1>11, Zenon DEF record_max_height
<1>12. CASE store_cached(th)
  BY <1>12, Zenon DEF store_cached
<1>13. CASE update_transaction_statuses(th)
  BY <1>13, Zenon DEF update_transaction_statuses
<1>14. CASE filter_program_errors_and_collect_fee(th)
  BY <1>14, Zenon DEF filter_program_errors_and_collect_fee
<1>15. CASE drop_freeze_lock(th)
  BY <1>15, Zenon DEF drop_freeze_lock
<1>16. CASE unlock_accounts(th)
  BY <1>16, Zenon DEF unlock_accounts, UnlockBatch
<1> QED
  BY <1>1, <1>2, <1>3, <1>4, <1>5, <1>6, <1>7, <1>8,
     <1>9, <1>10, <1>11, <1>12, <1>13, <1>14, <1>15, <1>16, ZenonT(60)
  DEF ThreadStep, record_transactions

LEMMA TypeThread ==
  ASSUME NEW th \in Threads, TypeInv, ThreadStep(th), BankTypes', LedgerTypes',
         ThreadTypes(th)', ResultTypes(th)'
  PROVE  TypeInv'
<1>1. Shape
  BY DEF TypeInv
<1> QED  BY <1>1, OwnEntries, TypeFrame

LEMMA QuietTypes ==
  ASSUME TypeInv
  PROVE  /\ UNCHANGED <<bankVars, commitVars>> => BankTypes'
         /\ UNCHANGED ledger => LedgerTypes'
<1>1. ASSUME UNCHANGED <<bankVars, commitVars>> PROVE BankTypes'
  BY <1>1, Zenon DEF TypeInv, BankTypes, bankVars, commitVars
<1>2. ASSUME UNCHANGED ledger PROVE LedgerTypes'
  BY <1>2, Zenon DEF TypeInv, LedgerTypes
<1> QED  BY <1>1, <1>2

LEMMA BankKept ==
  ASSUME BankTypes, UNCHANGED bankVars, freeze_readers' \subseteq Threads,
         status_cache' \subseteq Txs, store' \in [Accounts -> Values]
  PROVE  BankTypes'
<1>1. /\ tick_height' = tick_height /\ working_bank' = working_bank
      /\ freeze_writer' = freeze_writer /\ freeze_started' = freeze_started
      /\ bank_hash' = bank_hash
  BY DEF bankVars
<1> QED  BY <1>1, Zenon DEF BankTypes

LEMMA PacketTypes ==
  ASSUME NEW th \in Threads, TypeInv, bank_start(th) \/ filter_pending(th) \/ finish_consume(th)
  PROVE  TypeInv'
<1>0. ThreadTypes(th) /\ ResultTypes(th) /\ Shape
  BY Zenon DEF TypeInv
<1>1. BankTypes' /\ LedgerTypes'
  BY QuietTypes, Zenon DEF bank_start, filter_pending, finish_consume, commitVars
<1>2. ThreadTypes(th)'
  <2> USE <1>0 DEF ThreadTypes, Shape, OnThreads, Goto, PCs, batchVars, resultVars, mevVars
  <2>1. CASE bank_start(th)
    BY <2>1, Zenon DEF bank_start
  <2>2. CASE filter_pending(th)
    BY <2>2, Zenon DEF filter_pending
  <2>3. CASE finish_consume(th)
    BY <2>3, Zenon DEF finish_consume
  <2> QED  BY <2>1, <2>2, <2>3, Zenon
<1>3. ResultTypes(th)'
  BY <1>0, ZenonT(60) DEF ResultTypes, Shape, OnThreads, Goto, batchVars, resultVars, bank_start, filter_pending,
              finish_consume, Checked, Loaded, InBatch, BeforeRecord, AfterRecord
<1> QED  BY <1>1, <1>2, <1>3, TypeThread DEF ThreadStep

\* What LockBatch gives the thread.
LEMMA LockedBatch ==
  ASSUME NEW th \in Threads, NEW txs \in Batches, OnThreads(batch), OnThreads(lock_results),
         LockBatch(th, txs)
  PROVE  /\ batch'[th] = txs
         /\ DOMAIN txs = 1..Len(txs) /\ \A i \in DOMAIN txs : txs[i] \in Txs
         /\ lock_results'[th] \in [DOMAIN txs -> LockResults]
         /\ \A i \in DOMAIN txs : lock_results'[th][i] \in
                {"Ok", "AccountInUse", SanitizeResult[txs[i]]} \cup QosResults
<1>1. DOMAIN txs = 1..Len(txs) /\ \A i \in DOMAIN txs : txs[i] \in Txs
  <2>1. PICK n \in 1..MaxBatch : txs \in [1..n -> Txs]
    BY Zenon DEF Batches
  <2> QED  BY <2>1, BatchAssumption, SMTT(60)
<1>2. PICK qos \in [DOMAIN txs -> QosResults], granted \in SUBSET (1..Len(txs)) :
          lock_results' = [lock_results EXCEPT ![th] = GrantResults(Verdicts(txs, qos), granted)]
  BY Zenon DEF LockBatch
<1>3. lock_results'[th] = GrantResults(Verdicts(txs, qos), granted)
  BY <1>2 DEF OnThreads
<1>4. DOMAIN Verdicts(txs, qos) = DOMAIN txs
  BY <1>1 DEF Verdicts
<1>5. \A i \in DOMAIN txs : lock_results'[th][i] \in
          {"Ok", "AccountInUse", SanitizeResult[txs[i]]} \cup QosResults
  <2> TAKE i \in DOMAIN txs
  <2>1. Verdicts(txs, qos)[i] \in {SanitizeResult[txs[i]]} \cup QosResults
    BY <1>1, Zenon DEF Verdicts, Verdict
  <2> QED  BY <1>3, <1>4, <2>1 DEF GrantResults
<1>6. lock_results'[th] = [i \in DOMAIN txs |-> lock_results'[th][i]]
  BY <1>3, <1>4, Zenon DEF GrantResults
<1>7. \A i \in DOMAIN txs : lock_results'[th][i] \in LockResults
  BY <1>1, <1>5, KeysAssumption, Zenon DEF LockResults, SanitizeResults, QosErrors
<1>8. batch'[th] = txs
  BY DEF LockBatch, OnThreads
<1> QED  BY <1>1, <1>5, <1>6, <1>7, <1>8, Zenon

LEMMA LockStepTypes ==
  ASSUME NEW th \in Threads, TypeInv, process_normal_batch(th) \/ process_mev_batch(th)
  PROVE  TypeInv'
<1>0. ThreadTypes(th) /\ ResultTypes(th) /\ Shape
  BY Zenon DEF TypeInv
<1>1. BankTypes' /\ LedgerTypes'
  BY QuietTypes DEF process_normal_batch, process_mev_batch, commitVars
<1>2. PICK txs \in Batches : LockBatch(th, txs)
  <2>1. CASE process_normal_batch(th)
    BY <2>1, Zenon DEF process_normal_batch, ScannedBatches
  <2>2. CASE process_mev_batch(th)
    <3>1. PICK t \in mev_tx[th] : LockBatch(th, <<t>>)
      BY <2>2 DEF process_mev_batch
    <3>2. t \in Txs
      BY <1>0, IncomingAssumption DEF ThreadTypes
    <3>3. <<t>> \in [1..1 -> Txs] /\ 1 \in 1..MaxBatch
      BY <3>2, BatchAssumption, SMTT(60)
    <3> QED  BY <3>1, <3>3, ZenonT(60) DEF Batches
  <2> QED  BY <2>1, <2>2, Zenon
<1>3. batch'[th] \in Batches /\ lock_results'[th] \in [DOMAIN batch'[th] -> LockResults]
  BY <1>0, <1>2, LockedBatch, ZenonT(60) DEF Shape
<1>4. ThreadTypes(th)'
  <2> USE <1>0, <1>3 DEF ThreadTypes, Shape, OnThreads, Goto, PCs, packetVars, resultVars
  <2>1. CASE process_normal_batch(th)
    BY <2>1, ZenonT(60) DEF process_normal_batch
  <2>2. CASE process_mev_batch(th)
    BY <2>2, Zenon DEF process_mev_batch
  <2> QED  BY <2>1, <2>2, Zenon
<1>5. pc'[th] = "Check" /\ UNCHANGED <<view, execution_results>>
  BY <1>0, Zenon DEF Shape, OnThreads, Goto, resultVars, process_normal_batch, process_mev_batch
<1>6. ResultTypes(th)'
  BY <1>0, <1>5 DEF ResultTypes, Checked, Loaded, InBatch, BeforeRecord, AfterRecord
<1> QED  BY <1>1, <1>4, <1>6, TypeThread DEF ThreadStep

LEMMA CheckTypes ==
  ASSUME NEW th \in Threads, TypeInv, check_transactions(th)
  PROVE  TypeInv'
<1>0. ThreadTypes(th) /\ ResultTypes(th) /\ Shape
  BY DEF TypeInv
<1>1. BankTypes' /\ LedgerTypes'
  BY QuietTypes, Zenon DEF check_transactions, commitVars
<1>2. ThreadTypes(th)'
  BY <1>0, Zenon DEF ThreadTypes, Shape, OnThreads, Goto, PCs, batchVars, packetVars, mevVars,
              check_transactions
<1>3. /\ pc'[th] = "Load" /\ UNCHANGED <<batch, view>>
      /\ DOMAIN execution_results'[th] = DOMAIN batch[th]
      /\ \A i \in DOMAIN batch[th] : execution_results'[th][i] \in {"Loading", "NotExecuted"}
  BY <1>0, ZenonT(60) DEF Shape, OnThreads, Goto, batchVars, check_transactions, Indexes
<1>4. ResultTypes(th)'
  BY <1>0, <1>3, Zenon DEF ResultTypes, ExecutionResults, Checked, Loaded, InBatch, BeforeRecord, AfterRecord
<1> QED  BY <1>1, <1>2, <1>4, TypeThread DEF ThreadStep

LEMMA LoadTypes ==
  ASSUME NEW th \in Threads, TypeInv, load_and_execute_transactions(th)
  PROVE  TypeInv'
<1>0. ThreadTypes(th) /\ ResultTypes(th) /\ Shape /\ store \in [Accounts -> Values]
  BY DEF TypeInv, BankTypes
<1>1. BankTypes' /\ LedgerTypes'
  BY QuietTypes, ZenonT(60) DEF load_and_execute_transactions, commitVars
<1>2. PICK results \in [Indexes(th) -> ExecutionResults], found \in {{}} \cup {{m} : m \in MevTxs} :
          /\ execution_results' = [execution_results EXCEPT ![th] = results]
          /\ view' = [view EXCEPT ![th] =
                 [a \in UNION {MessageKeys(batch[th][i]) : i \in {j \in Indexes(th) :
                            results[j] # "NotExecuted"}} |-> store[a]]]
          /\ mev_tx' = [mev_tx EXCEPT ![th] = found]
  BY ZenonT(60) DEF load_and_execute_transactions
<1>3. mev_tx'[th] \subseteq MevTxs
  BY <1>0, <1>2, Zenon DEF Shape, OnThreads
<1>4. ThreadTypes(th)'
  BY <1>0, <1>3, Zenon DEF ThreadTypes, Shape, OnThreads, Goto, PCs, batchVars, packetVars,
                    load_and_execute_transactions
<1>5. pc'[th] = "FreezeLock" /\ UNCHANGED batch /\ execution_results'[th] = results
  BY <1>0, <1>2, ZenonT(60) DEF Shape, OnThreads, Goto, batchVars, load_and_execute_transactions
<1>6. /\ DOMAIN view'[th] = UNION {MessageKeys(batch[th][i]) : i \in {j \in Indexes(th) :
                                       results[j] # "NotExecuted"}}
      /\ \A a \in DOMAIN view'[th] : view'[th][a] = store[a]
  BY <1>0, <1>2 DEF Shape, OnThreads
<1>7. \A i \in DOMAIN batch[th] : batch[th][i] \in Txs
  BY <1>0, BatchTxs, Zenon DEF ThreadTypes
<1>8. \A a \in DOMAIN view'[th] : view'[th][a] \in Values
  <2>1. \A i \in DOMAIN batch[th] : MessageKeys(batch[th][i]) \subseteq Accounts
    BY <1>7, KeysAssumption, Zenon DEF MessageKeys
  <2> QED  BY <1>0, <1>6, <2>1, ZenonT(60) DEF Indexes
<1>9. \A i \in DOMAIN batch[th] : results[i] # "NotExecuted" =>
          MessageKeys(batch[th][i]) \subseteq DOMAIN view'[th]
  BY <1>6, Zenon DEF Indexes
<1>10. ResultTypes(th)'
  BY <1>5, <1>8, <1>9, Zenon DEF ResultTypes, Indexes
<1> QED  BY <1>1, <1>4, <1>10, TypeThread, Zenon DEF ThreadStep

\* The steps of a loaded batch up to the unlock keep its results.
LEMMA LoadedTypes ==
  ASSUME NEW th \in Threads, TypeInv, pc[th] \in Loaded, NEW to \in Loaded, Goto(th, pc[th], to),
         UNCHANGED <<batchVars, packetVars, mevVars, view, execution_results>>,
         commit_result'[th] \in {"None", "Ok", "MaxHeightReached"}
  PROVE  ThreadTypes(th)' /\ ResultTypes(th)'
<1>0. ThreadTypes(th) /\ ResultTypes(th) /\ Shape
  BY Zenon DEF TypeInv
<1>1. pc'[th] = to
  BY <1>0, Zenon DEF Shape, OnThreads, Goto
<1>2. ThreadTypes(th)'
  BY <1>0, <1>1, ZenonT(60) DEF ThreadTypes, PCs, Loaded, Checked, InBatch, BeforeRecord, AfterRecord,
                    batchVars, packetVars, mevVars
<1>3. ResultTypes(th)'
  BY <1>0, <1>1, Zenon DEF ResultTypes, Loaded, batchVars
<1> QED  BY <1>2, <1>3, Zenon

LEMMA FreezeLockTypes ==
  ASSUME NEW th \in Threads, TypeInv, freeze_lock(th) \/ drop_freeze_lock(th)
  PROVE  TypeInv'
<1>0. ThreadTypes(th) /\ Shape /\ BankTypes
  BY Zenon DEF TypeInv
<1>1. LedgerTypes'
  BY QuietTypes DEF freeze_lock, drop_freeze_lock
<1>2. BankTypes'
  <2>1. /\ freeze_readers' \subseteq Threads /\ UNCHANGED bankVars
        /\ status_cache' \subseteq Txs /\ store' \in [Accounts -> Values]
    BY <1>0, Zenon DEF BankTypes, freeze_lock, drop_freeze_lock
  <2> QED  BY <1>0, <2>1, BankKept, Zenon
<1>3. /\ UNCHANGED <<batchVars, packetVars, mevVars, view, execution_results, commit_result>>
      /\ pc[th] \in Loaded
      /\ \E to \in Loaded : Goto(th, pc[th], to)
  BY ZenonT(60) DEF freeze_lock, drop_freeze_lock, Goto, resultVars, Loaded, Checked, InBatch, BeforeRecord,
         AfterRecord
<1>4. ThreadTypes(th)' /\ ResultTypes(th)'
  BY <1>0, <1>3, LoadedTypes, ZenonT(60) DEF ThreadTypes
<1> QED  BY <1>1, <1>2, <1>4, TypeThread, Zenon DEF ThreadStep

LEMMA RecordTypes ==
  ASSUME NEW th \in Threads, TypeInv, record_transactions(th)
  PROVE  TypeInv'
<1>0. ThreadTypes(th) /\ ResultTypes(th) /\ Shape /\ BankTypes /\ LedgerTypes
  BY Zenon DEF TypeInv
<1>1. /\ UNCHANGED <<batchVars, packetVars, mevVars, view, execution_results>>
      /\ pc[th] = "Record" /\ pc[th] \in Loaded
      /\ \E to \in Loaded : Goto(th, pc[th], to)
      /\ commit_result'[th] \in {"Ok", "MaxHeightReached"}
  BY <1>0, ZenonT(60) DEF record_transactions, record_nothing, record_entry, record_max_height, Goto, Loaded,
              Checked, InBatch, BeforeRecord, AfterRecord, Shape, OnThreads
<1>2. ThreadTypes(th)' /\ ResultTypes(th)'
  BY <1>1, LoadedTypes, Zenon
<1>3. BankTypes'
  <2>1. /\ freeze_readers' \subseteq Threads /\ UNCHANGED bankVars
        /\ status_cache' \subseteq Txs /\ store' \in [Accounts -> Values]
    BY <1>0, Zenon DEF BankTypes, commitVars, record_transactions, record_nothing, record_entry,
                record_max_height
  <2> QED  BY <1>0, <2>1, BankKept, Zenon
<1>4. CASE UNCHANGED ledger
  BY <1>2, <1>3, <1>4, QuietTypes, TypeThread, Zenon DEF ThreadStep
<1>5. CASE ledger' = Append(ledger, Entry(th))
  <2>1. \A e \in Entry(th) : e.tx \in Txs /\ e.result \in {"Ok", "Err"}
    <3> TAKE e \in Entry(th)
    <3>1. PICK i \in Processed(th) : e.tx = batch[th][i] /\ e.result = execution_results[th][i]
      BY SMTT(60) DEF Entry
    <3>2. i \in DOMAIN batch[th] /\ execution_results[th][i] # "NotExecuted"
      BY <1>0, <1>1, <3>1, Zenon DEF Processed, Executed, ResultTypes, Loaded
    <3>3. batch[th][i] \in Txs
      BY <1>0, <3>2, BatchTxs, ZenonT(60) DEF ThreadTypes
    <3>4. execution_results[th][i] \in ExecutionResults
      BY <1>0, <1>1, <3>2, Zenon DEF ResultTypes
    <3> QED  BY <3>1, <3>2, <3>3, <3>4, ZenonT(60) DEF ExecutionResults
  <2>2. LET r == Append(ledger, Entry(th)) IN
        /\ Len(ledger) \in Nat /\ DOMAIN ledger = 1..Len(ledger)
        /\ r \in Seq({r[n] : n \in DOMAIN r})
        /\ DOMAIN r = 1..(Len(ledger) + 1) /\ Len(r) = Len(ledger) + 1
        /\ \A n \in 1..Len(ledger) : r[n] = ledger[n]
        /\ r[Len(ledger) + 1] = Entry(th)
    BY <1>0, AppendEntry, Zenon DEF LedgerTypes
  <2>3. /\ Len(ledger) \in Nat /\ DOMAIN ledger = 1..Len(ledger)
        /\ ledger' \in Seq({ledger'[n] : n \in DOMAIN ledger'})
        /\ DOMAIN ledger' = 1..(Len(ledger) + 1)
        /\ \A n \in 1..Len(ledger) : ledger'[n] = ledger[n]
        /\ ledger'[Len(ledger) + 1] = Entry(th)
    BY <1>5, <2>2, ZenonT(60)
  <2>4. ASSUME NEW n \in DOMAIN ledger', NEW e \in ledger'[n]
        PROVE  e.tx \in Txs /\ e.result \in {"Ok", "Err"}
    <3>1. CASE n \in 1..Len(ledger)
      BY <1>0, <2>3, <2>4, <3>1, Zenon DEF LedgerTypes
    <3>2. CASE n = Len(ledger) + 1
      BY <2>1, <2>3, <2>4, <3>2, Zenon
    <3>3. n \in 1..(Len(ledger) + 1) /\ Len(ledger) \in Nat
      BY <2>3, <2>4, Zenon
    <3>4. n \in 1..Len(ledger) \/ n = Len(ledger) + 1
      BY <3>3, SMTT(60)
    <3> QED  BY <3>1, <3>2, <3>4, Zenon
  <2>5. LedgerTypes'
    BY <2>3, <2>4, Zenon DEF LedgerTypes
  <2> QED  BY <1>2, <1>3, <2>5, TypeThread, ZenonT(60) DEF ThreadStep
<1> QED
  BY <1>4, <1>5 DEF record_transactions, record_nothing, record_entry, record_max_height, commitVars

LEMMA CommitTypes ==
  ASSUME NEW th \in Threads, TypeInv,
         \/ store_cached(th) \/ update_transaction_statuses(th)
         \/ filter_program_errors_and_collect_fee(th)
  PROVE  TypeInv'
<1>0. ThreadTypes(th) /\ ResultTypes(th) /\ Shape /\ BankTypes
  BY Zenon DEF TypeInv
<1>1. LedgerTypes'
  BY QuietTypes, Zenon DEF store_cached, update_transaction_statuses, filter_program_errors_and_collect_fee
<1>2. /\ UNCHANGED <<batchVars, packetVars, mevVars, view, execution_results, commit_result>>
      /\ pc[th] \in Loaded
      /\ \E to \in Loaded : Goto(th, pc[th], to)
  BY Zenon DEF store_cached, update_transaction_statuses, filter_program_errors_and_collect_fee, Goto,
         resultVars, Loaded, Checked, InBatch, BeforeRecord, AfterRecord
<1>3. ThreadTypes(th)' /\ ResultTypes(th)'
  BY <1>0, <1>2, LoadedTypes, Zenon DEF ThreadTypes
<1>4. \A i \in Executed(th) :
          /\ i \in DOMAIN batch[th] /\ batch[th][i] \in Txs
          /\ execution_results[th][i] # "NotExecuted"
          /\ MessageKeys(batch[th][i]) \subseteq DOMAIN view[th]
  <2>1. \A i \in DOMAIN batch[th] : batch[th][i] \in Txs
    BY <1>0, BatchTxs, Zenon DEF ThreadTypes
  <2>2. DOMAIN execution_results[th] = DOMAIN batch[th]
    BY <1>0, <1>2, ZenonT(60) DEF ResultTypes, Loaded
  <2>3. TAKE i \in Executed(th)
  <2>4. i \in DOMAIN batch[th] /\ execution_results[th][i] # "NotExecuted"
    BY <2>2, ZenonT(60) DEF Executed
  <2>5. MessageKeys(batch[th][i]) \subseteq DOMAIN view[th]
    BY <1>0, <1>2, <2>4, ZenonT(60) DEF ResultTypes
  <2> QED  BY <2>1, <2>4, <2>5, Zenon
<1>5. status_cache' \subseteq Txs
  <2>1. status_cache \subseteq Txs
    BY <1>0, ZenonT(60) DEF BankTypes
  <2>2. CASE update_transaction_statuses(th)
    BY <1>4, <2>1, <2>2 DEF update_transaction_statuses
  <2>3. CASE UNCHANGED status_cache
    BY <2>1, <2>3, Zenon
  <2> QED  BY <2>2, <2>3, Zenon DEF store_cached, filter_program_errors_and_collect_fee
<1>6. store' \in [Accounts -> Values]
  <2>1. CASE store_cached(th)
    <3>1. ASSUME NEW a \in Accounts, StoreWriters(th, a) # {}
          PROVE  Append(view[th][a], CHOOSE t \in StoreWriters(th, a) : TRUE) \in Values
      <4>1. PICK j \in Executed(th) : a \in StoredAccounts(batch[th][j], execution_results[th][j])
        BY <3>1 DEF StoreWriters
      <4>2. a \in MessageKeys(batch[th][j])
        BY <1>4, <4>1, PayerAssumption, KeysAssumption, ZenonT(60) DEF StoredAccounts, MessageKeys
      <4>3. view[th][a] \in Seq(Txs)
        BY <1>0, <1>4, <4>1, <4>2, Zenon DEF ResultTypes, Values
      <4>4. (CHOOSE t \in StoreWriters(th, a) : TRUE) \in StoreWriters(th, a)
        BY <3>1, Zenon
      <4>5. StoreWriters(th, a) \subseteq Txs
        BY <1>4, Zenon DEF StoreWriters
      <4> QED  BY <4>3, <4>4, <4>5, SMTT(60) DEF Values
    <3> QED  BY <1>0, <2>1, <3>1 DEF store_cached, BankTypes
  <2>2. CASE filter_program_errors_and_collect_fee(th)
    <3>1. ASSUME NEW a \in Accounts, FeeWriters(th, a) # {}
          PROVE  Append(store[a], CHOOSE t \in FeeWriters(th, a) : TRUE) \in Values
      <4>1. store[a] \in Seq(Txs)
        BY <1>0 DEF BankTypes, Values
      <4>2. (CHOOSE t \in FeeWriters(th, a) : TRUE) \in FeeWriters(th, a)
        BY <3>1, Zenon
      <4>3. FeeWriters(th, a) \subseteq Txs
        BY <1>4, ZenonT(60) DEF FeeWriters
      <4> QED  BY <4>1, <4>2, <4>3, SMTT(60) DEF Values
    <3> QED  BY <1>0, <2>2, <3>1, Zenon DEF filter_program_errors_and_collect_fee, BankTypes
  <2> QED  BY <1>0, <2>1, <2>2, ZenonT(60) DEF update_transaction_statuses, BankTypes
<1>7. freeze_readers' \subseteq Threads /\ UNCHANGED bankVars
  BY <1>0, Zenon DEF BankTypes, store_cached, update_transaction_statuses,
              filter_program_errors_and_collect_fee
<1> QED  BY <1>0, <1>1, <1>3, <1>5, <1>6, <1>7, BankKept, TypeThread, Zenon DEF ThreadStep

LEMMA UnlockTypes ==
  ASSUME NEW th \in Threads, TypeInv, unlock_accounts(th)
  PROVE  TypeInv'
<1>0. ThreadTypes(th) /\ ResultTypes(th) /\ Shape
  BY ZenonT(60) DEF TypeInv
<1>1. BankTypes' /\ LedgerTypes'
  BY QuietTypes, ZenonT(60) DEF unlock_accounts, commitVars
<1>2. /\ pc'[th] \in {"MevBatch", "Filter"} /\ batch'[th] = <<>> /\ lock_results'[th] = <<>>
      /\ view'[th] = <<>> /\ execution_results'[th] = <<>> /\ commit_result'[th] = "None"
      /\ UNCHANGED <<mevVars, buffer, pending>>
  BY <1>0, Zenon DEF Shape, OnThreads, Goto, unlock_accounts, UnlockBatch
<1>3. retryable'[th] \subseteq Txs
  <2>1. \A i \in RetryableIndexes(th) : batch[th][i] \in Txs
    <3>1. \A i \in DOMAIN batch[th] : batch[th][i] \in Txs
      BY <1>0, BatchTxs DEF ThreadTypes
    <3> QED  BY <3>1, Zenon DEF RetryableIndexes, Indexes
  <2> QED  BY <1>0, <2>1, SMTT(60) DEF ThreadTypes, Shape, OnThreads, unlock_accounts
<1>4. end_of_slot'[th] \in BOOLEAN
  <2>1. CASE batch_type[th] = "Normal"
    <3>1. end_of_slot'[th] = (commit_result[th] = "MaxHeightReached")
      BY <1>0, <2>1 DEF Shape, OnThreads, unlock_accounts
    <3> QED  BY <3>1, ZenonT(60)
  <2>2. CASE batch_type[th] # "Normal"
    BY <1>0, <2>2, Zenon DEF ThreadTypes, unlock_accounts
  <2> QED  BY <2>1, <2>2
<1>5. ThreadTypes(th)'
  <2>1. pc'[th] \in PCs
    BY <1>2, Zenon DEF PCs
  <2>2. lock_results'[th] \in [DOMAIN batch'[th] -> LockResults]
    <3>1. <<>> \in [DOMAIN <<>> -> LockResults]
      BY SMTT(60)
    <3> QED  BY <1>2, <3>1, Zenon
  <2>3. batch_type'[th] = batch_type[th] /\ mev_tx'[th] = mev_tx[th]
    BY <1>2, Zenon DEF mevVars
  <2> QED  BY <1>0, <1>2, <1>3, <1>4, <2>1, <2>2, <2>3, ZenonT(60) DEF ThreadTypes
<1>6. ResultTypes(th)'
  <2>1. pc'[th] \notin Checked /\ pc'[th] \notin Loaded
    BY <1>2, Zenon DEF Checked, Loaded, InBatch, BeforeRecord, AfterRecord
  <2>2. DOMAIN view'[th] = {} /\ DOMAIN execution_results'[th] = {}
    BY <1>2, SMTT(60)
  <2> QED  BY <2>1, <2>2, Zenon DEF ResultTypes
<1> QED  BY <1>1, <1>5, <1>6, TypeThread, Zenon DEF ThreadStep

\* Ticks, resets and the freeze leave the threads as they are.
BankStep == tick \/ reset \/ freeze_write_lock \/ freeze

LEMMA BankStepTypes ==
  ASSUME TypeInv, BankStep
  PROVE  /\ TypeInv' /\ UNCHANGED <<ledger, status_cache>>
         /\ \A x \in Threads : SameThread(x)
<1>0. Shape /\ BankTypes /\ LedgerTypes
  BY Zenon DEF TypeInv
<1> USE DEF BankStep, tick, reset, freeze_write_lock, freeze
<1>1. UNCHANGED <<batchVars, commitVars, packetVars, resultVars, mevVars, pc>>
  BY Zenon
<1>2. Shape' /\ LedgerTypes' /\ \A x \in Threads : SameThread(x)
  BY <1>0, <1>1, Zenon DEF Shape, LedgerTypes, SameThread, OnThreads, batchVars, commitVars, packetVars,
                    resultVars, mevVars
<1>3. tick_height' \in 0..MaxTicks
  BY <1>0, IncomingAssumption, SMTT(60) DEF BankTypes
<1>4. bank_hash' \subseteq [Accounts -> Values]
  BY <1>0 DEF BankTypes
<1>5. /\ working_bank' \in BOOLEAN /\ freeze_writer' \in BOOLEAN /\ freeze_started' \in BOOLEAN
      /\ working_bank' => tick_height' < MaxTicks
  <2>1. CASE tick
    <3>1. (tick_height + 1 < MaxTicks) \in BOOLEAN
      BY SMT
    <3> QED  BY <1>0, <2>1, <3>1, ZenonT(60) DEF BankTypes
  <2>2. CASE reset
    BY <1>0, <2>2, Zenon DEF BankTypes
  <2>3. CASE freeze_write_lock
    BY <1>0, <2>3, Zenon DEF BankTypes
  <2>4. CASE freeze
    BY <1>0, <2>4, Zenon DEF BankTypes
  <2> QED  BY <2>1, <2>2, <2>3, <2>4, Zenon
<1>6. BankTypes'
  BY <1>0, <1>1, <1>3, <1>4, <1>5, Zenon DEF BankTypes, commitVars
<1> QED  BY <1>1, <1>2, <1>6, SameThreadTypes DEF TypeInv, commitVars

LEMMA TypeStep == TypeInv /\ [BankingNext]_vars => TypeInv'
<1> SUFFICES ASSUME TypeInv, [BankingNext]_vars PROVE TypeInv'
  BY Zenon
<1>1. ASSUME NEW th \in Threads, ThreadStep(th) PROVE TypeInv'
  BY <1>1, PacketTypes, LockStepTypes, CheckTypes, LoadTypes, FreezeLockTypes, RecordTypes,
     CommitTypes, UnlockTypes, Zenon
  DEF ThreadStep
<1>2. CASE BankStep
  BY <1>2, BankStepTypes, Zenon
<1>3. CASE UNCHANGED vars
  <2>1. Shape' /\ BankTypes' /\ LedgerTypes'
    <3>1. Shape'
      BY <1>3, Zenon DEF TypeInv, Shape, vars, batchVars, packetVars, resultVars, mevVars
    <3> QED  BY <1>3, <3>1, QuietTypes, Zenon DEF vars, commitVars
  <2>2. \A x \in Threads : SameThread(x)
    BY <1>3 DEF SameThread, vars, batchVars, packetVars, resultVars, mevVars
  <2> QED  BY <2>1, <2>2, SameThreadTypes, Zenon DEF TypeInv
<1> QED  BY <1>1, <1>2, <1>3 DEF BankingNext, BankStep

LEMMA TypesFollow == TypeInv => TypeOK
<1> SUFFICES ASSUME TypeInv PROVE TypeOK
  OBVIOUS
<1>1. Shape /\ BankTypes /\ LedgerTypes /\ \A th \in Threads : ThreadTypes(th) /\ ResultTypes(th)
  BY DEF TypeInv
<1>2. {working_bank, freeze_writer, freeze_started} \subseteq BOOLEAN
  BY <1>1, Zenon DEF BankTypes
<1>3. /\ tick_height \in 0..MaxTicks /\ bank_hash \subseteq [Accounts -> Values]
      /\ freeze_readers \subseteq Threads /\ status_cache \subseteq Txs
      /\ store \in [Accounts -> Values]
  BY <1>1, Zenon DEF BankTypes
<1>4. /\ batch \in [Threads -> Batches \cup {<<>>}] /\ pc \in [Threads -> PCs]
      /\ \A th \in Threads : lock_results[th] \in [DOMAIN batch[th] -> LockResults]
      /\ batch_type \in [Threads -> {"Normal", "Mev"}]
      /\ commit_result \in [Threads -> {"None", "Ok", "MaxHeightReached"}]
  BY <1>1, Zenon DEF Shape, OnThreads, ThreadTypes
<1>5. /\ {buffer, pending, retryable} \subseteq [Threads -> SUBSET Txs]
      /\ mev_tx \in [Threads -> SUBSET MevTxs]
  BY <1>1 DEF Shape, OnThreads, ThreadTypes
<1>6. end_of_slot \in [Threads -> BOOLEAN]
  BY <1>1, ZenonT(60) DEF Shape, OnThreads, ThreadTypes
<1>7. /\ \A n \in DOMAIN ledger : \A e \in ledger[n] : e.tx \in Txs /\ e.result \in {"Ok", "Err"}
      /\ \A th \in Threads :
             /\ \A a \in DOMAIN view[th] : view[th][a] \in Values
             /\ \A i \in DOMAIN execution_results[th] :
                    execution_results[th][i] \in ExecutionResults \cup {"Loading"}
  BY <1>1 DEF LedgerTypes, ResultTypes
<1> QED  BY <1>2, <1>3, <1>4, <1>5, <1>6, <1>7, Zenon DEF TypeOK

\* The buffers, batches and results of the banking threads, and the bank they
\* execute on, keep their types.
THEOREM BankingTypes == BankingSpec => []TypeOK
<1>1. TypeInv /\ [BankingNext]_vars => TypeInv'
  BY TypeStep
<1> QED  BY TypeInit, <1>1, TypesFollow, PTL DEF BankingSpec

=============================================================================
