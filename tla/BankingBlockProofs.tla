------------------------ MODULE BankingBlockProofs --------------------------
(***************************************************************************)
(* What a slot does with its packets and what it puts into the block, for  *)
(* every number of threads, transactions and ticks.  No packet is lost:    *)
(* an invariant of one thread at a time over a block and a status cache    *)
(* that only grow.  And the block is sequential: the refinement of the     *)
(* ledger that executes one entry after the other.                         *)
(***************************************************************************)
EXTENDS BankingStageProofs

\* A packet the thread need not keep any more.
Settled(t) == Droppable(t) \/ InLedger(t)

\* Where the packets of a thread are, step by step.
PacketPlaces(th) ==
    /\ pc[th] = "Idle" => pending[th] = {}
    /\ pc[th] \notin {"MevBatch", "Filter"} =>
           retryable[th] = {} \/ (pc[th] \in InBatch /\ batch_type[th] = "Mev")
    /\ \A t \in Incoming[th] :
           \/ Settled(t)
           \/ t \in buffer[th] \cup pending[th] \cup retryable[th]
           \/ /\ pc[th] \in InBatch /\ batch_type[th] = "Normal"
              /\ \E i \in DOMAIN batch[th] : batch[th][i] = t

\* Why a transaction of the batch was refused, not executed, or not recorded.
BatchReasons(th) ==
    /\ pc[th] \in InBatch => \A i \in DOMAIN batch[th] :
           lock_results[th][i] \in {"Ok", "AccountInUse", SanitizeResult[batch[th][i]]} \cup QosResults
    /\ pc[th] \in InBatch /\ batch_type[th] = "Mev" => DOMAIN batch[th] = {1}
    /\ pc[th] = "Load" => \A i \in DOMAIN batch[th] :
           execution_results[th][i] \in {"Loading", "NotExecuted"}
    /\ pc[th] \in Checked => \A i \in DOMAIN batch[th] :
           lock_results[th][i] = "Ok" /\ execution_results[th][i] = "NotExecuted" =>
               Settled(batch[th][i])
    /\ pc[th] \in AfterRecord =>
           /\ commit_result[th] # "None"
           /\ commit_result[th] = "Ok" =>
                  \A i \in Processed(th) : InLedger(batch[th][i])
    /\ pc[th] \in {"Store", "Statuses"} => \A i \in Executed(th) : InLedger(batch[th][i])

KeptInv ==
    /\ TypeInv
    /\ \A t \in status_cache : InLedger(t)
    /\ \A th \in Threads : PacketPlaces(th) /\ BatchReasons(th)

-----------------------------------------------------------------------------
(* No packet is lost.                                                      *)

LEMMA KeptInit == BankingInit => KeptInv
<1> SUFFICES ASSUME BankingInit PROVE KeptInv
  OBVIOUS
<1>1. TypeInv
  BY TypeInit, SMTT(60)
<1>2. ASSUME NEW th \in Threads PROVE PacketPlaces(th) /\ BatchReasons(th)
  BY <1>2 DEF BankingInit, PacketPlaces, BatchReasons, Checked, InBatch, BeforeRecord, AfterRecord
<1>3. \A t \in status_cache : InLedger(t)
  BY SMTT(60) DEF BankingInit
<1> QED  BY <1>1, <1>2, <1>3 DEF KeptInv

\* The block only grows.
LEMMA LedgerGrows ==
  ASSUME NEW th \in Threads, TypeInv, ThreadStep(th), NEW t, InLedger(t)
  PROVE  InLedger(t)'
<1>1. CASE UNCHANGED ledger
  BY <1>1, ZenonT(60) DEF InLedger
<1>2. CASE ledger' = Append(ledger, Entry(th))
  <2>1. LET r == Append(ledger, Entry(th)) IN
        /\ Len(ledger) \in Nat /\ DOMAIN ledger = 1..Len(ledger)
        /\ r \in Seq({r[n] : n \in DOMAIN r})
        /\ DOMAIN r = 1..(Len(ledger) + 1) /\ Len(r) = Len(ledger) + 1
        /\ \A n \in 1..Len(ledger) : r[n] = ledger[n]
        /\ r[Len(ledger) + 1] = Entry(th)
    <3>1. LedgerTypes
      BY DEF TypeInv
    <3> QED  BY <3>1, AppendEntry, Zenon DEF LedgerTypes
  <2>2. /\ Len(ledger) \in Nat /\ DOMAIN ledger = 1..Len(ledger)
        /\ DOMAIN ledger' = 1..(Len(ledger) + 1)
        /\ \A n \in 1..Len(ledger) : ledger'[n] = ledger[n]
    BY <1>2, <2>1, Zenon
  <2>3. \A n \in DOMAIN ledger : n \in DOMAIN ledger' /\ ledger'[n] = ledger[n]
    BY <2>2
  <2> QED  BY <2>3, Zenon DEF InLedger
<1> QED
  BY <1>1, <1>2, ZenonT(60) DEF ThreadStep, bank_start, process_normal_batch, process_mev_batch, filter_pending,
     finish_consume, check_transactions, load_and_execute_transactions, freeze_lock,
     record_transactions, record_nothing, record_entry, record_max_height, store_cached,
     update_transaction_statuses, filter_program_errors_and_collect_fee, drop_freeze_lock,
     unlock_accounts, commitVars

LEMMA SameThreadKept ==
  ASSUME NEW x, SameThread(x), PacketPlaces(x), BatchReasons(x),
         \A t : InLedger(t) => InLedger(t)'
  PROVE  PacketPlaces(x)' /\ BatchReasons(x)'
<1>1. \A t : Settled(t) => Settled(t)'
  BY DEF Settled, Droppable
<1>2. PacketPlaces(x)'
  BY <1>1, ZenonT(40) DEF SameThread, PacketPlaces
<1>3. Executed(x)' = Executed(x) /\ Processed(x)' = Processed(x)
  BY SMTT(60) DEF SameThread, Executed, Processed
<1>4. BatchReasons(x)'
  BY <1>1, <1>3 DEF SameThread, BatchReasons
<1> QED  BY <1>2, <1>4

LEMMA KeptThread ==
  ASSUME NEW th \in Threads, KeptInv, ThreadStep(th), \A t \in status_cache' : InLedger(t)',
         PacketPlaces(th)', BatchReasons(th)'
  PROVE  KeptInv'
<1>1. TypeInv'
  BY TypeStep DEF KeptInv, BankingNext
<1>2. \A x \in Threads \ {th} : SameThread(x)
  BY OwnEntries DEF KeptInv, TypeInv
<1>3. \A t : InLedger(t) => InLedger(t)'
  BY LedgerGrows DEF KeptInv
<1>4. \A x \in Threads \ {th} : PacketPlaces(x)' /\ BatchReasons(x)'
  BY <1>2, <1>3, SameThreadKept, SMTT(60) DEF KeptInv
<1> QED  BY <1>1, <1>4 DEF KeptInv

\* The block and the status cache are unchanged.
LEMMA SameBlock ==
  ASSUME KeptInv, UNCHANGED <<ledger, status_cache>>
  PROVE  /\ \A t : InLedger(t)' <=> InLedger(t)
         /\ \A t : Settled(t) => Settled(t)'
         /\ \A t \in status_cache' : InLedger(t)'
<1>1. \A t : InLedger(t)' <=> InLedger(t)
  BY DEF InLedger
<1> QED  BY <1>1 DEF KeptInv, Settled, Droppable

LEMMA PacketsKeptOutside ==
  ASSUME NEW th \in Threads, KeptInv, bank_start(th) \/ filter_pending(th) \/ finish_consume(th)
  PROVE  KeptInv'
<1>0. PacketPlaces(th) /\ Shape /\ \A t \in status_cache : InLedger(t)
  BY SMTT(60) DEF KeptInv, TypeInv
<1>1. UNCHANGED <<ledger, status_cache>>
  BY SMTT(60) DEF bank_start, filter_pending, finish_consume, commitVars
<1>2. pc'[th] \in {"Idle", "Scan"}
  BY <1>0, SMTT(60) DEF Shape, OnThreads, Goto, bank_start, filter_pending, finish_consume
<1>3. BatchReasons(th)'
  BY <1>2, SMTT(60) DEF BatchReasons, Checked, InBatch, BeforeRecord, AfterRecord
<1>4. PacketPlaces(th)'
  <2>1. pc[th] \notin InBatch
    BY SMTT(60) DEF Goto, bank_start, filter_pending, finish_consume, InBatch, BeforeRecord, AfterRecord
  <2>2. (pc'[th] = "Idle" => pending'[th] = {}) /\ retryable'[th] = {}
    BY <1>0, <2>1, SMTT(60) DEF Shape, OnThreads, Goto, bank_start, filter_pending, finish_consume, PacketPlaces
  <2>3. ASSUME NEW t \in Incoming[th]
        PROVE  Settled(t)' \/ t \in buffer'[th] \cup pending'[th] \cup retryable'[th]
    <3>1. Settled(t) \/ t \in buffer[th] \cup pending[th] \cup retryable[th]
      BY <1>0, <2>1, <2>3, SMTT(60) DEF PacketPlaces
    <3>2. CASE Settled(t)
      BY <1>1, <3>2, SameBlock, SMTT(60)
    <3>3. CASE bank_start(th)
      BY <1>0, <3>1, <3>2, <3>3, SMTT(60) DEF PacketPlaces, Shape, OnThreads, Goto, bank_start
    <3>4. CASE filter_pending(th)
      <4>1. t \in retryable[th] /\ t \notin buffer'[th] => Settled(t)
        BY <1>0, <3>4, SMTT(60) DEF Shape, OnThreads, filter_pending, Settled, Droppable
      <4> QED  BY <1>0, <3>1, <3>2, <3>4, <4>1, SMTT(60) DEF Shape, OnThreads, filter_pending
    <3>5. CASE finish_consume(th)
      <4>1. t \in pending[th] /\ ~end_of_slot[th] => Settled(t)
        BY <3>5, ZenonT(60) DEF finish_consume, Settled, Droppable
      <4>2. CASE end_of_slot[th]
        BY <1>0, <3>1, <3>2, <3>5, <4>2, SMTT(60) DEF Shape, OnThreads, finish_consume
      <4>3. CASE ~end_of_slot[th]
        BY <1>0, <3>1, <3>2, <3>5, <4>1, <4>3, SMTT(60) DEF Shape, OnThreads, finish_consume
      <4> QED  BY <4>2, <4>3, ZenonT(60)
    <3> QED  BY <3>3, <3>4, <3>5, SMTT(60)
  <2> QED  BY <2>2, <2>3, ZenonT(60) DEF PacketPlaces
<1> QED  BY <1>1, <1>3, <1>4, SameBlock, KeptThread, SMTT(60) DEF ThreadStep

LEMMA PacketsKeptLocking ==
  ASSUME NEW th \in Threads, KeptInv, process_normal_batch(th) \/ process_mev_batch(th)
  PROVE  KeptInv'
<1>0. PacketPlaces(th) /\ Shape /\ mev_tx[th] \subseteq Txs
  BY IncomingAssumption, SMTT(60) DEF KeptInv, TypeInv, ThreadTypes
<1>1. UNCHANGED <<ledger, status_cache>>
  BY SMTT(60) DEF process_normal_batch, process_mev_batch, commitVars
<1>2. pc'[th] = "Check" /\ pc[th] \notin InBatch
  BY <1>0, SMTT(60) DEF Shape, OnThreads, Goto, process_normal_batch, process_mev_batch, InBatch,
              BeforeRecord, AfterRecord
<1>3. \A t \in Incoming[th] : Settled(t) \/ t \in buffer[th] \cup pending[th] \cup retryable[th]
  BY <1>0, <1>2 DEF PacketPlaces
<1>4. \A t : Settled(t) => Settled(t)'
  BY <1>1, SameBlock, SMTT(60)
<1>5. CASE process_normal_batch(th)
  <2>1. PICK txs \in ScannedBatches(th), dropped \in SUBSET (pending[th] \ Sanitizable) :
            /\ LockBatch(th, txs)
            /\ pending' = [pending EXCEPT ![th] =
                   @ \ (dropped \cup {txs[i] : i \in 1..Len(txs)})]
    BY <1>5, ZenonT(60) DEF process_normal_batch
  <2>2. /\ batch'[th] = txs /\ DOMAIN txs = 1..Len(txs)
        /\ \A i \in DOMAIN txs : lock_results'[th][i] \in
               {"Ok", "AccountInUse", SanitizeResult[txs[i]]} \cup QosResults
    BY <1>0, <2>1, LockedBatch, ZenonT(60) DEF ScannedBatches, Shape
  <2>3. /\ batch_type'[th] = "Normal" /\ retryable'[th] = {} /\ buffer'[th] = buffer[th]
        /\ retryable[th] = {}
        /\ pending'[th] = pending[th] \ (dropped \cup {txs[i] : i \in 1..Len(txs)})
    BY <1>0, <1>2, <1>5, <2>1, SMTT(60) DEF Shape, OnThreads, Goto, process_normal_batch, PacketPlaces
  <2>4. \A t \in dropped : Settled(t)
    BY SMTT(60) DEF Settled, Droppable
  <2>5. PacketPlaces(th)'
    BY <1>2, <1>3, <1>4, <2>2, <2>3, <2>4, ZenonT(60) DEF PacketPlaces, InBatch, BeforeRecord
  <2>6. BatchReasons(th)'
    BY <1>2, <2>2, <2>3, SMTT(60) DEF BatchReasons, Checked, AfterRecord
  <2> QED  BY <1>1, <2>5, <2>6, SameBlock, KeptThread, ZenonT(60) DEF ThreadStep
<1>6. CASE process_mev_batch(th)
  <2>1. PICK m \in mev_tx[th] : LockBatch(th, <<m>>)
    BY <1>6 DEF process_mev_batch
  <2>2. <<m>> \in Batches
    <3>1. m \in Txs /\ 1 \in 1..MaxBatch
      BY <1>0, BatchAssumption, SMTT(60)
    <3>2. <<m>> \in [1..1 -> Txs]
      BY <3>1, SMTT(60)
    <3> QED  BY <3>1, <3>2, SMTT(60) DEF Batches
  <2>3. /\ batch'[th] = <<m>>
        /\ \A i \in DOMAIN <<m>> : lock_results'[th][i] \in
               {"Ok", "AccountInUse", SanitizeResult[<<m>>[i]]} \cup QosResults
    BY <1>0, <2>1, <2>2, LockedBatch, ZenonT(60) DEF Shape
  <2>4. batch_type'[th] = "Mev" /\ UNCHANGED packetVars
    BY <1>0, <1>6, SMTT(60) DEF Shape, OnThreads, process_mev_batch
  <2>5. PacketPlaces(th)'
    <3>1. /\ pc'[th] \in InBatch /\ pc'[th] \notin {"Idle", "MevBatch", "Filter"}
          /\ pc[th] \notin InBatch
      BY <1>2, SMTT(60) DEF InBatch, BeforeRecord, AfterRecord
    <3> QED  BY <1>3, <1>4, <2>4, <3>1 DEF PacketPlaces, packetVars
  <2>6. DOMAIN batch'[th] = {1}
    BY <2>3, SMTT(60)
  <2>7. BatchReasons(th)'
    BY <1>2, <2>3, <2>6, SMTT(60) DEF BatchReasons, Checked, AfterRecord
  <2> QED  BY <1>1, <2>5, <2>7, SameBlock, KeptThread DEF ThreadStep
<1> QED  BY <1>5, <1>6, SMTT(60)

\* A step inside a batch moves no packet.
LEMMA PlacesInBatch ==
  ASSUME NEW th \in Threads, PacketPlaces(th), pc[th] \in InBatch, pc'[th] \in InBatch,
         UNCHANGED <<batchVars, packetVars, batch_type>>, \A t : Settled(t) => Settled(t)'
  PROVE  PacketPlaces(th)'
<1>1. pc[th] \notin {"MevBatch", "Filter", "Idle"} /\ pc'[th] \notin {"MevBatch", "Filter", "Idle"}
  BY DEF InBatch, BeforeRecord, AfterRecord
<1> QED  BY <1>1, ZenonT(60) DEF PacketPlaces, batchVars, packetVars

LEMMA PacketsKeptExecuting ==
  ASSUME NEW th \in Threads, KeptInv, check_transactions(th) \/ load_and_execute_transactions(th)
  PROVE  KeptInv'
<1>0. /\ PacketPlaces(th) /\ BatchReasons(th) /\ Shape /\ ResultTypes(th)
      /\ \A t \in status_cache : InLedger(t)
  BY SMTT(60) DEF KeptInv, TypeInv
<1>1. UNCHANGED <<ledger, status_cache>>
  BY DEF check_transactions, load_and_execute_transactions, commitVars
<1>2. \A t : Settled(t) => Settled(t)'
  BY <1>1, SameBlock, SMTT(60)
<1>3. /\ pc[th] \in {"Check", "Load"} /\ pc'[th] \in {"Load", "FreezeLock"}
      /\ UNCHANGED <<batchVars, packetVars, batch_type>>
  BY <1>0, SMTT(60) DEF Shape, OnThreads, Goto, check_transactions, load_and_execute_transactions, mevVars
<1>4. PacketPlaces(th)'
  BY <1>0, <1>2, <1>3, PlacesInBatch, ZenonT(60) DEF InBatch, BeforeRecord
<1>5. \A i \in DOMAIN batch[th] :
          lock_results[th][i] = "Ok" /\ execution_results'[th][i] = "NotExecuted" =>
              Settled(batch[th][i])
  <2>1. CASE check_transactions(th)
    BY <1>0, <2>1, SMTT(60) DEF Shape, OnThreads, check_transactions, Indexes, Granted, Settled
  <2>2. CASE load_and_execute_transactions(th)
    <3> SUFFICES ASSUME NEW i \in DOMAIN batch[th], lock_results[th][i] = "Ok",
                        execution_results'[th][i] = "NotExecuted"
                 PROVE  Settled(batch[th][i])
      BY ZenonT(60)
    <3>1. PICK results \in [Indexes(th) -> ExecutionResults] :
              /\ \A j \in Indexes(th) : execution_results[th][j] = "Loading" =>
                     results[j] \in Outcomes[batch[th][j]]
              /\ execution_results' = [execution_results EXCEPT ![th] = results]
      BY <2>2 DEF load_and_execute_transactions
    <3>2. results[i] = "NotExecuted"
      BY <1>0, <3>1, SMTT(60) DEF Shape, OnThreads
    <3>3. pc[th] = "Load" /\ pc[th] \in Checked
      BY <2>2, ZenonT(60) DEF load_and_execute_transactions, Goto, Checked, InBatch, BeforeRecord
    <3>4. execution_results[th][i] = "Loading" \/ execution_results[th][i] = "NotExecuted"
      BY <1>0, <3>3, ZenonT(60) DEF BatchReasons
    <3>5. CASE execution_results[th][i] = "Loading"
      BY <3>1, <3>2, <3>5, ZenonT(60) DEF Indexes, Settled, Droppable
    <3>6. CASE execution_results[th][i] = "NotExecuted"
      BY <1>0, <3>3, <3>6 DEF BatchReasons
    <3> QED  BY <3>4, <3>5, <3>6, ZenonT(60)
  <2> QED  BY <2>1, <2>2, ZenonT(60)
<1>6. pc'[th] = "Load" => \A i \in DOMAIN batch[th] :
          execution_results'[th][i] \in {"Loading", "NotExecuted"}
  BY <1>0, ZenonT(40) DEF Shape, OnThreads, Goto, check_transactions, load_and_execute_transactions, Indexes
<1>7. BatchReasons(th)'
  BY <1>0, <1>2, <1>3, <1>5, <1>6 DEF BatchReasons, Checked, InBatch, BeforeRecord, AfterRecord,
                                     batchVars
<1> QED  BY <1>1, <1>4, <1>7, SameBlock, KeptThread, SMTT(60) DEF ThreadStep

\* The steps after the record that leave the block and the cache alone.
LEMMA PacketsKeptQuiet ==
  ASSUME NEW th \in Threads, KeptInv,
         \/ freeze_lock(th) \/ drop_freeze_lock(th) \/ store_cached(th)
         \/ filter_program_errors_and_collect_fee(th)
  PROVE  KeptInv'
<1>0. PacketPlaces(th) /\ BatchReasons(th) /\ Shape
  BY DEF KeptInv, TypeInv
<1>1. UNCHANGED <<ledger, status_cache, batchVars, packetVars, resultVars, mevVars>>
  BY DEF freeze_lock, drop_freeze_lock, store_cached, filter_program_errors_and_collect_fee
<1>2. (\A t : Settled(t) => Settled(t)') /\ \A t : InLedger(t)' <=> InLedger(t)
  BY <1>1, SameBlock, SMTT(60)
<1>3. /\ pc[th] \in Checked /\ pc'[th] \in Checked /\ pc'[th] # "Load"
      /\ pc'[th] \in AfterRecord => pc[th] \in AfterRecord
      /\ pc'[th] \in {"Store", "Statuses"} => pc[th] = "Store"
  BY <1>0, SMTT(60) DEF Shape, OnThreads, Goto, freeze_lock, drop_freeze_lock, store_cached,
              filter_program_errors_and_collect_fee, Checked, InBatch, BeforeRecord, AfterRecord
<1>4. PacketPlaces(th)'
  BY <1>0, <1>1, <1>2, <1>3, PlacesInBatch, ZenonT(60) DEF Checked, mevVars
<1>5. Executed(th)' = Executed(th) /\ Processed(th)' = Processed(th)
  BY <1>1, ZenonT(60) DEF resultVars, mevVars, Executed, Processed
<1>6. BatchReasons(th)'
  BY <1>0, <1>1, <1>2, <1>3, <1>5 DEF BatchReasons, Checked, batchVars, resultVars, mevVars
<1> QED  BY <1>1, <1>4, <1>6, SameBlock, KeptThread DEF ThreadStep

LEMMA PacketsKeptRecording ==
  ASSUME NEW th \in Threads, KeptInv, record_transactions(th)
  PROVE  KeptInv'
<1>0. /\ PacketPlaces(th) /\ BatchReasons(th) /\ Shape /\ TypeInv /\ ResultTypes(th)
      /\ \A t \in status_cache : InLedger(t)
  BY SMTT(60) DEF KeptInv, TypeInv
<1>1. UNCHANGED <<status_cache, batchVars, packetVars, mevVars, view, execution_results>>
  BY DEF record_transactions, record_nothing, record_entry, record_max_height, commitVars
<1>2. \A t : InLedger(t) => InLedger(t)'
  BY <1>0, LedgerGrows, SMTT(60) DEF ThreadStep
<1>3. \A t : Settled(t) => Settled(t)'
  BY <1>2, SMTT(60) DEF Settled, Droppable
<1>4. /\ pc[th] = "Record" /\ pc'[th] \in {"Store", "Drop"}
      /\ commit_result'[th] \in {"Ok", "MaxHeightReached"}
  BY <1>0, SMTT(60) DEF Shape, OnThreads, Goto, record_transactions, record_nothing, record_entry,
              record_max_height
<1>5. PacketPlaces(th)'
  BY <1>0, <1>1, <1>3, <1>4, PlacesInBatch, ZenonT(60) DEF InBatch, BeforeRecord, AfterRecord, mevVars
<1>6. Executed(th)' = Executed(th) /\ Processed(th)' = Processed(th)
  BY <1>1, SMTT(60) DEF mevVars, Executed, Processed
<1>7. commit_result'[th] = "Ok" => \A i \in Processed(th) : InLedger(batch[th][i])'
  <2>1. CASE record_nothing(th)
    BY <2>1, SMTT(60) DEF record_nothing
  <2>2. CASE record_max_height(th)
    BY <1>0, <2>2, SMTT(60) DEF record_max_height, Shape, OnThreads
  <2>3. CASE record_entry(th)
    <3>1. LET r == Append(ledger, Entry(th)) IN
          /\ Len(ledger) \in Nat /\ DOMAIN ledger = 1..Len(ledger)
          /\ DOMAIN r = 1..(Len(ledger) + 1)
          /\ r[Len(ledger) + 1] = Entry(th)
      <4>1. LedgerTypes
        BY <1>0 DEF TypeInv
      <4> QED  BY <4>1, AppendEntry, Zenon DEF LedgerTypes
    <3>2. /\ Len(ledger) \in Nat /\ DOMAIN ledger' = 1..(Len(ledger) + 1)
          /\ ledger'[Len(ledger) + 1] = Entry(th)
      BY <2>3, <3>1, Zenon DEF record_entry
    <3>3. Len(ledger) + 1 \in DOMAIN ledger'
      BY <3>2, SMTT(60)
    <3>4. \A i \in Processed(th) : \E e \in Entry(th) : e.tx = batch[th][i]
      <4> TAKE i \in Processed(th)
      <4> DEFINE e == [tx |-> batch[th][i], result |-> execution_results[th][i],
                       view |-> [a \in MessageKeys(batch[th][i]) |-> view[th][a]]]
      <4>1. e.tx = batch[th][i]
        OBVIOUS
      <4>2. e \in Entry(th)
        BY Zenon DEF Entry
      <4> HIDE DEF e
      <4> QED  BY <4>1, <4>2, SMTT(60)
    <3>5. \A i \in Processed(th) : \E n \in DOMAIN ledger' : \E e \in ledger'[n] : e.tx = batch[th][i]
      BY <3>2, <3>3, <3>4, Zenon
    <3>6. UNCHANGED batch
      BY <1>1, SMTT(60) DEF batchVars
    <3> QED  BY <3>5, <3>6 DEF InLedger
  <2> QED  BY <2>1, <2>2, <2>3, SMTT(60) DEF record_transactions
<1>8. pc'[th] = "Store" => \A i \in Executed(th) : InLedger(batch[th][i])'
  <2> SUFFICES ASSUME pc'[th] = "Store" PROVE \A i \in Executed(th) : InLedger(batch[th][i])'
    BY SMTT(60)
  <2>1. commit_result'[th] = "Ok" /\ Processed(th) # {}
    BY <1>0 DEF Shape, OnThreads, Goto, record_transactions, record_nothing, record_entry,
                record_max_height
  <2>2. Executed(th) \subseteq Processed(th)
    <3>1. CASE batch_type[th] = "Mev"
      <4>1. DOMAIN execution_results[th] = {1}
        BY <1>0, <1>4, <3>1, ZenonT(60) DEF BatchReasons, ResultTypes, Checked, InBatch, BeforeRecord
      <4> QED  BY <2>1, <4>1, SMTT(60) DEF Executed, Processed
    <3>2. CASE batch_type[th] # "Mev"
      BY <3>2 DEF Processed
    <3> QED  BY <3>1, <3>2, SMTT(60)
  <2> QED  BY <1>7, <2>1, <2>2, SMTT(60)
<1>9. pc[th] \in InBatch /\ pc[th] \in Checked
  BY <1>4 DEF Checked, InBatch, BeforeRecord
<1>10. UNCHANGED <<batch, lock_results, batch_type, execution_results>>
  BY <1>1, SMTT(60) DEF batchVars, mevVars
<1>11. BatchReasons(th)'
  BY <1>0, <1>3, <1>4, <1>6, <1>7, <1>8, <1>9, <1>10, ZenonT(60) DEF BatchReasons
<1> QED  BY <1>0, <1>1, <1>2, <1>5, <1>11, KeptThread DEF ThreadStep

LEMMA PacketsKeptStatuses ==
  ASSUME NEW th \in Threads, KeptInv, update_transaction_statuses(th)
  PROVE  KeptInv'
<1>0. /\ PacketPlaces(th) /\ BatchReasons(th) /\ Shape
      /\ \A t \in status_cache : InLedger(t)
  BY SMTT(60) DEF KeptInv, TypeInv
<1>1. /\ UNCHANGED <<ledger, batchVars, packetVars, resultVars, mevVars>>
      /\ pc[th] = "Statuses" /\ pc'[th] = "Fees"
  BY <1>0, SMTT(60) DEF Shape, OnThreads, Goto, update_transaction_statuses
<1>2. (\A t : InLedger(t)' <=> InLedger(t)) /\ \A t : Settled(t) => Settled(t)'
  BY <1>1, ZenonT(60) DEF InLedger, Settled, Droppable
<1>3. PacketPlaces(th)'
  BY <1>0, <1>1, <1>2, PlacesInBatch, ZenonT(60) DEF InBatch, AfterRecord, mevVars
<1>4. Executed(th)' = Executed(th) /\ Processed(th)' = Processed(th)
  BY <1>1, ZenonT(60) DEF resultVars, mevVars, Executed, Processed
<1>5. pc[th] \in AfterRecord /\ pc[th] \in InBatch /\ pc[th] \in Checked
  BY <1>1, ZenonT(60) DEF Checked, InBatch, AfterRecord
<1>6. BatchReasons(th)'
  BY <1>0, <1>1, <1>2, <1>4, <1>5, ZenonT(60) DEF BatchReasons, batchVars, resultVars, mevVars
<1>7. \A t \in status_cache' : InLedger(t)'
  BY <1>0, <1>1, <1>2, ZenonT(60) DEF update_transaction_statuses, BatchReasons
<1> QED  BY <1>3, <1>6, <1>7, KeptThread DEF ThreadStep

\* When a batch ends, each of its packets is in the block, may be dropped, or
\* is retryable.
LEMMA BatchSettled ==
  ASSUME NEW th \in Threads, KeptInv, pc[th] = "Unlock", batch_type[th] = "Normal",
         NEW i \in DOMAIN batch[th]
  PROVE  Settled(batch[th][i]) \/ i \in RetryableIndexes(th)
<1>0. /\ BatchReasons(th) /\ ResultTypes(th)
      /\ commit_result[th] \in {"None", "Ok", "MaxHeightReached"}
  BY ZenonT(60) DEF KeptInv, TypeInv, ThreadTypes
<1>1. pc[th] \in InBatch /\ pc[th] \in Checked /\ pc[th] \in AfterRecord
  BY SMTT(60) DEF Checked, InBatch, AfterRecord
<1>2. lock_results[th][i] \in {"Ok", "AccountInUse", SanitizeResult[batch[th][i]]} \cup QosResults
  BY <1>0, <1>1 DEF BatchReasons
<1>3. CASE lock_results[th][i] = "Ok"
  <2>1. CASE execution_results[th][i] = "NotExecuted"
    BY <1>0, <1>1, <1>3, <2>1, ZenonT(60) DEF BatchReasons
  <2>2. CASE execution_results[th][i] # "NotExecuted"
    <3>1. i \in Processed(th)
      BY <1>0, <1>1, <2>2, ZenonT(60) DEF ResultTypes, Executed, Processed
    <3>2. CASE commit_result[th] = "Ok"
      BY <1>0, <1>1, <3>1, <3>2, ZenonT(60) DEF BatchReasons, Settled
    <3>3. CASE commit_result[th] = "MaxHeightReached"
      BY <3>1, <3>3, ZenonT(60) DEF RetryableIndexes, Indexes
    <3> QED  BY <1>0, <1>1, <3>2, <3>3, ZenonT(60) DEF BatchReasons
  <2> QED  BY <2>1, <2>2, SMTT(60)
<1>4. CASE lock_results[th][i] \in RetryableErrors
  BY <1>4, ZenonT(60) DEF RetryableIndexes, Indexes
<1>5. CASE lock_results[th][i] = SanitizeResult[batch[th][i]] /\ lock_results[th][i] # "Ok"
  BY <1>5, SMTT(60) DEF Settled, Droppable
<1>6. CASE lock_results[th][i] \in QosResults \ ({"Ok"} \cup RetryableErrors)
  <2>1. lock_results[th][i] = "WouldExceedAccountDataTotalLimit"
    BY <1>6, KeysAssumption DEF RetryableErrors
  <2> QED  BY <1>6, <2>1, SMTT(60) DEF Settled, Droppable
<1> QED  BY <1>2, <1>3, <1>4, <1>5, <1>6, ZenonT(60) DEF RetryableErrors

LEMMA PacketsKeptUnlock ==
  ASSUME NEW th \in Threads, KeptInv, unlock_accounts(th)
  PROVE  KeptInv'
<1>0. PacketPlaces(th) /\ Shape
  BY DEF KeptInv, TypeInv
<1>1. UNCHANGED <<ledger, status_cache, buffer, pending>>
  BY DEF unlock_accounts, commitVars
<1>2. \A t : Settled(t) => Settled(t)'
  BY <1>1, SameBlock, SMTT(60)
<1>3. pc[th] = "Unlock" /\ pc'[th] \in {"MevBatch", "Filter"}
  BY <1>0, SMTT(60) DEF Shape, OnThreads, Goto, unlock_accounts
<1>4. BatchReasons(th)'
  BY <1>3, SMTT(60) DEF BatchReasons, Checked, InBatch, BeforeRecord, AfterRecord
<1>5. ASSUME NEW t \in Incoming[th]
      PROVE  Settled(t)' \/ t \in buffer'[th] \cup pending'[th] \cup retryable'[th]
  <2>1. CASE batch_type[th] = "Normal"
    <3>1. retryable[th] = {} /\ retryable'[th] = {batch[th][i] : i \in RetryableIndexes(th)}
      BY <1>0, <1>3, <2>1, SMTT(60) DEF PacketPlaces, Shape, OnThreads, unlock_accounts
    <3>2. \A i \in DOMAIN batch[th] : Settled(batch[th][i]) \/ i \in RetryableIndexes(th)
      BY <1>3, <2>1, BatchSettled, SMTT(60)
    <3>3. \/ Settled(t) \/ t \in buffer[th] \cup pending[th]
          \/ \E i \in DOMAIN batch[th] : batch[th][i] = t
      BY <1>0, <1>5, <3>1, SMTT(60) DEF PacketPlaces
    <3> QED  BY <1>1, <1>2, <3>1, <3>2, <3>3, SMTT(60)
  <2>2. CASE batch_type[th] # "Normal"
    BY <1>0, <1>1, <1>2, <1>5, <2>2, SMTT(60) DEF PacketPlaces, unlock_accounts
  <2> QED  BY <2>1, <2>2, SMTT(60)
<1>6. PacketPlaces(th)'
  BY <1>3, <1>5 DEF PacketPlaces
<1> QED  BY <1>1, <1>4, <1>6, SameBlock, KeptThread DEF ThreadStep

LEMMA KeptStep == KeptInv /\ [BankingNext]_vars => KeptInv'
<1> SUFFICES ASSUME KeptInv, [BankingNext]_vars PROVE KeptInv'
  OBVIOUS
<1>1. ASSUME NEW th \in Threads, ThreadStep(th) PROVE KeptInv'
  BY <1>1, PacketsKeptOutside, PacketsKeptLocking, PacketsKeptExecuting, PacketsKeptQuiet,
     PacketsKeptRecording, PacketsKeptStatuses, PacketsKeptUnlock, SMTT(60)
  DEF ThreadStep
<1>2. ASSUME UNCHANGED <<ledger, status_cache>>, \A x \in Threads : SameThread(x)
      PROVE  KeptInv'
  <2>1. TypeInv'
    BY TypeStep DEF KeptInv
  <2>2. (\A t : InLedger(t)' <=> InLedger(t)) /\ \A t \in status_cache' : InLedger(t)'
    BY <1>2, SameBlock
  <2>3. \A x \in Threads : PacketPlaces(x)' /\ BatchReasons(x)'
    BY <1>2, <2>2, SameThreadKept, SMTT(60) DEF KeptInv
  <2> QED  BY <2>1, <2>2, <2>3 DEF KeptInv
<1>3. CASE BankStep
  BY <1>2, <1>3, BankStepTypes DEF KeptInv
<1>4. CASE UNCHANGED vars
  <2>1. UNCHANGED <<ledger, status_cache>> /\ \A x \in Threads : SameThread(x)
    BY <1>4, SMTT(60) DEF SameThread, vars, commitVars, batchVars, packetVars, resultVars, mevVars
  <2> QED  BY <1>2, <2>1, SMTT(60)
<1> QED  BY <1>1, <1>3, <1>4 DEF BankingNext, BankStep

LEMMA KeptFollows == KeptInv => NothingLost
<1> SUFFICES ASSUME KeptInv PROVE NothingLost
  OBVIOUS
<1>1. TypeOK
  BY TypesFollow, SMTT(60) DEF KeptInv
<1>2. ASSUME NEW th \in Threads, NEW t \in Incoming[th]
      PROVE  \/ Droppable(t) \/ InLedger(t)
             \/ t \in buffer[th] \cup pending[th] \cup retryable[th]
             \/ \E i \in DOMAIN batch[th] : batch[th][i] = t
  BY <1>2 DEF KeptInv, PacketPlaces, Settled
<1> QED  BY <1>1, <1>2 DEF NothingLost

\* No thread loses a packet it received, through refused locks, cost limits, a
\* record that comes after the last tick, the MEV batch and the end of the
\* slot: it is recorded, kept, or one the code may drop.
THEOREM PacketsKept == BankingSpec => []NothingLost
<1>1. KeptInv /\ [BankingNext]_vars => KeptInv'
  BY KeptStep
<1> QED  BY KeptInit, <1>1, KeptFollows, PTL DEF BankingSpec

----------------------------------------------------------------------------
(* The block replays one entry after the other.                            *)

\* Transactions that are in flight together share no account one of them writes.
LocksApart ==
    \A x, y \in Threads : \A i \in Granted(x), j \in Granted(y) :
        x # y \/ i # j => ~Conflict(batch[x][i], batch[y][j])

\* Recorded, and the status cache does not know it yet.
Uncached(t) ==
    \E x \in Threads : /\ pc[x] \in {"Store", "Statuses"}
                       /\ \E i \in Executed(x) : batch[x][i] = t

Covered == \A t \in Txs : InLedger(t) => t \in status_cache \/ Uncached(t)

\* What a thread executes it holds the locks of, no block has it before the
\* thread records it, and what the thread read is still what is stored.
SeqThread(th) ==
    /\ pc[th] \in Checked => Executed(th) \subseteq Granted(th)
    /\ pc[th] \in {"Load", "FreezeLock", "Record"} =>
           \A i \in Executed(th) : ~InLedger(batch[th][i])
    /\ pc[th] \in {"FreezeLock", "Record", "Store"} =>
           \A i \in Executed(th) : \A a \in MessageKeys(batch[th][i]) : view[th][a] = store[a]

HashInv ==
    /\ freeze_writer => bank_hash = {}
    /\ bank_hash # {} => freeze_started

SeqInv ==
    /\ KeptInv /\ FreezeInv /\ HashInv
    /\ LocksApart /\ Covered
    /\ \A th \in Threads : SeqThread(th)

LEMMA KeysConflict ==
  ASSUME NEW t \in Txs, NEW u \in Txs, NEW a, a \in Writable[t], a \in MessageKeys(u)
  PROVE  Conflict(t, u) /\ Conflict(u, t)
<1>1. a \in WriteKeys(t)
  BY DEF WriteKeys
<1>2. a \in WriteKeys(u) \cup ReadKeys(u)
  BY DEF MessageKeys, WriteKeys, ReadKeys
<1> QED  BY <1>1, <1>2 DEF Conflict

LEMMA ConflictSymmetric ==
  ASSUME NEW t, NEW u, Conflict(t, u)
  PROVE  Conflict(u, t)
BY DEF Conflict

LEMMA SelfConflict == \A t \in Txs : Conflict(t, t)
<1> TAKE t \in Txs
<1>1. Payer[t] \in Writable[t]
  BY PayerAssumption
<1>2. Payer[t] \in MessageKeys(t)
  BY <1>1 DEF MessageKeys
<1> QED  BY <1>1, <1>2, KeysConflict

\* Commits write only what the message may write, and the store and the fee
\* of one transaction never the same account.
LEMMA WritesWritable ==
  ASSUME NEW t \in Txs, NEW result
  PROVE  /\ StoredAccounts(t, result) \subseteq Writable[t]
         /\ FeeAccounts(t, result) \subseteq Writable[t]
         /\ CommittedWrites(t, result) \subseteq Writable[t]
         /\ StoredAccounts(t, result) = {} \/ FeeAccounts(t, result) = {}
         /\ Writable[t] \subseteq MessageKeys(t)
<1>1. Payer[t] \in Writable[t] /\ NonceAccount[t] \subseteq Writable[t]
  BY PayerAssumption
<1>2. StoredAccounts(t, result) \subseteq Writable[t]
  <2>1. CASE result = "Ok"
    BY <2>1 DEF StoredAccounts
  <2>2. CASE result = "Err" /\ NonceAccount[t] # {}
    BY <1>1, <2>2 DEF StoredAccounts
  <2>3. CASE ~(result = "Ok") /\ ~(result = "Err" /\ NonceAccount[t] # {})
    BY <2>3 DEF StoredAccounts
  <2> QED  BY <2>1, <2>2, <2>3
<1>3. FeeAccounts(t, result) \subseteq Writable[t]
  BY <1>1 DEF FeeAccounts
<1>4. StoredAccounts(t, result) = {} \/ FeeAccounts(t, result) = {}
  <2>1. CASE result = "Err" /\ NonceAccount[t] = {}
    BY <2>1 DEF StoredAccounts
  <2>2. CASE ~(result = "Err" /\ NonceAccount[t] = {})
    BY <2>2 DEF FeeAccounts
  <2> QED  BY <2>1, <2>2
<1> QED  BY <1>2, <1>3, <1>4 DEF CommittedWrites, MessageKeys

LEMMA ExecutedTxs ==
  ASSUME KeptInv, NEW th \in Threads, pc[th] \in Checked, NEW i \in Executed(th)
  PROVE  i \in DOMAIN batch[th] /\ batch[th][i] \in Txs
<1>1. ThreadTypes(th) /\ ResultTypes(th)
  BY DEF KeptInv, TypeInv
<1>2. i \in DOMAIN batch[th]
  BY <1>1 DEF ResultTypes, Executed
<1>3. batch[th] \in Batches \cup {<<>>}
  BY <1>1 DEF ThreadTypes
<1> QED  BY <1>2, <1>3, BatchTxs

\* Two executed transactions that share an account one of them writes are one.
LEMMA OneWriter ==
  ASSUME SeqInv, NEW x \in Threads, NEW y \in Threads, pc[x] \in Checked, pc[y] \in Checked,
         NEW i \in Executed(x), NEW j \in Executed(y),
         NEW a, a \in Writable[batch[x][i]], a \in MessageKeys(batch[y][j])
  PROVE  x = y /\ i = j
<1>1. batch[x][i] \in Txs /\ batch[y][j] \in Txs
  BY ExecutedTxs DEF SeqInv
<1>2. Conflict(batch[x][i], batch[y][j])
  BY <1>1, KeysConflict
<1>3. i \in Granted(x) /\ j \in Granted(y)
  BY DEF SeqInv, SeqThread
<1>4. LocksApart
  BY DEF SeqInv
<1> QED  BY <1>2, <1>3, <1>4 DEF LocksApart

\* An account of a running transaction has no writes under way, except its own.
LEMMA NoneUnstored ==
  ASSUME SeqInv, NEW th \in Threads, pc[th] \in Checked, NEW i \in Executed(th),
         NEW a \in MessageKeys(batch[th][i]), NEW x \in Threads \ {th}
  PROVE  UnstoredWriters(x, a) = {}
<1>1. SUFFICES ASSUME UnstoredWriters(x, a) # {} PROVE FALSE
  OBVIOUS
<1>2. pc[x] \in {"Store", "Statuses", "Fees"}
  BY <1>1 DEF UnstoredWriters
<1>3. pc[x] \in Checked
  BY <1>2 DEF Checked, InBatch, AfterRecord
<1>4. UnstoredWriters(x, a) \subseteq StoreWriters(x, a) \cup FeeWriters(x, a)
  <2>1. CASE pc[x] = "Store"
    BY <2>1 DEF UnstoredWriters
  <2>2. CASE pc[x] \in {"Statuses", "Fees"}
    BY <2>2 DEF UnstoredWriters
  <2> QED  BY <1>2, <2>1, <2>2
<1>5. PICK j \in Executed(x) : a \in StoredAccounts(batch[x][j], execution_results[x][j])
                                     \/ a \in FeeAccounts(batch[x][j], execution_results[x][j])
  BY <1>1, <1>4 DEF StoreWriters, FeeWriters
<1>6. batch[x][j] \in Txs
  BY <1>3, ExecutedTxs DEF SeqInv
<1>7. a \in Writable[batch[x][j]]
  BY <1>5, <1>6, WritesWritable
<1> QED  BY <1>3, <1>7, OneWriter

-----------------------------------------------------------------------------
(* The accounts after the last recorded entry.                             *)

LEMMA UnstoredAt ==
  ASSUME NEW th, NEW a
  PROVE  /\ pc[th] = "Store" => UnstoredWriters(th, a) = StoreWriters(th, a) \cup FeeWriters(th, a)
         /\ pc[th] \in {"Statuses", "Fees"} => UnstoredWriters(th, a) = FeeWriters(th, a)
         /\ ~Committing(th) => UnstoredWriters(th, a) = {}
<1>1. CASE pc[th] = "Store"
  BY <1>1, Zenon DEF UnstoredWriters, Committing
<1>2. CASE pc[th] \in {"Statuses", "Fees"}
  BY <1>2 DEF UnstoredWriters, Committing
<1>3. CASE ~Committing(th)
  BY <1>3 DEF UnstoredWriters, Committing
<1> QED  BY <1>1, <1>2, <1>3 DEF Committing

LEMMA UnstoredAfter ==
  ASSUME NEW th, NEW a
  PROVE  /\ pc'[th] = "Store" => UnstoredWriters(th, a)' = (StoreWriters(th, a) \cup FeeWriters(th, a))'
         /\ pc'[th] \in {"Statuses", "Fees"} => UnstoredWriters(th, a)' = FeeWriters(th, a)'
         /\ pc'[th] \notin {"Store", "Statuses", "Fees"} => UnstoredWriters(th, a)' = {}
<1>1. CASE pc'[th] = "Store"
  BY <1>1, Zenon DEF UnstoredWriters
<1>2. CASE pc'[th] \in {"Statuses", "Fees"}
  BY <1>2 DEF UnstoredWriters
<1>3. CASE pc'[th] \notin {"Store", "Statuses", "Fees"}
  BY <1>3 DEF UnstoredWriters
<1> QED  BY <1>1, <1>2, <1>3

LEMMA SameThreadSeq ==
  ASSUME NEW x, SameThread(x)
  PROVE  /\ Executed(x)' = Executed(x) /\ Granted(x)' = Granted(x)
         /\ \A a : UnstoredWriters(x, a)' = UnstoredWriters(x, a)
<1>1. Executed(x)' = Executed(x) /\ Granted(x)' = Granted(x)
  BY DEF SameThread, Executed, Granted
<1>2. ASSUME NEW a PROVE UnstoredWriters(x, a)' = UnstoredWriters(x, a)
  <2>1. StoreWriters(x, a)' = StoreWriters(x, a) /\ FeeWriters(x, a)' = FeeWriters(x, a)
    BY <1>1 DEF SameThread, StoreWriters, FeeWriters
  <2>2. pc'[x] = pc[x]
    BY DEF SameThread
  <2> QED  BY <2>1, <2>2, UnstoredAt, UnstoredAfter DEF Committing
<1> QED  BY <1>1, <1>2

\* The writes under way to an account, and what they leave there.
Unstored(a) == UNION {UnstoredWriters(th, a) : th \in Threads}

LEMMA LedgerValue ==
  ASSUME NEW a \in Accounts
  PROVE  /\ LedgerState[a] = IF Unstored(a) = {} THEN store[a]
                             ELSE Append(store[a], CHOOSE t \in Unstored(a) : TRUE)
         /\ LedgerState'[a] = IF Unstored(a)' = {} THEN store'[a]
                              ELSE Append(store'[a], CHOOSE t \in Unstored(a)' : TRUE)
BY Zenon DEF LedgerState, Unstored

LEMMA LedgerStateIs ==
  /\ LedgerState = [a \in Accounts |-> LedgerState[a]]
  /\ LedgerState' = [a \in Accounts |-> LedgerState'[a]]
<1>1. LedgerState = [a \in Accounts |-> LedgerState[a]]
  <2> DEFINE F(a) == LET unstored == UNION {UnstoredWriters(th, a) : th \in Threads}
                     IN  IF unstored = {} THEN store[a] ELSE Append(store[a], CHOOSE t \in unstored : TRUE)
  <2>1. LedgerState = [a \in Accounts |-> F(a)]
    BY Zenon DEF LedgerState
  <2> HIDE DEF F
  <2> QED  BY <2>1
<1>2. LedgerState' = [a \in Accounts |-> LedgerState'[a]]
  <2> DEFINE F(a) == LET unstored == UNION {UnstoredWriters(th, a)' : th \in Threads}
                     IN  IF unstored = {} THEN store'[a] ELSE Append(store'[a], CHOOSE t \in unstored : TRUE)
  <2>1. LedgerState' = [a \in Accounts |-> F(a)]
    BY Zenon DEF LedgerState
  <2> HIDE DEF F
  <2> QED  BY <2>1
<1> QED  BY <1>1, <1>2

\* Other threads have no writes under way to a: the writes are those of th.
LEMMA OnlyUnstored ==
  ASSUME NEW th \in Threads, NEW a, \A x \in Threads \ {th} : UnstoredWriters(x, a) = {}
  PROVE  Unstored(a) = UnstoredWriters(th, a)
BY DEF Unstored

LEMMA OnlyUnstoredAfter ==
  ASSUME NEW th \in Threads, NEW a, \A x \in Threads \ {th} : UnstoredWriters(x, a)' = {}
  PROVE  Unstored(a)' = UnstoredWriters(th, a)'
BY DEF Unstored

LEMMA SameUnstored ==
  ASSUME NEW a, \A x \in Threads : UnstoredWriters(x, a)' = UnstoredWriters(x, a)
  PROVE  Unstored(a)' = Unstored(a)
BY DEF Unstored

LEMMA LedgerStateKept ==
  ASSUME \A a \in Accounts : LedgerState'[a] = LedgerState[a]
  PROVE  LedgerState' = LedgerState
<1> HIDE DEF LedgerState
<1> QED  BY LedgerStateIs

\* The steps of a thread that neither record nor store.
LEMMA QuietLedger ==
  ASSUME NEW th \in Threads, TypeInv, ThreadStep(th), UNCHANGED store, ~record_entry(th), ~store_cached(th),
         ~filter_program_errors_and_collect_fee(th)
  PROVE  LedgerState' = LedgerState
<1>0. Shape /\ Shape' /\ \A x \in Threads \ {th} : SameThread(x)
  BY OwnEntries DEF TypeInv
<1>1. ASSUME NEW a PROVE UnstoredWriters(th, a)' = UnstoredWriters(th, a)
  <2>1. CASE update_transaction_statuses(th)
    <3>1. /\ pc[th] = "Statuses" /\ pc'[th] = "Fees"
          /\ UNCHANGED <<batch, execution_results>>
      BY <1>0, <2>1, Zenon DEF update_transaction_statuses, Goto, Shape, OnThreads, batchVars, resultVars
    <3>2. FeeWriters(th, a)' = FeeWriters(th, a)
      BY <3>1, Zenon DEF FeeWriters, Executed
    <3> QED  BY <3>1, <3>2, UnstoredAt, UnstoredAfter, Zenon
  <2>2. CASE ~update_transaction_statuses(th)
    <3>1. pc[th] \notin {"Store", "Statuses", "Fees"} /\ pc'[th] \notin {"Store", "Statuses", "Fees"}
      BY <1>0, <2>2, ZenonT(60)
      DEF ThreadStep, Goto, Shape, OnThreads, bank_start, process_normal_batch, process_mev_batch,
          filter_pending, finish_consume, check_transactions, load_and_execute_transactions,
          freeze_lock, record_transactions, record_nothing, record_max_height, drop_freeze_lock,
          unlock_accounts
    <3> QED  BY <3>1, UnstoredAt, UnstoredAfter, Zenon DEF Committing
  <2> QED  BY <2>1, <2>2, Zenon
<1>2. \A x \in Threads : \A a : UnstoredWriters(x, a)' = UnstoredWriters(x, a)
  BY <1>0, <1>1, SameThreadSeq
<1>3. ASSUME NEW a \in Accounts PROVE LedgerState'[a] = LedgerState[a]
  <2>1. Unstored(a)' = Unstored(a)
    BY <1>2, SameUnstored, Zenon
  <2> QED  BY <2>1, LedgerValue
<1> QED  BY <1>3, LedgerStateKept

\* An executed transaction that writes account a.
LEMMA Writer ==
  ASSUME KeptInv, NEW th \in Threads, pc[th] \in Checked, NEW a,
         StoreWriters(th, a) # {} \/ FeeWriters(th, a) # {}
  PROVE  \E i \in Executed(th) :
             a \in Writable[batch[th][i]] /\ a \in MessageKeys(batch[th][i])
<1>1. PICK i \in Executed(th) : a \in StoredAccounts(batch[th][i], execution_results[th][i])
                                     \/ a \in FeeAccounts(batch[th][i], execution_results[th][i])
  BY DEF StoreWriters, FeeWriters
<1>2. batch[th][i] \in Txs
  BY ExecutedTxs, Zenon
<1> QED  BY <1>1, <1>2, WritesWritable, Zenon

\* No account is both stored and charged a fee by one batch.
LEMMA StoreOrFee ==
  ASSUME SeqInv, NEW th \in Threads, pc[th] \in Checked, NEW a
  PROVE  StoreWriters(th, a) = {} \/ FeeWriters(th, a) = {}
<1> SUFFICES ASSUME StoreWriters(th, a) # {}, FeeWriters(th, a) # {} PROVE FALSE
  OBVIOUS
<1>1. PICK i \in Executed(th) : a \in StoredAccounts(batch[th][i], execution_results[th][i])
  BY DEF StoreWriters
<1>2. PICK j \in Executed(th) : a \in FeeAccounts(batch[th][j], execution_results[th][j])
  BY DEF FeeWriters
<1>3. batch[th][i] \in Txs /\ batch[th][j] \in Txs
  BY ExecutedTxs, Zenon DEF SeqInv
<1>4. a \in Writable[batch[th][i]] /\ a \in MessageKeys(batch[th][j])
  BY <1>1, <1>2, <1>3, WritesWritable, Zenon
<1>5. i = j
  BY <1>4, OneWriter
<1> QED  BY <1>1, <1>2, <1>3, <1>5, WritesWritable, Zenon

\* store_cached makes recorded writes stored ones.
LEMMA StoreLedger ==
  ASSUME NEW th \in Threads, SeqInv, store_cached(th)
  PROVE  LedgerState' = LedgerState
<1>0. Shape /\ \A x \in Threads \ {th} : SameThread(x)
  BY OwnEntries DEF SeqInv, KeptInv, TypeInv, ThreadStep
<1>1. pc[th] = "Store" /\ pc'[th] = "Statuses" /\ UNCHANGED <<batch, execution_results>>
  BY <1>0 DEF store_cached, Goto, Shape, OnThreads, batchVars, resultVars
<1>2. pc[th] \in Checked
  BY <1>1, Zenon DEF Checked, InBatch, AfterRecord
<1>3. ASSUME NEW a \in Accounts PROVE LedgerState'[a] = LedgerState[a]
  <2>1. FeeWriters(th, a)' = FeeWriters(th, a)
    BY <1>1, Zenon DEF FeeWriters, Executed
  <2>2. /\ UnstoredWriters(th, a) = StoreWriters(th, a) \cup FeeWriters(th, a)
        /\ UnstoredWriters(th, a)' = FeeWriters(th, a)
    BY <1>1, <2>1, UnstoredAt, UnstoredAfter, Zenon
  <2>3. \A x \in Threads \ {th} : UnstoredWriters(x, a)' = UnstoredWriters(x, a)
    BY <1>0, SameThreadSeq, Zenon
  <2>4. CASE StoreWriters(th, a) = {}
    <3>1. Unstored(a)' = Unstored(a)
      BY <2>2, <2>3, <2>4, SameUnstored, Zenon
    <3>2. store'[a] = store[a]
      BY <2>4 DEF store_cached
    <3> QED  BY <3>1, <3>2, LedgerValue, Zenon
  <2>5. CASE StoreWriters(th, a) # {}
    <3>1. FeeWriters(th, a) = {}
      BY <1>2, <2>5, StoreOrFee, Zenon
    <3>2. PICK i \in Executed(th) : a \in MessageKeys(batch[th][i])
      BY <1>2, <2>5, Writer, Zenon DEF SeqInv
    <3>3. \A x \in Threads \ {th} : UnstoredWriters(x, a) = {}
      BY <1>2, <3>2, NoneUnstored, Zenon
    <3>4. Unstored(a) = StoreWriters(th, a) /\ Unstored(a)' = {}
      BY <2>2, <2>3, <3>1, <3>3, OnlyUnstored, OnlyUnstoredAfter, SMTT(60)
    <3>5. view[th][a] = store[a]
      BY <1>1, <3>2 DEF SeqInv, SeqThread
    <3>6. store'[a] = Append(store[a], CHOOSE t \in StoreWriters(th, a) : TRUE)
      BY <2>5, <3>5, Zenon DEF store_cached
    <3>7. LedgerState'[a] = store'[a]
      BY <3>4, LedgerValue, Zenon
    <3>8. LedgerState[a] = Append(store[a], CHOOSE t \in StoreWriters(th, a) : TRUE)
      BY <2>5, <3>4, LedgerValue, Zenon
    <3> QED  BY <3>6, <3>7, <3>8, Zenon
  <2> QED  BY <2>4, <2>5, Zenon
<1> QED  BY <1>3, LedgerStateKept

\* The fees are withdrawn from what is stored.
LEMMA FeeLedger ==
  ASSUME NEW th \in Threads, SeqInv, filter_program_errors_and_collect_fee(th)
  PROVE  LedgerState' = LedgerState
<1>0. Shape /\ \A x \in Threads \ {th} : SameThread(x)
  BY OwnEntries DEF SeqInv, KeptInv, TypeInv, ThreadStep
<1>1. pc[th] = "Fees" /\ pc'[th] = "Drop"
  BY <1>0 DEF filter_program_errors_and_collect_fee, Goto, Shape, OnThreads
<1>2. pc[th] \in Checked
  BY <1>1 DEF Checked, InBatch, AfterRecord
<1>3. ASSUME NEW a \in Accounts PROVE LedgerState'[a] = LedgerState[a]
  <2>2. UnstoredWriters(th, a) = FeeWriters(th, a) /\ UnstoredWriters(th, a)' = {}
    BY <1>1, UnstoredAt, UnstoredAfter, Zenon
  <2>3. \A x \in Threads \ {th} : UnstoredWriters(x, a)' = UnstoredWriters(x, a)
    BY <1>0, SameThreadSeq, Zenon
  <2>4. CASE FeeWriters(th, a) = {}
    <3>1. Unstored(a)' = Unstored(a)
      BY <2>2, <2>3, <2>4, SameUnstored
    <3>2. store'[a] = store[a]
      BY <2>4 DEF filter_program_errors_and_collect_fee
    <3> QED  BY <3>1, <3>2, LedgerValue, Zenon
  <2>5. CASE FeeWriters(th, a) # {}
    <3>2. PICK i \in Executed(th) : a \in MessageKeys(batch[th][i])
      BY <1>2, <2>5, Writer, Zenon DEF SeqInv
    <3>3. \A x \in Threads \ {th} : UnstoredWriters(x, a) = {}
      BY <1>2, <3>2, NoneUnstored, Zenon
    <3>4. Unstored(a) = FeeWriters(th, a) /\ Unstored(a)' = {}
      BY <2>2, <2>3, <3>3, OnlyUnstored, OnlyUnstoredAfter, Zenon
    <3>6. store'[a] = Append(store[a], CHOOSE t \in FeeWriters(th, a) : TRUE)
      BY <2>5, Zenon DEF filter_program_errors_and_collect_fee
    <3>7. LedgerState'[a] = store'[a]
      BY <3>4, LedgerValue, Zenon
    <3>8. LedgerState[a] = Append(store[a], CHOOSE t \in FeeWriters(th, a) : TRUE)
      BY <2>5, <3>4, LedgerValue, ZenonT(60)
    <3> QED  BY <3>6, <3>7, <3>8, Zenon
  <2> QED  BY <2>4, <2>5, Zenon
<1> QED  BY <1>3, LedgerStateKept, Zenon

-----------------------------------------------------------------------------
(* A recorded entry is executed after the ones before it.                  *)

\* Whatever is recorded of a batch, all of its executed transactions are.
LEMMA AllProcessed ==
  ASSUME KeptInv, NEW th \in Threads, pc[th] = "Record", Processed(th) # {}
  PROVE  Processed(th) = Executed(th)
<1>1. BatchReasons(th) /\ ResultTypes(th)
  BY DEF KeptInv, TypeInv
<1>2. CASE batch_type[th] = "Mev"
  <2>1. DOMAIN execution_results[th] = {1}
    BY <1>1, <1>2, Zenon DEF BatchReasons, ResultTypes, Checked, InBatch, BeforeRecord
  <2> QED  BY <2>1, Zenon DEF Executed, Processed
<1>3. CASE batch_type[th] # "Mev"
  BY <1>3, ZenonT(60) DEF Processed
<1> QED  BY <1>2, <1>3

\* The transaction of the entry at index i of the batch.
EntryAt(th, i) ==
    [tx |-> batch[th][i], result |-> execution_results[th][i],
     view |-> [a \in MessageKeys(batch[th][i]) |-> view[th][a]]]

LEMMA EntryFields ==
  ASSUME NEW th, NEW i
  PROVE  /\ EntryAt(th, i).tx = batch[th][i]
         /\ EntryAt(th, i).result = execution_results[th][i]
         /\ EntryAt(th, i).view = [a \in MessageKeys(batch[th][i]) |-> view[th][a]]
BY DEF EntryAt

LEMMA EntryIs == \A th : Entry(th) = {EntryAt(th, i) : i \in Processed(th)}
BY ZenonT(60) DEF Entry, EntryAt

\* What a transaction read is the state after the entries before its own.
LEMMA ReadsLedger ==
  ASSUME SeqInv, NEW th \in Threads, pc[th] = "Record", NEW i \in Executed(th)
  PROVE  \A a \in MessageKeys(batch[th][i]) :
             a \in Accounts /\ view[th][a] = LedgerState[a] /\ LedgerState[a] = store[a]
<1> TAKE a \in MessageKeys(batch[th][i])
<1>1. pc[th] \in Checked
  BY DEF Checked, InBatch, BeforeRecord
<1>2. batch[th][i] \in Txs
  BY <1>1, ExecutedTxs DEF SeqInv
<1>3. a \in Accounts
  BY <1>2, KeysAssumption, Zenon DEF MessageKeys
<1>4. view[th][a] = store[a]
  BY DEF SeqInv, SeqThread
<1>5. \A x \in Threads \ {th} : UnstoredWriters(x, a) = {}
  BY <1>1, NoneUnstored, Zenon
<1>6. UnstoredWriters(th, a) = {}
  BY UnstoredAt DEF Committing
<1>7. Unstored(a) = {}
  BY <1>5, <1>6, OnlyUnstored
<1> QED  BY <1>3, <1>4, <1>7, LedgerValue, ZenonT(60)

\* The writes of the entry are the ones under way after the record.
LEMMA RecordLedger ==
  ASSUME NEW th \in Threads, SeqInv, record_entry(th)
  PROVE  LedgerState' = L!Apply(LedgerState, Entry(th))
<1>0. Shape /\ \A x \in Threads \ {th} : SameThread(x)
  BY OwnEntries DEF SeqInv, KeptInv, TypeInv, ThreadStep, record_transactions
<1>1. /\ pc[th] = "Record" /\ pc'[th] = "Store"
      /\ UNCHANGED <<batch, execution_results, store>>
  BY <1>0 DEF record_entry, Goto, Shape, OnThreads, batchVars
<1>2. pc[th] \in Checked
  BY <1>1, Zenon DEF Checked, InBatch, BeforeRecord
<1>3. Processed(th) = Executed(th)
  BY <1>1, AllProcessed, Zenon DEF SeqInv, record_entry
<1>4. ASSUME NEW a \in Accounts
      PROVE  LedgerState'[a] =
                 LET writers == {e \in Entry(th) : a \in CommittedWrites(e.tx, e.result)}
                 IN  IF writers = {} THEN LedgerState[a]
                     ELSE Append(LedgerState[a], (CHOOSE e \in writers : TRUE).tx)
  <2> DEFINE writers == {e \in Entry(th) : a \in CommittedWrites(e.tx, e.result)}
             under == StoreWriters(th, a) \cup FeeWriters(th, a)
  <2>1. UnstoredWriters(th, a) = {} /\ UnstoredWriters(th, a)' = under
    <3>1. StoreWriters(th, a)' = StoreWriters(th, a) /\ FeeWriters(th, a)' = FeeWriters(th, a)
      BY <1>1 DEF StoreWriters, FeeWriters, Executed
    <3> QED  BY <1>1, <3>1, UnstoredAt, UnstoredAfter, ZenonT(60) DEF Committing
  <2>2. \A x \in Threads \ {th} : UnstoredWriters(x, a)' = UnstoredWriters(x, a)
    BY <1>0, SameThreadSeq, Zenon
  <2>3. ASSUME NEW i \in Executed(th), a \in CommittedWrites(batch[th][i], execution_results[th][i])
        PROVE  EntryAt(th, i) \in writers /\ batch[th][i] \in under
    <3>1. EntryAt(th, i) \in Entry(th)
      BY <1>3, EntryIs, ZenonT(60)
    <3>2. EntryAt(th, i) \in writers
      BY <2>3, <3>1, EntryFields, Zenon
    <3>3. batch[th][i] \in under
      BY <2>3 DEF CommittedWrites, StoreWriters, FeeWriters
    <3> QED  BY <3>2, <3>3
  <2>4. ASSUME NEW e \in writers
        PROVE  \E i \in Executed(th) : /\ e = EntryAt(th, i)
                                       /\ a \in CommittedWrites(batch[th][i], execution_results[th][i])
    <3>1. PICK i \in Executed(th) : e = EntryAt(th, i)
      BY <1>3, EntryIs
    <3> QED  BY <3>1, EntryFields, ZenonT(60)
  <2>5. ASSUME NEW t \in under
        PROVE  \E i \in Executed(th) : /\ t = batch[th][i]
                                       /\ a \in CommittedWrites(batch[th][i], execution_results[th][i])
    BY DEF CommittedWrites, StoreWriters, FeeWriters
  <2>6. CASE writers = {}
    <3>1. under = {}
      BY <2>3, <2>5, <2>6, Zenon
    <3>2. Unstored(a)' = Unstored(a)
      BY <2>1, <2>2, <3>1, SameUnstored, Zenon
    <3>3. LedgerState'[a] = LedgerState[a]
      BY <1>1, <3>2, LedgerValue, Zenon
    <3> QED  BY <2>6, <3>3
  <2>7. CASE writers # {}
    <3>1. PICK i \in Executed(th) : a \in CommittedWrites(batch[th][i], execution_results[th][i])
      BY <2>4, <2>7, Zenon
    <3>2. batch[th][i] \in Txs
      BY <1>2, ExecutedTxs, Zenon DEF SeqInv
    <3>3. a \in Writable[batch[th][i]] /\ a \in MessageKeys(batch[th][i])
      BY <3>1, <3>2, WritesWritable, Zenon
    <3>4. ASSUME NEW j \in Executed(th), a \in CommittedWrites(batch[th][j], execution_results[th][j])
          PROVE  j = i
      <4>1. batch[th][j] \in Txs
        BY <1>2, <3>4, ExecutedTxs, Zenon DEF SeqInv
      <4>2. a \in MessageKeys(batch[th][j])
        BY <3>4, <4>1, WritesWritable, Zenon
      <4> QED  BY <1>2, <3>3, <3>4, <4>2, OneWriter, ZenonT(60)
    <3>5. writers = {EntryAt(th, i)} /\ under = {batch[th][i]}
      <4>1. EntryAt(th, i) \in writers /\ batch[th][i] \in under
        BY <2>3, <3>1, Zenon
      <4>2. \A e \in writers : e = EntryAt(th, i)
        BY <2>4, <3>4, Zenon
      <4>3. \A t \in under : t = batch[th][i]
        BY <2>5, <3>4, Zenon
      <4> HIDE DEF writers, under
      <4> QED  BY <4>1, <4>2, <4>3, Zenon
    <3>6. \A x \in Threads \ {th} : UnstoredWriters(x, a) = {}
      BY <1>2, <3>3, NoneUnstored, Zenon
    <3>7. Unstored(a)' = {batch[th][i]}
      BY <2>1, <2>2, <3>5, <3>6, OnlyUnstoredAfter, Zenon
    <3>8. LedgerState[a] = store[a]
      BY <1>1, <3>3, ReadsLedger, Zenon
    <3>9. (CHOOSE e \in writers : TRUE).tx = batch[th][i]
      <4> HIDE DEF writers
      <4>1. (CHOOSE e \in writers : TRUE) = EntryAt(th, i)
        BY <3>5, Zenon
      <4>2. EntryAt(th, i).tx = batch[th][i]
        BY EntryFields, ZenonT(60)
      <4> QED  BY <4>1, <4>2, Zenon
    <3>10. LedgerState'[a] = Append(store[a], batch[th][i])
      <4>1. (CHOOSE t \in Unstored(a)' : TRUE) = batch[th][i]
        BY <3>7
      <4>2. Unstored(a)' # {} /\ store'[a] = store[a]
        BY <1>1, <3>7
      <4> QED  BY <4>1, <4>2, LedgerValue, Zenon
    <3> HIDE DEF writers
    <3>11. LedgerState'[a] = IF writers = {} THEN LedgerState[a]
                             ELSE Append(LedgerState[a], (CHOOSE e \in writers : TRUE).tx)
      BY <2>7, <3>8, <3>9, <3>10, Zenon
    <3> QED  BY <3>11, ZenonT(60) DEF writers
  <2> QED  BY <2>6, <2>7, Zenon
<1> DEFINE G(a) == LET writers == {e \in Entry(th) : a \in CommittedWrites(e.tx, e.result)}
                   IN  IF writers = {} THEN LedgerState[a]
                       ELSE Append(LedgerState[a], (CHOOSE e \in writers : TRUE).tx)
<1>5. L!Apply(LedgerState, Entry(th)) = [a \in Accounts |-> G(a)]
  BY Zenon DEF L!Apply, L!CommittedWrites, CommittedWrites, L!StoredAccounts, StoredAccounts, L!FeeAccounts, FeeAccounts
<1>6. \A a \in Accounts : LedgerState'[a] = G(a)
  BY <1>4, Zenon
<1> HIDE DEF G, LedgerState
<1> QED  BY <1>5, <1>6, LedgerStateIs, Zenon

LEMMA LedgerLength ==
  ASSUME NEW th, TypeInv, ledger' = Append(ledger, Entry(th))
  PROVE  /\ ledger' # ledger
         /\ ledger'[Len(ledger')] = Entry(th)
         /\ \A t : InLedger(t)' <=> InLedger(t) \/ \E e \in Entry(th) : e.tx = t
<1>1. LET r == Append(ledger, Entry(th)) IN
      /\ Len(ledger) \in Nat /\ DOMAIN ledger = 1..Len(ledger)
      /\ r \in Seq({r[n] : n \in DOMAIN r})
      /\ DOMAIN r = 1..(Len(ledger) + 1) /\ Len(r) = Len(ledger) + 1
      /\ \A n \in 1..Len(ledger) : r[n] = ledger[n]
      /\ r[Len(ledger) + 1] = Entry(th)
  <2>1. LedgerTypes
    BY DEF TypeInv
  <2> QED  BY <2>1, AppendEntry, Zenon DEF LedgerTypes
<1>2. /\ Len(ledger) \in Nat /\ DOMAIN ledger = 1..Len(ledger)
      /\ DOMAIN ledger' = 1..(Len(ledger) + 1) /\ Len(ledger') = Len(ledger) + 1
      /\ \A n \in 1..Len(ledger) : ledger'[n] = ledger[n]
      /\ ledger'[Len(ledger) + 1] = Entry(th)
  BY <1>1, Zenon
<1>3. Len(ledger') # Len(ledger)
  <2>1. \A n \in Nat : n + 1 # n
    OBVIOUS
  <2> QED  BY <1>2, <2>1, Zenon
<1>4. ledger' # ledger
  BY <1>3, Zenon
<1>5. DOMAIN ledger' = DOMAIN ledger \cup {Len(ledger) + 1}
  <2>1. \A n \in Nat : 1..(n + 1) = (1..n) \cup {n + 1}
    OBVIOUS
  <2> QED  BY <1>2, <2>1, Zenon
<1>6. \A n \in DOMAIN ledger : ledger'[n] = ledger[n]
  BY <1>2
<1>7. ASSUME NEW t PROVE InLedger(t)' <=> InLedger(t) \/ \E e \in Entry(th) : e.tx = t
  <2>1. ASSUME InLedger(t)' PROVE InLedger(t) \/ \E e \in Entry(th) : e.tx = t
    <3>1. PICK n \in DOMAIN ledger' : \E e \in ledger'[n] : e.tx = t
      BY <2>1 DEF InLedger
    <3>2. CASE n \in DOMAIN ledger
      BY <1>6, <3>1, <3>2, Zenon DEF InLedger
    <3>3. CASE n = Len(ledger) + 1
      BY <1>2, <3>1, <3>3, ZenonT(60)
    <3> QED  BY <1>5, <3>2, <3>3, Zenon
  <2>2. ASSUME InLedger(t) PROVE InLedger(t)'
    BY <1>5, <1>6, <2>2, Zenon DEF InLedger
  <2>3. ASSUME NEW e \in Entry(th), e.tx = t PROVE InLedger(t)'
    BY <1>2, <1>5, <2>3, Zenon DEF InLedger
  <2> QED  BY <2>1, <2>2, <2>3, Zenon
<1> QED  BY <1>2, <1>4, <1>7, Zenon

\* Two transactions of one entry do not conflict.
LEMMA EntryApart ==
  ASSUME SeqInv, NEW th \in Threads, pc[th] = "Record",
         NEW i \in Executed(th), NEW j \in Executed(th),
         L!MessageConflict(batch[th][i], batch[th][j])
  PROVE  i = j
<1>1. pc[th] \in Checked
  BY Zenon DEF Checked, InBatch, BeforeRecord
<1>2. CASE Writable[batch[th][i]] \cap MessageKeys(batch[th][j]) # {}
  BY <1>1, <1>2, OneWriter, Zenon
<1>3. CASE Writable[batch[th][j]] \cap MessageKeys(batch[th][i]) # {}
  BY <1>1, <1>3, OneWriter, ZenonT(60)
<1> QED  BY <1>2, <1>3, Zenon DEF L!MessageConflict, L!MessageKeys, MessageKeys

LEMMA RecordRefines ==
  ASSUME NEW th \in Threads, SeqInv, record_entry(th)
  PROVE  L!RecordLast
<1>0. Shape /\ TypeInv /\ ResultTypes(th)
  BY DEF SeqInv, KeptInv, TypeInv
<1>1. /\ pc[th] = "Record" /\ working_bank /\ Processed(th) # {}
      /\ ledger' = Append(ledger, Entry(th)) /\ UNCHANGED bank_hash
  BY DEF record_entry, Goto, bankVars
<1>2. Processed(th) = Executed(th)
  BY <1>1, AllProcessed, Zenon DEF SeqInv
<1>3. Entry(th) = {EntryAt(th, i) : i \in Executed(th)}
  BY <1>2, EntryIs
<1>4. bank_hash = {}
  <2>1. FreezeInv /\ HashInv
    BY DEF SeqInv
  <2>2. tick_height < MaxTicks /\ tick_height \in Nat
    BY <1>1, <2>1, Zenon DEF FreezeInv, Clock
  <2>3. ~is_complete
    BY <2>2, IncomingAssumption, SMTT(60) DEF is_complete
  <2> QED  BY <2>1, <2>3, Zenon DEF FreezeInv, HashInv
<1>5. Entry(th) # {}
  BY <1>1, <1>2, <1>3, Zenon
<1>6. /\ ledger' # ledger /\ ledger'[Len(ledger')] = Entry(th)
  BY <1>0, <1>1, LedgerLength, Zenon
<1>7. LedgerState' = L!Apply(LedgerState, Entry(th))
  BY RecordLedger, Zenon
<1>8. ASSUME NEW e \in Entry(th)
      PROVE  /\ e.tx \in Txs /\ e.result \in {"Ok", "Err"}
             /\ ~L!InLedger(e.tx)
             /\ e.view = [a \in L!MessageKeys(e.tx) |-> LedgerState[a]]
             /\ \A f \in Entry(th) \ {e} : ~L!MessageConflict(e.tx, f.tx)
  <2>1. PICK i \in Executed(th) : e = EntryAt(th, i)
    BY <1>3, Zenon
  <2>2. /\ e.tx = batch[th][i] /\ e.result = execution_results[th][i]
        /\ e.view = [a \in MessageKeys(batch[th][i]) |-> view[th][a]]
    BY <2>1, EntryFields, ZenonT(60)
  <2>3. pc[th] \in Checked /\ pc[th] \in Loaded
    BY <1>1, Zenon DEF Loaded, Checked, InBatch, BeforeRecord
  <2>4. i \in DOMAIN batch[th] /\ batch[th][i] \in Txs
    BY <2>3, ExecutedTxs, Zenon DEF SeqInv
  <2>5. execution_results[th][i] \in {"Ok", "Err"}
    BY <1>0, <2>3, <2>4, Zenon DEF ResultTypes, Executed, ExecutionResults
  <2>6. ~L!InLedger(e.tx)
    <3>1. ~InLedger(batch[th][i])
      BY <1>1, Zenon DEF SeqInv, SeqThread
    <3> QED  BY <2>2, <3>1, ZenonT(60) DEF InLedger, L!InLedger
  <2>7. e.view = [a \in L!MessageKeys(e.tx) |-> LedgerState[a]]
    <3>1. \A a \in MessageKeys(batch[th][i]) : view[th][a] = LedgerState[a]
      BY <1>1, ReadsLedger, Zenon
    <3>2. L!MessageKeys(e.tx) = MessageKeys(batch[th][i])
      BY <2>2, Zenon DEF MessageKeys, L!MessageKeys
    <3> HIDE DEF LedgerState
    <3> QED  BY <2>2, <3>1, <3>2, Zenon
  <2>8. \A f \in Entry(th) \ {e} : ~L!MessageConflict(e.tx, f.tx)
    <3> SUFFICES ASSUME NEW f \in Entry(th), L!MessageConflict(e.tx, f.tx) PROVE f = e
      OBVIOUS
    <3>1. PICK j \in Executed(th) : f = EntryAt(th, j)
      BY <1>3, Zenon
    <3>2. f.tx = batch[th][j]
      BY <3>1, EntryFields, ZenonT(60)
    <3>3. i = j
      BY <1>1, <2>2, <3>2, EntryApart, Zenon
    <3> QED  BY <2>1, <3>1, <3>3, Zenon
  <2> QED  BY <2>2, <2>4, <2>5, <2>6, <2>7, <2>8, Zenon
<1>9. L!Record(Entry(th))
  BY <1>1, <1>4, <1>5, <1>7, <1>8, Zenon DEF L!Record
<1> QED  BY <1>6, <1>9, Zenon DEF L!RecordLast

LEMMA FreezeRefines ==
  ASSUME SeqInv, freeze
  PROVE  L!Freeze
<1>0. TypeInv /\ FreezeInv /\ HashInv
  BY DEF SeqInv, KeptInv
<1>1. freeze_readers = {} /\ bank_hash = {} /\ bank_hash' = {store} /\ UNCHANGED ledger
  BY <1>0 DEF freeze, FreezeInv, HashInv, commitVars
<1>2. \A x \in Threads : ~Committing(x)
  BY <1>0, <1>1 DEF FreezeInv, Guarded, Committing
<1>3. \A x \in Threads : SameThread(x)
  BY <1>0, BankStepTypes, Zenon DEF BankStep
<1>4. ASSUME NEW a \in Accounts PROVE LedgerState[a] = store[a] /\ LedgerState'[a] = LedgerState[a]
  <2>1. \A x \in Threads : UnstoredWriters(x, a) = {} /\ UnstoredWriters(x, a)' = UnstoredWriters(x, a)
    BY <1>2, <1>3, UnstoredAt, SameThreadSeq, Zenon
  <2>2. Unstored(a) = {} /\ Unstored(a)' = {}
    BY <2>1 DEF Unstored
  <2>3. store' = store
    BY DEF freeze, commitVars
  <2> QED  BY <2>2, <2>3, LedgerValue, ZenonT(60)
<1>5. LedgerState' = LedgerState
  BY <1>4, LedgerStateKept
<1>6. store \in [Accounts -> Values]
  BY <1>0, Zenon DEF TypeInv, BankTypes
<1>7. LedgerState = store
  <2> HIDE DEF LedgerState
  <2> QED  BY <1>4, <1>6, LedgerStateIs
<1> QED  BY <1>1, <1>5, <1>7, Zenon DEF L!Freeze

-----------------------------------------------------------------------------
(* The invariant behind it.                                                *)

LEMMA SeqInit == BankingInit => SeqInv
<1> SUFFICES ASSUME BankingInit PROVE SeqInv
  OBVIOUS
<1>1. KeptInv /\ FreezeInv
  BY KeptInit, FreezeInit, Zenon
<1>2. HashInv
  BY Zenon DEF BankingInit, HashInv
<1>3. LocksApart
  BY SMTT(60) DEF BankingInit, Init, LocksApart, Granted
<1>4. Covered
  BY SMTT(60) DEF BankingInit, Covered, InLedger
<1>5. \A th \in Threads : SeqThread(th)
  BY Zenon DEF BankingInit, SeqThread, Checked, InBatch, BeforeRecord, AfterRecord
<1> QED  BY <1>1, <1>2, <1>3, <1>4, <1>5, Zenon DEF SeqInv

LEMMA BankUntouched ==
  ASSUME NEW th \in Threads, ThreadStep(th)
  PROVE  UNCHANGED bankVars
  BY Zenon
  DEF ThreadStep, bank_start, process_normal_batch,
      process_mev_batch, filter_pending, finish_consume, check_transactions,
      load_and_execute_transactions, freeze_lock, record_transactions, record_nothing, record_entry,
      record_max_height, store_cached, update_transaction_statuses,
      filter_program_errors_and_collect_fee, drop_freeze_lock, unlock_accounts

LEMMA HashStep ==
  ASSUME HashInv, [BankingNext]_vars
  PROVE  HashInv'
<1>1. CASE UNCHANGED <<freeze_writer, freeze_started, bank_hash>>
  BY <1>1 DEF HashInv
<1>2. CASE freeze_write_lock
  BY <1>2 DEF HashInv, freeze_write_lock
<1>3. CASE freeze
  BY <1>3 DEF HashInv, freeze
<1>4. \A th \in Threads : ThreadStep(th) => UNCHANGED bankVars
  BY BankUntouched
<1>5. CASE UNCHANGED bankVars
  BY <1>1, <1>5, Zenon DEF bankVars
<1>6. CASE tick \/ reset
  BY <1>1, <1>6, Zenon DEF tick, reset
<1>7. CASE UNCHANGED vars
  BY <1>5, <1>7 DEF vars
<1> QED  BY <1>2, <1>3, <1>4, <1>5, <1>6, <1>7, ZenonT(60) DEF BankingNext

\* The locks a batch is granted are apart from those of the others.
LEMMA LockedApart ==
  ASSUME NEW th \in Threads, NEW txs \in Batches, KeptInv, LocksApart, LockBatch(th, txs),
         \A x \in Threads \ {th} : SameThread(x)
  PROVE  LocksApart'
<1>0. Shape
  BY Zenon DEF KeptInv, TypeInv
<1>1. batch'[th] = txs /\ DOMAIN txs = 1..Len(txs)
  BY <1>0, LockedBatch, Zenon DEF Shape
<1>2. PICK qos \in [DOMAIN txs -> QosResults], granted \in SUBSET (1..Len(txs)) :
          /\ GreedyOutcome(th, txs, Verdicts(txs, qos), granted)
          /\ lock_results' = [lock_results EXCEPT ![th] = GrantResults(Verdicts(txs, qos), granted)]
  BY Zenon DEF LockBatch
<1>3. lock_results'[th] = GrantResults(Verdicts(txs, qos), granted)
  BY <1>0, <1>2 DEF Shape, OnThreads
<1>4. \A i \in Granted(th)' : i \in granted /\ i \in 1..Len(txs)
  <2> TAKE i \in Granted(th)'
  <2>1. i \in 1..Len(txs) /\ lock_results'[th][i] = "Ok"
    BY <1>1 DEF Granted
  <2>2. DOMAIN Verdicts(txs, qos) = 1..Len(txs)
    BY Zenon DEF Verdicts
  <2>3. i \in granted
    BY <1>3, <2>1, <2>2, ZenonT(60) DEF GrantResults
  <2> QED  BY <2>1, <2>3, Zenon
<1>5. \A x \in Threads \ {th} : Granted(x)' = Granted(x) /\ batch'[x] = batch[x]
  BY SameThreadSeq, Zenon DEF SameThread
<1>6. ASSUME NEW i \in Granted(th)', NEW y \in Threads \ {th}, NEW j \in Granted(y)'
      PROVE  ~Conflict(batch'[th][i], batch'[y][j]) /\ ~Conflict(batch'[y][j], batch'[th][i])
  <2>1. ~InUse(th, txs[i])
    BY <1>2, <1>4, <1>6, ZenonT(60) DEF GreedyOutcome
  <2>2. ~Conflict(txs[i], batch[y][j])
    BY <1>5, <1>6, <2>1, ZenonT(60) DEF InUse
  <2> QED  BY <1>1, <1>5, <2>2, ConflictSymmetric, ZenonT(60)
<1>7. ASSUME NEW i \in Granted(th)', NEW j \in Granted(th)', i # j
      PROVE  ~Conflict(batch'[th][i], batch'[th][j])
  <2>1. i \in granted /\ j \in granted /\ i \in Nat /\ j \in Nat
    BY <1>4, <1>7, SMTT(60)
  <2>2. i < j \/ j < i
    BY <1>7, <2>1, SMTT(60)
  <2>3. CASE j < i
    <3>1. ~Conflict(txs[i], txs[j])
      BY <1>2, <1>4, <1>7, <2>1, <2>3, ZenonT(60) DEF GreedyOutcome
    <3> QED  BY <1>1, <3>1, Zenon
  <2>4. CASE i < j
    <3>1. ~Conflict(txs[j], txs[i])
      BY <1>2, <1>4, <1>7, <2>1, <2>4, ZenonT(60) DEF GreedyOutcome
    <3> QED  BY <1>1, <3>1, ConflictSymmetric, Zenon
  <2> QED  BY <2>2, <2>3, <2>4, ZenonT(60)
<1>8. ASSUME NEW x \in Threads, NEW y \in Threads, NEW i \in Granted(x)', NEW j \in Granted(y)',
             x # y \/ i # j
      PROVE  ~Conflict(batch'[x][i], batch'[y][j])
  <2>1. CASE x # th /\ y # th
    BY <1>5, <1>8, <2>1, Zenon DEF LocksApart
  <2>2. CASE x = th /\ y # th
    BY <1>6, <1>8, <2>2, Zenon
  <2>3. CASE x # th /\ y = th
    BY <1>6, <1>8, <2>3, Zenon
  <2>4. CASE x = th /\ y = th
    BY <1>7, <1>8, <2>4, ZenonT(60)
  <2> QED  BY <2>1, <2>2, <2>3, <2>4, Zenon
<1> QED  BY <1>8, Zenon DEF LocksApart

LEMMA LocksApartStep ==
  ASSUME NEW th \in Threads, KeptInv, LocksApart, ThreadStep(th)
  PROVE  LocksApart'
<1>0. Shape /\ \A x \in Threads \ {th} : SameThread(x)
  BY OwnEntries, Zenon DEF KeptInv, TypeInv
<1>1. CASE UNCHANGED batchVars
  BY <1>1, ZenonT(60) DEF LocksApart, Granted, batchVars
<1>2. CASE \E txs \in Batches : LockBatch(th, txs)
  BY <1>0, <1>2, LockedApart
<1>3. CASE UnlockBatch(th)
  <2>1. Granted(th)' = {}
    BY <1>0, <1>3, SMTT(60) DEF UnlockBatch, Granted, Shape, OnThreads
  <2>2. \A x \in Threads \ {th} : Granted(x)' = Granted(x) /\ batch'[x] = batch[x]
    BY <1>0, SameThreadSeq, Zenon DEF SameThread
  <2> QED  BY <2>1, <2>2, ZenonT(60) DEF LocksApart
<1>4. CASE process_normal_batch(th)
  BY <1>2, <1>4, ZenonT(60) DEF process_normal_batch, ScannedBatches
<1>5. CASE process_mev_batch(th)
  <2>1. PICK m \in mev_tx[th] : LockBatch(th, <<m>>)
    BY <1>5, Zenon DEF process_mev_batch
  <2>2. m \in Txs /\ 1 \in 1..MaxBatch
    BY BatchAssumption, IncomingAssumption, SMTT(60) DEF KeptInv, TypeInv, ThreadTypes
  <2>3. <<m>> \in [1..1 -> Txs]
    BY <2>2, SMTT(60)
  <2>4. <<m>> \in Batches
    BY <2>2, <2>3, Zenon DEF Batches
  <2> QED  BY <1>2, <2>1, <2>4, Zenon
<1> QED
  BY <1>1, <1>3, <1>4, <1>5, ZenonT(60)
  DEF ThreadStep, bank_start, filter_pending, finish_consume, check_transactions,
      load_and_execute_transactions, freeze_lock, record_transactions, record_nothing, record_entry,
      record_max_height, store_cached, update_transaction_statuses,
      filter_program_errors_and_collect_fee, drop_freeze_lock, unlock_accounts

\* What a step of a thread may change of the block, the cache and the store.
LEMMA BlockStep ==
  ASSUME NEW th \in Threads, ThreadStep(th)
  PROVE  /\ record_entry(th) \/ UNCHANGED ledger
         /\ status_cache \subseteq status_cache'
         /\ store_cached(th) \/ filter_program_errors_and_collect_fee(th) \/ UNCHANGED store
         /\ pc[th] \in {"Store", "Statuses"} => store_cached(th) \/ update_transaction_statuses(th)
<1>1. record_entry(th) \/ UNCHANGED ledger
  BY ZenonT(60)
  DEF ThreadStep, commitVars, bank_start, process_normal_batch, process_mev_batch, filter_pending,
      finish_consume, check_transactions, load_and_execute_transactions, freeze_lock,
      record_transactions, record_nothing, record_max_height, store_cached,
      update_transaction_statuses, filter_program_errors_and_collect_fee, drop_freeze_lock,
      unlock_accounts
<1>2. update_transaction_statuses(th) \/ UNCHANGED status_cache
  BY ZenonT(60)
  DEF ThreadStep, commitVars, bank_start, process_normal_batch, process_mev_batch, filter_pending,
      finish_consume, check_transactions, load_and_execute_transactions, freeze_lock,
      record_transactions, record_nothing, record_entry, record_max_height, store_cached,
      filter_program_errors_and_collect_fee, drop_freeze_lock, unlock_accounts
<1>3. status_cache \subseteq status_cache'
  BY <1>2, Zenon DEF update_transaction_statuses
<1>4. store_cached(th) \/ filter_program_errors_and_collect_fee(th) \/ UNCHANGED store
  BY ZenonT(60)
  DEF ThreadStep, commitVars, bank_start, process_normal_batch, process_mev_batch, filter_pending,
      finish_consume, check_transactions, load_and_execute_transactions, freeze_lock,
      record_transactions, record_nothing, record_entry, record_max_height,
      update_transaction_statuses, drop_freeze_lock, unlock_accounts
<1>5. pc[th] \in {"Store", "Statuses"} => store_cached(th) \/ update_transaction_statuses(th)
  BY Zenon
  DEF ThreadStep, Goto, bank_start, process_normal_batch, process_mev_batch, filter_pending,
      finish_consume, check_transactions, load_and_execute_transactions, freeze_lock,
      record_transactions, record_nothing, record_entry, record_max_height,
      filter_program_errors_and_collect_fee, drop_freeze_lock, unlock_accounts
<1> QED  BY <1>1, <1>3, <1>4, <1>5, Zenon

\* A transaction is in the entry of the thread that executed it.
LEMMA EntryTxs ==
  ASSUME NEW th, NEW e \in Entry(th)
  PROVE  \E i \in Executed(th) : batch[th][i] = e.tx
<1>1. PICK i \in Processed(th) : e = EntryAt(th, i)
  BY EntryIs
<1>2. e.tx = batch[th][i]
  BY <1>1, EntryFields, ZenonT(60)
<1> QED  BY <1>2 DEF Processed

LEMMA CoveredStep ==
  ASSUME NEW th \in Threads, SeqInv, ThreadStep(th)
  PROVE  Covered'
<1>0. Shape /\ TypeInv /\ Covered /\ \A x \in Threads \ {th} : SameThread(x)
  BY OwnEntries DEF SeqInv, KeptInv, TypeInv
<1>1. ASSUME NEW t \in Txs, InLedger(t) PROVE t \in status_cache' \/ Uncached(t)'
  <2>1. CASE t \in status_cache
    BY <2>1, BlockStep
  <2>2. ASSUME NEW x \in Threads \ {th}, pc[x] \in {"Store", "Statuses"},
               NEW i \in Executed(x), batch[x][i] = t
        PROVE  Uncached(t)'
    <3>1. pc'[x] = pc[x] /\ batch'[x] = batch[x] /\ Executed(x)' = Executed(x)
      BY <1>0, SameThreadSeq, ZenonT(60) DEF SameThread
    <3> QED  BY <2>2, <3>1, Zenon DEF Uncached
  <2>3. ASSUME pc[th] \in {"Store", "Statuses"}, NEW i \in Executed(th), batch[th][i] = t
        PROVE  t \in status_cache' \/ Uncached(t)'
    <3>1. CASE store_cached(th)
      <4>1. pc'[th] = "Statuses" /\ UNCHANGED <<batch, execution_results>>
        BY <1>0, <3>1, Zenon DEF store_cached, Goto, Shape, OnThreads, batchVars, resultVars
      <4>2. Executed(th)' = Executed(th)
        BY <4>1, ZenonT(60) DEF Executed
      <4> QED  BY <2>3, <4>1, <4>2, Zenon DEF Uncached
    <3>2. CASE update_transaction_statuses(th)
      BY <2>3, <3>2, Zenon DEF update_transaction_statuses
    <3> QED  BY <2>3, <3>1, <3>2, BlockStep, ZenonT(60)
  <2>4. t \in status_cache \/ Uncached(t)
    BY <1>0, <1>1, Zenon DEF Covered
  <2> QED  BY <2>1, <2>2, <2>3, <2>4, Zenon DEF Uncached
<1>2. ASSUME NEW t \in Txs, InLedger(t)', ~InLedger(t) PROVE Uncached(t)'
  <2>1. record_entry(th)
    BY <1>2, BlockStep, Zenon DEF InLedger
  <2>2. PICK e \in Entry(th) : e.tx = t
    BY <1>0, <1>2, <2>1, LedgerLength, ZenonT(60) DEF record_entry
  <2>3. PICK i \in Executed(th) : batch[th][i] = t
    BY <2>2, EntryTxs, Zenon
  <2>4. pc'[th] = "Store" /\ UNCHANGED <<batch, execution_results>>
    BY <1>0, <2>1, ZenonT(60) DEF record_entry, Goto, Shape, OnThreads, batchVars
  <2>5. Executed(th)' = Executed(th)
    BY <2>4 DEF Executed
  <2> QED  BY <2>3, <2>4, <2>5, Zenon DEF Uncached
<1> QED  BY <1>1, <1>2, Zenon DEF Covered

\* The granted transactions of two threads differ.
LEMMA DifferentTxs ==
  ASSUME SeqInv, NEW x \in Threads, NEW y \in Threads \ {x}, NEW i \in Granted(x), NEW j \in Granted(y)
  PROVE  batch[x][i] # batch[y][j]
<1>1. ThreadTypes(x)
  BY ZenonT(60) DEF SeqInv, KeptInv, TypeInv
<1>2. batch[x][i] \in Txs
  BY <1>1, BatchTxs, Zenon DEF Granted, ThreadTypes
<1>3. ~Conflict(batch[x][i], batch[y][j])
  BY Zenon DEF SeqInv, LocksApart
<1> QED  BY <1>2, <1>3, SelfConflict, ZenonT(60)

\* The other threads keep what they have read, and their transactions stay
\* out of the block.
LEMMA OthersSeq ==
  ASSUME NEW th \in Threads, SeqInv, ThreadStep(th), NEW x \in Threads \ {th}
  PROVE  SeqThread(x)'
<1>0. TypeInv /\ SeqThread(x) /\ SameThread(x) /\ Executed(x)' = Executed(x) /\ Granted(x)' = Granted(x)
  BY OwnEntries, SameThreadSeq, Zenon DEF SeqInv, KeptInv, TypeInv
<1>1. pc'[x] = pc[x] /\ batch'[x] = batch[x] /\ view'[x] = view[x]
  BY <1>0, Zenon DEF SameThread
<1>2. ASSUME pc[x] \in {"Load", "FreezeLock", "Record"}, NEW i \in Executed(x)
      PROVE  ~InLedger(batch[x][i])'
  <2>1. ~InLedger(batch[x][i])
    BY <1>0, <1>2, Zenon DEF SeqThread
  <2>2. CASE UNCHANGED ledger
    BY <1>1, <2>1, <2>2, Zenon DEF InLedger
  <2>3. CASE record_entry(th)
    <3>1. pc[th] = "Record" /\ ledger' = Append(ledger, Entry(th))
      BY <2>3 DEF record_entry, Goto
    <3>2. pc[th] \in Checked /\ pc[x] \in Checked
      BY <1>2, <3>1, Zenon DEF Checked, InBatch, BeforeRecord
    <3>3. i \in Granted(x)
      BY <1>0, <1>2, <3>2, Zenon DEF SeqThread
    <3>4. ASSUME NEW e \in Entry(th) PROVE e.tx # batch[x][i]
      <4>1. PICK j \in Executed(th) : batch[th][j] = e.tx
        BY <3>4, EntryTxs, Zenon
      <4>2. j \in Granted(th)
        BY <3>2, <4>1, Zenon DEF SeqInv, SeqThread
      <4> QED  BY <3>3, <4>1, <4>2, DifferentTxs, Zenon
    <3>5. \A t : InLedger(t)' <=> InLedger(t) \/ \E e \in Entry(th) : e.tx = t
      BY <1>0, <3>1, LedgerLength, Zenon
    <3> DEFINE t == batch[x][i]
    <3>6. t' = t
      BY <1>1, ZenonT(60)
    <3>7. ~InLedger(t) /\ ~\E e \in Entry(th) : e.tx = t
      BY <2>1, <3>4
    <3>8. ~\E n \in DOMAIN ledger' : \E e \in ledger'[n] : e.tx = t
      <4> HIDE DEF t
      <4> QED  BY <3>5, <3>7, ZenonT(60) DEF InLedger
    <3> QED  BY <3>6, <3>8, ZenonT(60) DEF InLedger
  <2> QED  BY <2>2, <2>3, BlockStep, Zenon
<1>3. ASSUME pc[x] \in {"FreezeLock", "Record", "Store"}, NEW i \in Executed(x),
             NEW a \in MessageKeys(batch[x][i])
      PROVE  view[x][a] = store'[a]
  <2>1. view[x][a] = store[a]
    BY <1>0, <1>3, Zenon DEF SeqThread
  <2>2. pc[x] \in Checked
    BY <1>3, Zenon DEF Checked, InBatch, BeforeRecord, AfterRecord
  <2>3. a \in Accounts
    <3>1. batch[x][i] \in Txs
      BY <1>3, <2>2, ExecutedTxs, ZenonT(60) DEF SeqInv
    <3> QED  BY <1>3, <3>1, KeysAssumption, Zenon DEF MessageKeys
  <2>4. ASSUME pc[th] \in {"Store", "Fees"} PROVE StoreWriters(th, a) = {} /\ FeeWriters(th, a) = {}
    <3>1. pc[th] \in Checked
      BY <2>4 DEF Checked, InBatch, AfterRecord
    <3> SUFFICES ASSUME StoreWriters(th, a) # {} \/ FeeWriters(th, a) # {} PROVE FALSE
      BY Zenon
    <3>2. PICK j \in Executed(th) : a \in Writable[batch[th][j]]
      BY <3>1, Writer, Zenon DEF SeqInv
    <3> QED  BY <1>3, <2>2, <3>1, <3>2, OneWriter, ZenonT(60)
  <2>5. store'[a] = store[a]
    <3>1. CASE store_cached(th)
      BY <2>3, <2>4, <3>1, Zenon DEF store_cached, Goto
    <3>2. CASE filter_program_errors_and_collect_fee(th)
      BY <2>3, <2>4, <3>2, Zenon DEF filter_program_errors_and_collect_fee, Goto
    <3> QED  BY <3>1, <3>2, BlockStep, Zenon
  <2> QED  BY <2>1, <2>5, Zenon
<1> QED  BY <1>0, <1>1, <1>2, <1>3, ZenonT(60) DEF SeqThread

\* What the thread that takes the step has executed, read and not recorded.
LEMMA OwnCheck ==
  ASSUME NEW th \in Threads, SeqInv, check_transactions(th)
  PROVE  SeqThread(th)'
<1>0. Shape /\ ThreadTypes(th)
  BY Zenon DEF SeqInv, KeptInv, TypeInv
<1>1. /\ pc[th] = "Check" /\ pc'[th] = "Load" /\ UNCHANGED <<batch, lock_results, ledger>>
      /\ execution_results'[th] =
             [i \in Indexes(th) |-> IF i \in Granted(th) /\ batch[th][i] \notin status_cache
                                    THEN "Loading" ELSE "NotExecuted"]
  BY <1>0, Zenon DEF check_transactions, Goto, Shape, OnThreads, batchVars, commitVars
<1>2. Granted(th)' = Granted(th)
  BY <1>1, ZenonT(60) DEF Granted
<1>3. \A i \in Executed(th)' : i \in Granted(th) /\ batch[th][i] \notin status_cache
  BY <1>1, Zenon DEF Executed, Indexes
<1>4. ASSUME NEW i \in Executed(th)' PROVE ~InLedger(batch[th][i])
  <2> SUFFICES ASSUME InLedger(batch[th][i]) PROVE FALSE
    BY Zenon
  <2>1. i \in Granted(th) /\ batch[th][i] \notin status_cache /\ batch[th][i] \in Txs
    BY <1>0, <1>3, <1>4, BatchTxs, Zenon DEF Granted, ThreadTypes
  <2>2. PICK x \in Threads : /\ pc[x] \in {"Store", "Statuses"}
                             /\ \E j \in Executed(x) : batch[x][j] = batch[th][i]
    BY <2>1, ZenonT(60) DEF SeqInv, Covered, Uncached
  <2>3. PICK j \in Executed(x) : batch[x][j] = batch[th][i]
    BY <2>2, Zenon
  <2>4. pc[x] \in Checked /\ x # th
    BY <1>1, <2>2, Zenon DEF Checked, InBatch, AfterRecord
  <2>5. j \in Granted(x)
    BY <2>3, <2>4, Zenon DEF SeqInv, SeqThread
  <2> QED  BY <2>1, <2>3, <2>4, <2>5, DifferentTxs, ZenonT(60)
<1>5. \A i \in Executed(th)' : ~InLedger(batch[th][i])'
  BY <1>1, <1>4, Zenon DEF InLedger
<1> QED  BY <1>1, <1>2, <1>3, <1>5, Zenon DEF SeqThread

LEMMA OwnLoad ==
  ASSUME NEW th \in Threads, SeqInv, load_and_execute_transactions(th)
  PROVE  SeqThread(th)'
<1>0. Shape /\ SeqThread(th) /\ ResultTypes(th)
  BY Zenon DEF SeqInv, KeptInv, TypeInv
<1>1. /\ pc[th] = "Load" /\ pc'[th] = "FreezeLock"
      /\ UNCHANGED <<batch, lock_results, ledger, store>>
  BY <1>0, ZenonT(60) DEF load_and_execute_transactions, Goto, Shape, OnThreads, batchVars, commitVars
<1>2. PICK results \in [Indexes(th) -> ExecutionResults] :
          /\ \A i \in Indexes(th) : execution_results[th][i] # "Loading" => results[i] = "NotExecuted"
          /\ execution_results' = [execution_results EXCEPT ![th] = results]
          /\ view' = [view EXCEPT ![th] =
                 [a \in UNION {MessageKeys(batch[th][i]) : i \in {j \in Indexes(th) :
                            results[j] # "NotExecuted"}} |-> store[a]]]
  BY ZenonT(60) DEF load_and_execute_transactions
<1>3. execution_results'[th] = results
  BY <1>0, <1>2 DEF Shape, OnThreads
<1>4. /\ DOMAIN view'[th] = UNION {MessageKeys(batch[th][i]) : i \in {j \in Indexes(th) :
                                       results[j] # "NotExecuted"}}
      /\ \A a \in DOMAIN view'[th] : view'[th][a] = store[a]
  BY <1>0, <1>2, Zenon DEF Shape, OnThreads
<1>5. pc[th] \in Checked /\ DOMAIN execution_results[th] = Indexes(th)
  BY <1>0, <1>1, Zenon DEF ResultTypes, Checked, InBatch, BeforeRecord, Indexes
<1>6. \A i \in Executed(th)' : i \in Indexes(th) /\ results[i] # "NotExecuted"
  BY <1>3, Zenon DEF Executed
<1>7. \A i \in Executed(th)' : i \in Executed(th)
  BY <1>2, <1>5, <1>6, Zenon DEF Executed
<1>8. \A i \in Executed(th)' : i \in Granted(th)' /\ ~InLedger(batch[th][i])'
  <2>1. \A i \in Executed(th) : i \in Granted(th) /\ ~InLedger(batch[th][i])
    BY <1>0, <1>1, <1>5, Zenon DEF SeqThread
  <2>2. \A i \in Executed(th)' : i \in Granted(th)
    BY <1>7, <2>1, ZenonT(60)
  <2>3. Granted(th)' = Granted(th)
    BY <1>1 DEF Granted
  <2>4. \A i \in Executed(th)' : ~InLedger(batch[th][i])'
    BY <1>1, <1>7, <2>1, ZenonT(60) DEF InLedger
  <2> QED  BY <2>2, <2>3, <2>4, Zenon
<1>9. \A i \in Executed(th)' : \A a \in MessageKeys(batch[th][i]) : view'[th][a] = store[a]
  BY <1>4, <1>6
<1> QED  BY <1>1, <1>8, <1>9, ZenonT(60) DEF SeqThread

\* The later steps of a batch keep its transactions, its results and its locks.
LEMMA OwnLater ==
  ASSUME NEW th \in Threads, SeqThread(th), pc[th] \in Loaded,
         pc'[th] \in {"Record", "Store", "Statuses", "Fees", "Drop", "Unlock"},
         UNCHANGED <<batch, lock_results, view, execution_results>>,
         pc'[th] = "Record" => pc[th] = "FreezeLock" /\ UNCHANGED <<ledger, store>>,
         pc'[th] = "Store" => pc[th] = "Record" /\ UNCHANGED store
  PROVE  SeqThread(th)'
<1>1. Executed(th)' = Executed(th) /\ Granted(th)' = Granted(th)
  BY ZenonT(60) DEF Executed, Granted
<1>2. pc[th] \in Checked
  BY Zenon DEF Loaded
<1>3. Executed(th)' \subseteq Granted(th)'
  BY <1>1, <1>2, Zenon DEF SeqThread
<1>4. pc'[th] \in {"Load", "FreezeLock", "Record"} => \A i \in Executed(th)' : ~InLedger(batch[th][i])'
  <2> SUFFICES ASSUME pc'[th] = "Record", NEW i \in Executed(th) PROVE ~InLedger(batch[th][i])'
    BY <1>1, Zenon
  <2>1. ~InLedger(batch[th][i])
    BY Zenon DEF SeqThread
  <2> QED  BY <2>1, Zenon DEF InLedger
<1>5. pc'[th] \in {"FreezeLock", "Record", "Store"} =>
          \A i \in Executed(th)' : \A a \in MessageKeys(batch'[th][i]) : view'[th][a] = store'[a]
  <2> SUFFICES ASSUME pc'[th] \in {"Record", "Store"}, NEW i \in Executed(th),
                      NEW a \in MessageKeys(batch[th][i])
               PROVE  view[th][a] = store'[a]
    BY <1>1, ZenonT(60)
  <2>1. view[th][a] = store[a] /\ store' = store
    BY DEF SeqThread
  <2> QED  BY <2>1, ZenonT(60)
<1> QED  BY <1>3, <1>4, <1>5, ZenonT(60) DEF SeqThread

LEMMA OwnSeq ==
  ASSUME NEW th \in Threads, SeqInv, ThreadStep(th)
  PROVE  SeqThread(th)'
<1>0. Shape /\ SeqThread(th)
  BY Zenon DEF SeqInv, KeptInv, TypeInv
<1>1. CASE pc'[th] \in {"Idle", "Scan", "Check", "MevBatch", "Filter"}
  BY <1>1 DEF SeqThread, Checked, InBatch, BeforeRecord, AfterRecord
<1>2. CASE \/ bank_start(th) \/ process_normal_batch(th) \/ process_mev_batch(th) \/ filter_pending(th)
           \/ finish_consume(th) \/ unlock_accounts(th)
  <2>1. pc'[th] \in {"Idle", "Scan", "Check", "MevBatch", "Filter"}
    BY <1>0, <1>2, ZenonT(60) DEF Goto, Shape, OnThreads, bank_start, process_normal_batch, process_mev_batch,
                      filter_pending, finish_consume, unlock_accounts
  <2> QED  BY <1>1, <2>1, ZenonT(60)
<1>3. CASE freeze_lock(th)
  <2>1. /\ pc[th] = "FreezeLock" /\ pc'[th] = "Record"
        /\ UNCHANGED <<batch, lock_results, view, execution_results, ledger, store>>
    BY <1>0, <1>3, Zenon DEF freeze_lock, Goto, Shape, OnThreads, batchVars, resultVars
  <2> QED  BY <1>0, <2>1, OwnLater, ZenonT(60) DEF Loaded, Checked, InBatch, BeforeRecord
<1>4. CASE record_transactions(th)
  <2>1. /\ pc[th] = "Record" /\ pc'[th] \in {"Store", "Drop"} /\ UNCHANGED store
        /\ UNCHANGED <<batch, lock_results, view, execution_results>>
    BY <1>0, <1>4, Zenon DEF record_transactions, record_nothing, record_entry, record_max_height, Goto,
                      Shape, OnThreads, batchVars, commitVars
  <2> QED  BY <1>0, <2>1, OwnLater, Zenon DEF Loaded, Checked, InBatch, BeforeRecord
<1>5. CASE \/ store_cached(th) \/ update_transaction_statuses(th)
           \/ filter_program_errors_and_collect_fee(th) \/ drop_freeze_lock(th)
  <2>1. /\ pc[th] \in AfterRecord /\ pc'[th] \in {"Statuses", "Fees", "Drop", "Unlock"}
        /\ UNCHANGED <<batch, lock_results, view, execution_results>>
    BY <1>0, <1>5, Zenon DEF store_cached, update_transaction_statuses, filter_program_errors_and_collect_fee,
                      drop_freeze_lock, Goto, Shape, OnThreads, batchVars, resultVars, AfterRecord
  <2> QED  BY <1>0, <2>1, OwnLater, Zenon DEF Loaded, Checked, InBatch, AfterRecord
<1> QED  BY <1>2, <1>3, <1>4, <1>5, OwnCheck, OwnLoad, ZenonT(60) DEF ThreadStep

LEMMA SeqStep == SeqInv /\ [BankingNext]_vars => SeqInv'
<1> SUFFICES ASSUME SeqInv, [BankingNext]_vars PROVE SeqInv'
  OBVIOUS
<1>1. KeptInv' /\ FreezeInv' /\ HashInv'
  BY KeptStep, FreezeStep, HashStep, Zenon DEF SeqInv
<1>2. ASSUME NEW th \in Threads, ThreadStep(th) PROVE SeqInv'
  <2>1. LocksApart'
    BY <1>2, LocksApartStep DEF SeqInv
  <2>2. Covered'
    BY <1>2, CoveredStep
  <2>3. \A x \in Threads : SeqThread(x)'
    BY <1>2, OthersSeq, OwnSeq, Zenon
  <2> QED  BY <1>1, <2>1, <2>2, <2>3, Zenon DEF SeqInv
<1>3. ASSUME UNCHANGED <<ledger, status_cache, store>>, \A x \in Threads : SameThread(x)
      PROVE  SeqInv'
  <2>1. \A x \in Threads : /\ Executed(x)' = Executed(x) /\ Granted(x)' = Granted(x)
                           /\ pc'[x] = pc[x] /\ batch'[x] = batch[x] /\ view'[x] = view[x]
    BY <1>3, SameThreadSeq, Zenon DEF SameThread
  <2>2. LocksApart'
    BY <2>1, Zenon DEF SeqInv, LocksApart
  <2>3. \A t : InLedger(t)' <=> InLedger(t)
    BY <1>3, Zenon DEF InLedger
  <2>4. Covered'
    <3>1. \A t : Uncached(t) => Uncached(t)'
      BY <2>1, Zenon DEF Uncached
    <3> QED  BY <1>3, <2>3, <3>1 DEF SeqInv, Covered
  <2>5. ASSUME NEW x \in Threads PROVE SeqThread(x)'
    <3>1. SeqThread(x)
      BY DEF SeqInv
    <3>2. \A i : InLedger(batch[x][i])' <=> InLedger(batch[x][i])
      BY <1>3, <2>1, ZenonT(60) DEF InLedger
    <3> QED  BY <1>3, <2>1, <3>1, <3>2, ZenonT(60) DEF SeqThread
  <2> QED  BY <1>1, <2>2, <2>4, <2>5, ZenonT(60) DEF SeqInv
<1>4. CASE BankStep
  <2>1. UNCHANGED store
    BY <1>4, Zenon DEF BankStep, tick, reset, freeze_write_lock, freeze, commitVars
  <2> QED  BY <1>3, <1>4, <2>1, BankStepTypes, Zenon DEF SeqInv, KeptInv
<1>5. CASE UNCHANGED vars
  <2>1. UNCHANGED <<ledger, status_cache, store>> /\ \A x \in Threads : SameThread(x)
    BY <1>5 DEF SameThread, vars, commitVars, batchVars, packetVars, resultVars, mevVars
  <2> QED  BY <1>3, <2>1, ZenonT(60)
<1> QED  BY <1>2, <1>4, <1>5, ZenonT(60) DEF BankingNext, BankStep

-----------------------------------------------------------------------------
(* The slot implements the ledger.                                         *)

LEMMA LedgerInit == BankingInit => L!Init
<1> SUFFICES ASSUME BankingInit PROVE L!Init
  BY Zenon
<1>1. ledger = <<>> /\ bank_hash = {} /\ store = [a \in Accounts |-> <<>>]
  BY ZenonT(60) DEF BankingInit
<1>2. ASSUME NEW a \in Accounts PROVE LedgerState[a] = <<>>
  <2>1. \A x \in Threads : ~Committing(x)
    BY DEF BankingInit, Committing
  <2>2. Unstored(a) = {}
    BY <2>1, UnstoredAt DEF Unstored
  <2> QED  BY <1>1, <2>2, LedgerValue, Zenon
<1>3. LedgerState = [a \in Accounts |-> <<>>]
  <2> HIDE DEF LedgerState
  <2> QED  BY <1>2, LedgerStateIs
<1> QED  BY <1>1, <1>3, Zenon DEF L!Init

LEMMA LedgerStep == SeqInv /\ [BankingNext]_vars => [L!Next]_(L!ledgerVars)
<1> SUFFICES ASSUME SeqInv, [BankingNext]_vars PROVE [L!Next]_(L!ledgerVars)
  OBVIOUS
<1>0. TypeInv
  BY DEF SeqInv, KeptInv
<1>1. ASSUME NEW th \in Threads, ThreadStep(th) PROVE [L!Next]_(L!ledgerVars)
  <2>1. CASE record_entry(th)
    BY <2>1, RecordRefines, Zenon DEF L!Next
  <2>2. CASE ~record_entry(th)
    <3>1. UNCHANGED ledger
      BY <1>1, <2>2, BlockStep, Zenon
    <3>2. LedgerState' = LedgerState
      <4>1. CASE store_cached(th)
        BY <4>1, StoreLedger, Zenon
      <4>2. CASE filter_program_errors_and_collect_fee(th)
        BY <4>2, FeeLedger, Zenon
      <4>3. CASE ~store_cached(th) /\ ~filter_program_errors_and_collect_fee(th)
        BY <1>0, <1>1, <2>2, <4>3, BlockStep, QuietLedger, ZenonT(60)
      <4> QED  BY <4>1, <4>2, <4>3, Zenon
    <3>3. UNCHANGED bank_hash
      BY <1>1, BankUntouched DEF bankVars
    <3> QED  BY <3>1, <3>2, <3>3, Zenon DEF L!ledgerVars
  <2> QED  BY <2>1, <2>2
<1>2. ASSUME UNCHANGED <<ledger, bank_hash, store>>, \A x \in Threads : SameThread(x)
      PROVE  UNCHANGED L!ledgerVars
  <2>1. ASSUME NEW a \in Accounts PROVE LedgerState'[a] = LedgerState[a]
    <3>1. Unstored(a)' = Unstored(a)
      BY <1>2, SameThreadSeq, SameUnstored
    <3> QED  BY <1>2, <3>1, LedgerValue, Zenon
  <2> QED  BY <1>2, <2>1, LedgerStateKept, ZenonT(60) DEF L!ledgerVars
<1>3. CASE freeze
  BY <1>3, FreezeRefines, Zenon DEF L!Next
<1>4. CASE tick \/ reset \/ freeze_write_lock
  <2>1. UNCHANGED <<ledger, bank_hash, store>>
    BY <1>4 DEF tick, reset, freeze_write_lock, commitVars
  <2> QED  BY <1>0, <1>2, <1>4, <2>1, BankStepTypes, ZenonT(60) DEF BankStep
<1>5. CASE UNCHANGED vars
  <2>1. UNCHANGED <<ledger, bank_hash, store>> /\ \A x \in Threads : SameThread(x)
    BY <1>5 DEF SameThread, vars, bankVars, commitVars, batchVars, packetVars, resultVars, mevVars
  <2> QED  BY <1>2, <2>1, ZenonT(60)
<1> QED  BY <1>1, <1>3, <1>4, <1>5, ZenonT(60) DEF BankingNext

\* The block replays: whatever the threads interleave, every recorded entry
\* saw the accounts as the entries before it left them, does not conflict
\* within itself, repeats no transaction, and the frozen bank hashes the state
\* after the last entry.
THEOREM BlockReplays == BankingSpec => BlockIsSequential
<1>1. SeqInv /\ [BankingNext]_vars => SeqInv'
  BY SeqStep
<1>2. SeqInv /\ [BankingNext]_vars => [L!Next]_(L!ledgerVars)
  BY LedgerStep
<1> QED  BY SeqInit, LedgerInit, <1>1, <1>2, PTL DEF BankingSpec, BlockIsSequential, L!Spec
============================================================================
