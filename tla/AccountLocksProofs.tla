------------------------- MODULE AccountLocksProofs -------------------------
(***************************************************************************)
(* TLAPS proofs that the lock table of AccountLocks is exact and that it   *)
(* excludes conflicting transactions, for any threads, accounts,           *)
(* transactions, lock sets and batch size.                                 *)
(*                                                                         *)
(* Every action either leaves the set of holders alone (NoChange), adds    *)
(* the one transaction lock_account grants its locks to (Grant), or        *)
(* removes the one unlock_account releases (Release).  The three lemmas    *)
(* show that each kind of step preserves the two properties; the step      *)
(* theorem shows that every action is of one of the three kinds.           *)
(***************************************************************************)
EXTENDS AccountLocks, FiniteSetTheorems, TLAPS

\* What the two properties need of the control state: the mutex belongs to the
\* thread that is inside lock_accounts_inner or unlock_accounts, the results
\* run parallel to the transactions, and a batch that goes through
\* lock_accounts_inner will need to be unlocked.
BatchBookkeeping ==
    \A th \in Threads :
        /\ phase[th] \in {"locking", "unlocking"} <=> mutex = th
        /\ Len(lock_results[th]) = Len(batch[th])
        /\ Len(batch[th]) <= MaxBatch
        /\ phase[th] \in {"prepared", "locking"} => needs_unlock[th]

LockInv == TypeOK /\ BatchBookkeeping /\ MutualExclusion /\ LockTableExact

-----------------------------------------------------------------------------
(* The lock sets of a transaction are sets of accounts.                    *)
LEMMA KeysType ==
    ASSUME NEW t \in Txs
    PROVE  WriteKeys(t) \subseteq Accounts /\ ReadKeys(t) \subseteq Accounts
<1>1. \A p \in MonitoredPools :
          /\ p.info \subseteq Accounts /\ p.vaults \subseteq Accounts
          /\ p.source \subseteq Accounts /\ p.destination \subseteq Accounts
  BY MevAssumption DEF PoolKeys
<1>2. get_write_accounts \subseteq Accounts
  BY <1>1 DEF get_write_accounts
<1>3. get_readonly_accounts \subseteq Accounts
  BY <1>1, MevAssumption DEF get_readonly_accounts
<1> QED BY <1>2, <1>3, KeysAssumption DEF WriteKeys, ReadKeys

(* There are finitely many slots, hence holders and readers of an account. *)
LEMMA SlotsFinite == IsFiniteSet(Slots)
<1>1. IsFiniteSet(1..MaxBatch)
  BY BatchAssumption, FS_Interval
<1> QED BY <1>1, ThreadsAssumption, FS_Product, Zenon DEF Slots

LEMMA ReadersFinite ==
    ASSUME NEW a
    PROVE  IsFiniteSet(Readers(a)) /\ IsFiniteSet(Readers(a)')
<1>1. Readers(a) \in SUBSET Slots
  BY DEF Readers, Holders
<1>2. Readers(a)' \in SUBSET Slots
  BY DEF Readers, Holders, Slots
<1> QED BY <1>1, <1>2, SlotsFinite, FS_Subset

(* A holder is a slot of a thread whose batch has a transaction there.     *)
LEMMA HolderTx ==
    ASSUME TypeOK, NEW s \in Holders
    PROVE  /\ s[1] \in Threads
           /\ s[2] \in DOMAIN batch[s[1]]
           /\ TxOf(s) \in Txs
BY DEF TypeOK, Holders, Slots, Holds, TxOf

-----------------------------------------------------------------------------
(* A step that changes neither the holders nor the table.                  *)
LEMMA NoChange ==
    ASSUME MutualExclusion, LockTableExact,
           UNCHANGED <<write_locks, readonly_locks>>,
           Holders' = Holders,
           \A s \in Holders : TxOf(s)' = TxOf(s)
    PROVE  MutualExclusion' /\ LockTableExact'
<1>1. MutualExclusion'
  BY DEF MutualExclusion
<1>2. ASSUME NEW a
      PROVE  Readers(a)' = Readers(a) /\ Writers(a)' = Writers(a)
  BY DEF Readers, Writers
<1>3. LockTableExact'
  BY <1>2 DEF LockTableExact
<1> QED BY <1>1, <1>3

(* lock_account grants transaction i of th its whole lock set.             *)
LEMMA Grant ==
    ASSUME TypeOK, MutualExclusion, LockTableExact,
           NEW s \in Slots, s \notin Holders,
           Holders' = Holders \cup {s},
           \A r \in Holders \cup {s} : TxOf(r)' = TxOf(r),
           TxOf(s) \in Txs,
           ~AccountInUse(TxOf(s)),
           write_locks' = write_locks \cup WriteKeys(TxOf(s)),
           readonly_locks' =
               [a \in Accounts |-> IF a \in ReadKeys(TxOf(s))
                                   THEN readonly_locks[a] + 1 ELSE readonly_locks[a]]
    PROVE  MutualExclusion' /\ LockTableExact'
<1> DEFINE t == TxOf(s)
<1>1. ASSUME NEW r \in Holders
      PROVE  /\ WriteKeys(t) \cap (WriteKeys(TxOf(r)) \cup ReadKeys(TxOf(r))) = {}
             /\ WriteKeys(TxOf(r)) \cap (WriteKeys(t) \cup ReadKeys(t)) = {}
  <2>1. TxOf(r) \in Txs
    BY HolderTx
  <2>2. WriteKeys(TxOf(r)) \subseteq write_locks
    BY <2>1, KeysType DEF LockTableExact, Writers
  <2>3. ASSUME NEW a \in ReadKeys(TxOf(r))
        PROVE  is_locked_readonly(a)
    <3>1. a \in Accounts /\ r \in Readers(a)
      BY <2>1, KeysType DEF Readers
    <3>2. Cardinality(Readers(a)) # 0 /\ Cardinality(Readers(a)) \in Nat
      BY <3>1, ReadersFinite, FS_EmptySet, FS_CardinalityType
    <3> QED BY <3>1, <3>2 DEF LockTableExact, is_locked_readonly
  <2> QED BY <2>2, <2>3 DEF AccountInUse, is_locked_write
<1>2. MutualExclusion'
  BY <1>1 DEF MutualExclusion
<1>3. ASSUME NEW a \in Accounts
      PROVE  a \in write_locks' <=> Writers(a)' # {}
  <2>1. Writers(a)' = IF a \in WriteKeys(t) THEN Writers(a) \cup {s} ELSE Writers(a)
    BY DEF Writers
  <2> QED BY <2>1 DEF LockTableExact
<1>4. ASSUME NEW a \in Accounts
      PROVE  readonly_locks'[a] = Cardinality(Readers(a)')
  <2>1. Readers(a)' = IF a \in ReadKeys(t) THEN Readers(a) \cup {s} ELSE Readers(a)
    BY DEF Readers
  <2>2. s \notin Readers(a)
    BY DEF Readers
  <2>3. IsFiniteSet(Readers(a))
    BY ReadersFinite
  <2>4. Cardinality(Readers(a) \cup {s}) = Cardinality(Readers(a)) + 1
    BY <2>2, <2>3, FS_AddElement, Zenon
  <2> QED BY <2>1, <2>4 DEF LockTableExact
<1> QED BY <1>2, <1>3, <1>4 DEF LockTableExact

(* unlock_account releases the lock set of transaction i of th.            *)
LEMMA Release ==
    ASSUME TypeOK, MutualExclusion, LockTableExact,
           NEW s \in Holders,
           Holders' = Holders \ {s},
           \A r \in Holders : TxOf(r)' = TxOf(r),
           write_locks' = write_locks \ WriteKeys(TxOf(s)),
           readonly_locks' =
               [a \in Accounts |-> IF a \in ReadKeys(TxOf(s)) /\ readonly_locks[a] > 0
                                   THEN readonly_locks[a] - 1 ELSE readonly_locks[a]]
    PROVE  MutualExclusion' /\ LockTableExact'
<1> DEFINE t == TxOf(s)
<1>1. MutualExclusion'
  BY DEF MutualExclusion
<1>2. ASSUME NEW a \in Accounts
      PROVE  a \in write_locks' <=> Writers(a)' # {}
  <2>1. Writers(a)' = Writers(a) \ {s}
    BY DEF Writers
  <2>2. a \in WriteKeys(t) => Writers(a) = {s}
    BY DEF Writers, MutualExclusion
  <2>3. a \notin WriteKeys(t) => s \notin Writers(a)
    BY DEF Writers
  <2> QED BY <2>1, <2>2, <2>3 DEF LockTableExact
<1>3. ASSUME NEW a \in Accounts
      PROVE  readonly_locks'[a] = Cardinality(Readers(a)')
  <2>1. Readers(a)' = Readers(a) \ {s}
    BY DEF Readers
  <2>2. IsFiniteSet(Readers(a))
    BY ReadersFinite
  <2>3. CASE a \in ReadKeys(t)
    <3>1. s \in Readers(a)
      BY <2>3 DEF Readers
    <3>2. Cardinality(Readers(a)') = Cardinality(Readers(a)) - 1
      BY <2>1, <2>2, <3>1, FS_RemoveElement, Zenon
    <3>3. Cardinality(Readers(a)) \in Nat /\ Cardinality(Readers(a)) # 0
      BY <2>2, <3>1, FS_EmptySet, FS_CardinalityType
    <3> QED BY <2>3, <3>2, <3>3 DEF LockTableExact
  <2>4. CASE a \notin ReadKeys(t)
    <3>1. Readers(a)' = Readers(a)
      BY <2>1, <2>4 DEF Readers
    <3> QED BY <2>4, <3>1 DEF LockTableExact
  <2> QED BY <2>3, <2>4
<1> QED BY <1>1, <1>2, <1>3 DEF LockTableExact

-----------------------------------------------------------------------------
(* Every action keeps the types and the bookkeeping of the batches.        *)
LEMMA TypeStep ==
    ASSUME TypeOK, BatchBookkeeping, [Next]_lockVars
    PROVE  TypeOK' /\ BatchBookkeeping'
<1> USE DEF TypeOK, BatchBookkeeping, Phases
<1>1. ASSUME NEW th \in Threads, NEW txs \in Batches, NEW qos \in [DOMAIN txs -> QosResults],
             prepare_sanitized_batch_with_results(th, txs, qos)
      PROVE  TypeOK' /\ BatchBookkeeping'
  <2> DEFINE res == Verdicts(txs, qos)
  <2>1. txs \in Seq(Txs) /\ Len(txs) \in 1..MaxBatch /\ DOMAIN txs = 1..Len(txs)
    BY BatchAssumption DEF Batches
  <2>2. res \in Seq(LockResults) /\ Len(res) = Len(txs)
    <3>1. ASSUME NEW i \in 1..Len(txs)
          PROVE  res[i] \in LockResults
      <4>1. qos[i] \in QosResults /\ SanitizeResult[txs[i]] \in SanitizeResults
        BY <2>1, KeysAssumption
      <4>2. qos[i] = "Ok" \/ qos[i] \in QosErrors
        BY <4>1, KeysAssumption, Zenon
      <4> QED BY <4>1, <4>2 DEF LockResults, Verdicts, Verdict
    <3> QED BY <2>1, <3>1 DEF Verdicts
  <2> HIDE DEF res
  <2>3. lock_results' = [lock_results EXCEPT ![th] = res]
    BY <1>1 DEF prepare_sanitized_batch_with_results, res
  <2> QED BY <1>1, <2>1, <2>2, <2>3, NoThreadAssumption
          DEF prepare_sanitized_batch_with_results
<1>2. ASSUME NEW th \in Threads, NEW t \in Txs, prepare_simulation_batch(th, t)
      PROVE  TypeOK' /\ BatchBookkeeping'
  <2>1. SanitizeResult[t] \in LockResults
    BY KeysAssumption DEF LockResults
  <2> QED BY <1>2, <2>1, BatchAssumption, NoThreadAssumption DEF prepare_simulation_batch
<1>3. ASSUME NEW th \in Threads, lock_accounts_inner(th)
      PROVE  TypeOK' /\ BatchBookkeeping'
  BY <1>3, NoThreadAssumption DEF lock_accounts_inner
<1>4. ASSUME NEW th \in Threads, lock_account(th)
      PROVE  TypeOK' /\ BatchBookkeeping'
  <2> DEFINE i == pos[th]
  <2>1. i \in Nat \ {0} /\ i \in 1..Len(lock_results[th])
    BY <1>4 DEF lock_account
  <2>2. write_locks' \in SUBSET Accounts /\ readonly_locks' \in [Accounts -> Nat]
    <3> DEFINE t == batch[th][i]
    <3>1. t \in Txs
      BY <2>1
    <3>2. WriteKeys(t) \subseteq Accounts
      BY <3>1, KeysType
    <3> HIDE DEF t
    <3>3. \/ UNCHANGED <<write_locks, readonly_locks>>
          \/ /\ write_locks' = write_locks \cup WriteKeys(t)
             /\ readonly_locks' =
                    [a \in Accounts |->
                        IF a \in ReadKeys(t) THEN readonly_locks[a] + 1 ELSE readonly_locks[a]]
      BY <1>4 DEF lock_account, t
    <3> QED BY <3>2, <3>3, SMTT(60)
  <2>3. UNCHANGED <<mutex, phase, batch, needs_unlock>> /\ pos' = [pos EXCEPT ![th] = i + 1]
    BY <1>4 DEF lock_account
  <2>4. lock_results' \in [Threads -> Seq(LockResults)]
        /\ \A x \in Threads : Len(lock_results'[x]) = Len(lock_results[x])
    <3>1. CASE UNCHANGED lock_results
      BY <3>1
    <3>2. CASE lock_results' = [lock_results EXCEPT ![th][i] = "AccountInUse"]
      <4>1. lock_results'[th] \in Seq(LockResults)
            /\ Len(lock_results'[th]) = Len(lock_results[th])
        BY <2>1, <3>2, SMTT(60) DEF LockResults
      <4> QED BY <3>2, <4>1
    <3>3. UNCHANGED lock_results \/ lock_results' = [lock_results EXCEPT ![th][i] = "AccountInUse"]
      BY <1>4 DEF lock_account
    <3> QED BY <3>1, <3>2, <3>3
  <2>5. pos' \in [Threads -> Nat \ {0}]
    BY <2>1, <2>3
  <2> HIDE DEF i
  <2>6. BatchBookkeeping'
    BY <2>3, <2>4
  <2> QED BY <2>2, <2>3, <2>4, <2>5, <2>6, Zenon
<1>5. ASSUME NEW th \in Threads, lock_accounts_return(th)
      PROVE  TypeOK' /\ BatchBookkeeping'
  BY <1>5, NoThreadAssumption DEF lock_accounts_return
<1>6. ASSUME NEW th \in Threads, drop_batch(th)
      PROVE  TypeOK' /\ BatchBookkeeping'
  BY <1>6, BatchAssumption, SMTT(60) DEF drop_batch
<1>7. ASSUME NEW th \in Threads, unlock_accounts(th)
      PROVE  TypeOK' /\ BatchBookkeeping'
  BY <1>7, NoThreadAssumption, SMTT(60) DEF unlock_accounts
<1>8. ASSUME NEW th \in Threads, unlock_account(th)
      PROVE  TypeOK' /\ BatchBookkeeping'
  <2>1. write_locks' \in SUBSET Accounts /\ readonly_locks' \in [Accounts -> Nat]
    BY <1>8, SMTT(60) DEF unlock_account
  <2> QED BY <1>8, <2>1 DEF unlock_account
<1>9. ASSUME NEW th \in Threads, unlock_accounts_return(th)
      PROVE  TypeOK' /\ BatchBookkeeping'
  BY <1>9, BatchAssumption, NoThreadAssumption, SMTT(60) DEF unlock_accounts_return
<1>10. CASE UNCHANGED lockVars
  BY <1>10 DEF lockVars
<1> QED BY <1>1, <1>2, <1>3, <1>4, <1>5, <1>6, <1>7, <1>8, <1>9, <1>10, Zenon DEF Next

-----------------------------------------------------------------------------
(* A step that grants or releases nothing, slot by slot.                   *)
LEMMA QuietStep ==
    ASSUME MutualExclusion, LockTableExact,
           UNCHANGED <<write_locks, readonly_locks>>,
           \A x \in Threads, i \in 1..MaxBatch :
               /\ Holds(x, i)' <=> Holds(x, i)
               /\ Holds(x, i) => batch'[x][i] = batch[x][i]
    PROVE  MutualExclusion' /\ LockTableExact'
<1>1. Holders' = Holders
  BY DEF Holders, Slots
<1>2. \A s \in Holders : TxOf(s)' = TxOf(s)
  BY DEF Holders, Slots, TxOf
<1> QED BY <1>1, <1>2, NoChange

(* Every action grants nothing, one transaction or releases one.           *)
LEMMA HoldersStep ==
    ASSUME LockInv, [Next]_lockVars
    PROVE  MutualExclusion' /\ LockTableExact'
<1> USE DEF LockInv
<1> DEFINE Quiet == \A x \in Threads, i \in 1..MaxBatch :
                        /\ Holds(x, i)' <=> Holds(x, i)
                        /\ Holds(x, i) => batch'[x][i] = batch[x][i]
<1>1. ASSUME NEW th \in Threads, NEW txs \in Batches, NEW qos \in [DOMAIN txs -> QosResults],
             prepare_sanitized_batch_with_results(th, txs, qos)
      PROVE  Quiet
  BY <1>1, ZenonT(60) DEF prepare_sanitized_batch_with_results, Holds, TypeOK
<1>2. ASSUME NEW th \in Threads, NEW t \in Txs, prepare_simulation_batch(th, t)
      PROVE  Quiet
  BY <1>2 DEF prepare_simulation_batch, Holds, TypeOK
<1>3. ASSUME NEW th \in Threads, lock_accounts_inner(th)
      PROVE  Quiet
  BY <1>3, SMTT(60) DEF lock_accounts_inner, Holds, TypeOK
<1>4. ASSUME NEW th \in Threads, lock_account(th)
      PROVE  MutualExclusion' /\ LockTableExact'
  <2> DEFINE i == pos[th]
             s == <<th, i>>
  <2>1. /\ phase[th] = "locking" /\ i \in Nat \ {0} /\ i <= Len(batch[th])
        /\ i \in 1..MaxBatch /\ i \in DOMAIN batch[th] /\ i \in DOMAIN lock_results[th]
        /\ batch[th][i] \in Txs
        /\ pos' = [pos EXCEPT ![th] = i + 1] /\ UNCHANGED <<phase, batch, needs_unlock>>
    BY <1>4, BatchAssumption, SMTT(60) DEF lock_account, TypeOK, BatchBookkeeping
  <2>2. CASE lock_results[th][i] # "Ok" /\ UNCHANGED <<write_locks, readonly_locks, lock_results>>
    <3>1. Quiet
      BY <2>1, <2>2, SMTT(60) DEF Holds, TypeOK
    <3> QED BY <2>2, <3>1, QuietStep, Zenon
  <2>3. CASE /\ lock_results' = [lock_results EXCEPT ![th][i] = "AccountInUse"]
             /\ UNCHANGED <<write_locks, readonly_locks>>
    <3>1. Quiet
      BY <2>1, <2>3, SMTT(60) DEF Holds, TypeOK
    <3> QED BY <2>3, <3>1, QuietStep, Zenon
  <2>4. CASE /\ lock_results[th][i] = "Ok" /\ UNCHANGED lock_results
             /\ ~AccountInUse(batch[th][i])
             /\ write_locks' = write_locks \cup WriteKeys(batch[th][i])
             /\ readonly_locks' =
                    [a \in Accounts |-> IF a \in ReadKeys(batch[th][i])
                                        THEN readonly_locks[a] + 1 ELSE readonly_locks[a]]
    <3>1. ASSUME NEW x \in Threads, NEW j \in 1..MaxBatch
          PROVE  Holds(x, j)' <=> Holds(x, j) \/ (x = th /\ j = i)
      BY <2>1, <2>4, SMTT(60) DEF Holds, TypeOK
    <3>2. ~Holds(th, i)
      BY <2>1 DEF Holds
    <3>3. s \in Slots /\ s \notin Holders /\ TxOf(s) = batch[th][i]
      BY <2>1, <3>2, Zenon DEF Slots, Holders, TxOf
    <3>4. Holders' = Holders \cup {s}
      BY <2>1, <3>1, SMTT(60) DEF Holders, Slots
    <3>5. \A r \in Holders \cup {s} : TxOf(r)' = TxOf(r)
      BY <2>1, Zenon DEF TxOf
    <3> HIDE DEF s
    <3> QED BY <2>1, <2>4, <3>3, <3>4, <3>5, Grant, Zenon
  <2> QED BY <1>4, <2>2, <2>3, <2>4, Zenon DEF lock_account
<1>5. ASSUME NEW th \in Threads, lock_accounts_return(th)
      PROVE  Quiet
  BY <1>5, SMTT(60) DEF lock_accounts_return, Holds, TypeOK, BatchBookkeeping
<1>6. ASSUME NEW th \in Threads, drop_batch(th)
      PROVE  Quiet
  BY <1>6, ZenonT(60) DEF drop_batch, Holds, TypeOK
<1>7. ASSUME NEW th \in Threads, unlock_accounts(th)
      PROVE  Quiet
  BY <1>7, SMTT(60) DEF unlock_accounts, Holds, TypeOK
<1>8. ASSUME NEW th \in Threads, unlock_account(th)
      PROVE  MutualExclusion' /\ LockTableExact'
  <2> DEFINE i == pos[th]
             s == <<th, i>>
  <2>1. /\ phase[th] = "unlocking" /\ i \in Nat \ {0} /\ i <= Len(batch[th])
        /\ i \in 1..MaxBatch /\ i \in DOMAIN batch[th]
        /\ lock_results[th][i] \in LockResults
        /\ pos' = [pos EXCEPT ![th] = i + 1]
        /\ UNCHANGED <<phase, batch, needs_unlock, lock_results>>
    BY <1>8, BatchAssumption, SMTT(60) DEF unlock_account, TypeOK, BatchBookkeeping
  <2>2. lock_results[th][i] = "Ok" <=> lock_results[th][i] \notin NeverLocked
    BY <2>1, Zenon DEF LockResults, SanitizeResults, NeverLocked, QosErrors
  <2>3. CASE lock_results[th][i] \in NeverLocked /\ UNCHANGED <<write_locks, readonly_locks>>
    <3>1. Quiet
      BY <2>1, <2>2, <2>3, SMTT(60) DEF Holds, TypeOK
    <3> QED BY <2>3, <3>1, QuietStep, Zenon
  <2>4. CASE /\ lock_results[th][i] \notin NeverLocked
             /\ write_locks' = write_locks \ WriteKeys(batch[th][i])
             /\ readonly_locks' =
                    [a \in Accounts |->
                        IF a \in ReadKeys(batch[th][i]) /\ readonly_locks[a] > 0
                        THEN readonly_locks[a] - 1 ELSE readonly_locks[a]]
    <3>1. ASSUME NEW x \in Threads, NEW j \in 1..MaxBatch
          PROVE  Holds(x, j)' <=> Holds(x, j) /\ ~(x = th /\ j = i)
      BY <2>1, SMTT(60) DEF Holds, TypeOK
    <3>2. Holds(th, i)
      <4>1. lock_results[th][i] = "Ok"
        BY <2>2, <2>4
      <4> QED BY <2>1, <4>1, SMTT(60) DEF Holds
    <3>3. s \in Holders /\ TxOf(s) = batch[th][i]
      BY <2>1, <3>2 DEF Slots, Holders, TxOf
    <3>4. Holders' = Holders \ {s}
      BY <2>1, <3>1 DEF Holders, Slots
    <3>5. \A r \in Holders : TxOf(r)' = TxOf(r)
      BY <2>1, Zenon DEF TxOf
    <3> HIDE DEF s
    <3> QED BY <2>4, <3>3, <3>4, <3>5, Release, Zenon
  <2> QED BY <1>8, <2>3, <2>4, Zenon DEF unlock_account
<1>9. ASSUME NEW th \in Threads, unlock_accounts_return(th)
      PROVE  Quiet
  BY <1>9, SMTT(60) DEF unlock_accounts_return, Holds, TypeOK
<1>10. CASE UNCHANGED lockVars
  <2>1. Quiet
    BY <1>10, Zenon DEF lockVars, Holds
  <2> QED BY <1>10, <2>1, QuietStep, Zenon DEF lockVars
<1>11. ASSUME NEW th \in Threads, Quiet,
              \/ \E txs \in Batches : \E qos \in [DOMAIN txs -> QosResults] :
                     prepare_sanitized_batch_with_results(th, txs, qos)
              \/ \E t \in Txs : prepare_simulation_batch(th, t)
              \/ lock_accounts_inner(th) \/ lock_accounts_return(th) \/ drop_batch(th)
              \/ unlock_accounts(th) \/ unlock_accounts_return(th)
       PROVE  MutualExclusion' /\ LockTableExact'
  <2>1. UNCHANGED <<write_locks, readonly_locks>>
    BY <1>11 DEF prepare_sanitized_batch_with_results, prepare_simulation_batch,
                 lock_accounts_inner, lock_accounts_return, drop_batch, unlock_accounts,
                 unlock_accounts_return
  <2> QED BY <1>11, <2>1, QuietStep, Zenon
<1> HIDE DEF Quiet
<1> QED BY <1>1, <1>2, <1>3, <1>4, <1>5, <1>6, <1>7, <1>8, <1>9, <1>10, <1>11, Zenon DEF Next

-----------------------------------------------------------------------------
(* The lock table is empty, and exact, when the bank is created.           *)
LEMMA InitLock == Init => LockInv
<1> SUFFICES ASSUME Init PROVE LockInv
  OBVIOUS
<1>1. TypeOK /\ BatchBookkeeping
  BY NoThreadAssumption, BatchAssumption DEF Init, TypeOK, BatchBookkeeping, Phases
<1>2. Holders = {}
  BY DEF Init, Holders, Slots, Holds
<1>3. \A a : Readers(a) = {} /\ Writers(a) = {}
  BY <1>2 DEF Readers, Writers
<1>4. LockTableExact
  BY <1>3, FS_EmptySet DEF LockTableExact, Init
<1> QED BY <1>1, <1>2, <1>4 DEF LockInv, MutualExclusion

(* LockInv is inductive.                                                   *)
LEMMA LockStep == LockInv /\ [Next]_lockVars => LockInv'
BY TypeStep, HoldersStep DEF LockInv

(* For every number of threads, every batch size, every configuration of    *)
(* pools and every lock set: the readonly counts of the lock table never   *)
(* go below zero and the batch bookkeeping keeps its types.                *)
THEOREM LockTypes == Spec => []TypeOK
<1>1. LockInv => TypeOK
  BY DEF LockInv
<1> QED BY <1>1, InitLock, LockStep, PTL DEF Spec

(* lock_accounts keeps its promise: no two transactions in flight hold an  *)
(* account that one of them writes.                                        *)
THEOREM LocksExclude == Spec => []MutualExclusion
<1>1. LockInv => MutualExclusion
  BY DEF LockInv
<1> QED BY <1>1, InitLock, LockStep, PTL DEF Spec

(* The table records exactly the transactions in flight: batches release   *)
(* what they took, neither less nor more.                                  *)
THEOREM LocksExact == Spec => []LockTableExact
<1>1. LockInv => LockTableExact
  BY DEF LockInv
<1> QED BY <1>1, InitLock, LockStep, PTL DEF Spec

-----------------------------------------------------------------------------
(* AccountLocks implements BatchLocks.  The invariant the proof needs      *)
(* beyond LockInv says what the loop of lock_accounts_inner has decided so *)
(* far: each transaction behind pos has its locks iff nothing in force,    *)
(* and nothing granted earlier in its batch, conflicts with it.  The table *)
(* says so because it is exact (LockTableExact), and it stays so because   *)
(* the mutex keeps every other batch from being granted or released while  *)
(* the loop runs.                                                          *)

\* Transaction i of the batch of th conflicts with a batch in force or with an
\* earlier granted transaction of its own batch.
Blocked(th, i) ==
    \/ Locks!InUse(th, batch[th][i])
    \/ \E j \in 1..(i - 1) :
           lock_results[th][j] = "Ok" /\ Conflict(batch[th][i], batch[th][j])

Decided(th, i) == phase[th] = "locking" /\ i < pos[th]

\* The result of transaction i is its verdict, or the loop has refused it.
VerdictKept(th, i) ==
    \E q \in QosResults :
        \/ lock_results[th][i] = Verdict(batch[th][i], q)
        \/ /\ Verdict(batch[th][i], q) = "Ok"
           /\ Decided(th, i) /\ lock_results[th][i] = "AccountInUse"

Greedy(th) ==
    /\ phase[th] \in {"prepared", "locking"} \/ InForce(th) => batch[th] \in Batches
    /\ phase[th] \in {"prepared", "locking"} =>
           \A i \in DOMAIN batch[th] :
               /\ VerdictKept(th, i)
               /\ Decided(th, i) /\ lock_results[th][i] = "Ok" => ~Blocked(th, i)
               /\ Decided(th, i) /\ lock_results[th][i] = "AccountInUse" => Blocked(th, i)

GreedyInv == \A th \in Threads : Greedy(th)

-----------------------------------------------------------------------------
(* A verdict is never AccountInUse.                                        *)
LEMMA VerdictValues ==
    ASSUME NEW t \in Txs, NEW q \in QosResults
    PROVE  Verdict(t, q) # "AccountInUse"
BY KeysAssumption DEF Verdict, SanitizeResults, QosErrors

(* The checks of lock_account find exactly the conflicts with the holders. *)
LEMMA InUseIsConflict ==
    ASSUME LockInv, NEW t \in Txs
    PROVE  AccountInUse(t) <=> \E s \in Holders : Conflict(t, TxOf(s))
<1> USE DEF LockInv
<1>1. WriteKeys(t) \subseteq Accounts /\ ReadKeys(t) \subseteq Accounts
  BY KeysType
<1>2. ASSUME NEW a \in Accounts
      PROVE  /\ is_locked_write(a) <=> \E s \in Holders : a \in WriteKeys(TxOf(s))
             /\ is_locked_readonly(a) <=> \E s \in Holders : a \in ReadKeys(TxOf(s))
  <2>1. is_locked_write(a) <=> \E s \in Holders : a \in WriteKeys(TxOf(s))
    BY DEF LockTableExact, is_locked_write, Writers
  <2>2. IsFiniteSet(Readers(a))
    BY ReadersFinite
  <2>3. Cardinality(Readers(a)) \in Nat /\ (Cardinality(Readers(a)) = 0 <=> Readers(a) = {})
    BY <2>2, FS_CardinalityType, FS_EmptySet
  <2>4. is_locked_readonly(a) <=> Readers(a) # {}
    BY <2>3 DEF LockTableExact, is_locked_readonly
  <2> QED BY <2>1, <2>4 DEF Readers
<1> QED BY <1>1, <1>2 DEF AccountInUse, Conflict

(* The instance sees the same lock sets, verdicts and batches.             *)
LEMMA SameLockSets ==
    /\ \A t, u : Locks!Conflict(t, u) <=> Conflict(t, u)
    /\ \A t, q : Locks!Verdict(t, q) = Verdict(t, q)
    /\ \A txs, qos : Locks!Verdicts(txs, qos) = Verdicts(txs, qos)
    /\ Locks!Batches = Batches
<1>1. \A p : Locks!Extracting(p) <=> Extracting(p)
  BY DEF Locks!Extracting, Extracting
<1>2. /\ Locks!get_write_accounts = get_write_accounts
      /\ Locks!get_readonly_accounts = get_readonly_accounts
  BY <1>1 DEF Locks!get_write_accounts, get_write_accounts,
              Locks!get_readonly_accounts, get_readonly_accounts
<1>3. \A t : Locks!has_mev_keys(t) <=> has_mev_keys(t)
  BY DEF Locks!has_mev_keys, has_mev_keys, Locks!is_monitored_account, is_monitored_account
<1>4. \A t : Locks!WriteKeys(t) = WriteKeys(t) /\ Locks!ReadKeys(t) = ReadKeys(t)
  BY <1>2, <1>3 DEF Locks!WriteKeys, WriteKeys, Locks!ReadKeys, ReadKeys
<1>5. \A t, u : Locks!Conflict(t, u) <=> Conflict(t, u)
  BY <1>4 DEF Locks!Conflict, Conflict
<1>6. \A t, q : Locks!Verdict(t, q) = Verdict(t, q)
  BY DEF Locks!Verdict, Verdict
<1>7. \A txs, qos : Locks!Verdicts(txs, qos) = Verdicts(txs, qos)
  BY <1>6, Zenon DEF Locks!Verdicts, Verdicts
<1> QED BY <1>5, <1>6, <1>7 DEF Locks!Batches, Batches

(* InUse of the abstract specification, in terms of the concrete batches.  *)
LEMMA InUseMeans ==
    ASSUME NEW th, NEW t
    PROVE  Locks!InUse(th, t) <=>
               \E x \in Threads \ {th} :
                   /\ InForce(x)
                   /\ \E j \in DOMAIN batch[x] :
                          lock_results[x][j] = "Ok" /\ Conflict(t, batch[x][j])
<1>1. ASSUME NEW x \in Threads, NEW j
      PROVE  j \in Locks!Granted(x) <=>
                 InForce(x) /\ j \in DOMAIN batch[x] /\ lock_results[x][j] = "Ok"
  <2>1. CASE InForce(x)
    BY <2>1 DEF Locks!Granted
  <2>2. CASE ~InForce(x)
    BY <2>2 DEF Locks!Granted
  <2> QED BY <2>1, <2>2, Zenon
<1>2. ASSUME NEW x \in Threads, InForce(x)
      PROVE  [y \in Threads |-> IF InForce(y) THEN batch[y] ELSE <<>>][x] = batch[x]
  BY <1>2, Zenon
<1> QED BY <1>1, <1>2, SameLockSets, Zenon DEF Locks!InUse

LEMMA InUseMeansNext ==
    ASSUME NEW th, NEW t
    PROVE  Locks!InUse(th, t)' <=>
               \E x \in Threads \ {th} :
                   /\ InForce(x)'
                   /\ \E j \in DOMAIN batch'[x] :
                          lock_results'[x][j] = "Ok" /\ Conflict(t, batch'[x][j])
<1>1. ASSUME NEW x \in Threads, NEW j
      PROVE  j \in Locks!Granted(x)' <=>
                 InForce(x)' /\ j \in DOMAIN batch'[x] /\ lock_results'[x][j] = "Ok"
  <2>1. CASE InForce(x)'
    BY <2>1 DEF Locks!Granted
  <2>2. CASE ~InForce(x)'
    BY <2>2 DEF Locks!Granted
  <2> QED BY <2>1, <2>2, Zenon
<1>2. ASSUME NEW x \in Threads, InForce(x)'
      PROVE  [y \in Threads |-> IF InForce(y)' THEN batch'[y] ELSE <<>>][x] = batch'[x]
  BY <1>2, Zenon
<1> QED BY <1>1, <1>2, SameLockSets, Zenon DEF Locks!InUse

(* A step that leaves the batches in force alone leaves InUse alone, and   *)
(* one that leaves the row of th alone as well leaves Greedy(th) alone.    *)
LEMMA InUseFrame ==
    ASSUME NEW th, NEW t,
           \A x \in Threads : InForce(x)' <=> InForce(x),
           \A x \in Threads : InForce(x) => /\ batch'[x] = batch[x]
                                            /\ lock_results'[x] = lock_results[x]
    PROVE  Locks!InUse(th, t)' <=> Locks!InUse(th, t)
BY InUseMeans, InUseMeansNext, Zenon

LEMMA GreedyFrame ==
    ASSUME NEW th \in Threads, Greedy(th),
           phase'[th] = phase[th], batch'[th] = batch[th],
           lock_results'[th] = lock_results[th], pos'[th] = pos[th],
           needs_unlock'[th] = needs_unlock[th],
           phase[th] = "locking" =>
               \A t : Locks!InUse(th, t)' <=> Locks!InUse(th, t)
    PROVE  Greedy(th)'
<1>1. InForce(th)' <=> InForce(th)
  BY DEF InForce
<1>2. \A i : Decided(th, i)' <=> Decided(th, i)
  BY Zenon DEF Decided
<1>3. \A i : VerdictKept(th, i)' <=> VerdictKept(th, i)
  BY <1>2, Zenon DEF VerdictKept
<1>4. phase[th] = "locking" => \A i : Blocked(th, i)' <=> Blocked(th, i)
  BY Zenon DEF Blocked
<1> QED BY <1>1, <1>2, <1>3, <1>4, Zenon DEF Greedy, Decided

(* While th is inside lock_accounts_inner the check of lock_account finds  *)
(* exactly what blocks the transaction at pos.                             *)
LEMMA InUseIsBlocked ==
    ASSUME LockInv, NEW th \in Threads, phase[th] = "locking", pos[th] \in DOMAIN batch[th]
    PROVE  AccountInUse(batch[th][pos[th]]) <=> Blocked(th, pos[th])
<1> DEFINE t == batch[th][pos[th]]
<1> USE DEF LockInv
<1>1. t \in Txs /\ pos[th] \in Nat \ {0}
  BY DEF TypeOK
<1>2. \A x \in Threads : batch[x] \in Seq(Txs) /\ Len(batch[x]) <= MaxBatch
  BY DEF TypeOK, BatchBookkeeping
<1>3. ASSUME NEW x \in Threads, NEW j
      PROVE  Holds(x, j) <=> /\ j \in DOMAIN batch[x] /\ lock_results[x][j] = "Ok"
                             /\ (x = th /\ j < pos[th]) \/ (x # th /\ InForce(x))
  <2>1. x # th => phase[x] \notin {"locking", "unlocking"}
    BY DEF BatchBookkeeping
  <2> QED BY <2>1 DEF Holds, InForce
<1>4. ASSUME NEW x \in Threads, NEW j \in DOMAIN batch[x]
      PROVE  j \in 1..MaxBatch
  BY <1>2, BatchAssumption, SMTT(60)
<1>5. (\E s \in Holders : Conflict(t, TxOf(s))) <=>
          \E x \in Threads : \E j \in DOMAIN batch[x] : Holds(x, j) /\ Conflict(t, batch[x][j])
  <2>1. ASSUME NEW s \in Holders, Conflict(t, TxOf(s))
        PROVE  \E x \in Threads : \E j \in DOMAIN batch[x] :
                   Holds(x, j) /\ Conflict(t, batch[x][j])
    BY <2>1, Zenon DEF Holders, Slots, TxOf, Holds
  <2>2. ASSUME NEW x \in Threads, NEW j \in DOMAIN batch[x], Holds(x, j),
               Conflict(t, batch[x][j])
        PROVE  \E s \in Holders : Conflict(t, TxOf(s))
    <3>1. <<x, j>> \in Holders /\ TxOf(<<x, j>>) = batch[x][j]
      BY <1>4, <2>2, Zenon DEF Holders, Slots, TxOf
    <3> QED BY <2>2, <3>1, Zenon
  <2> QED BY <2>1, <2>2, Zenon
<1>6. AccountInUse(t) <=> \E s \in Holders : Conflict(t, TxOf(s))
  BY <1>1, InUseIsConflict, Zenon
<1> HIDE DEF t
<1>7. Locks!InUse(th, t) <=>
          \E x \in Threads \ {th} : InForce(x) /\ \E j \in DOMAIN batch[x] :
              lock_results[x][j] = "Ok" /\ Conflict(t, batch[x][j])
  BY InUseMeans
<1>8. \A j : j \in DOMAIN batch[th] /\ j < pos[th] <=> j \in 1..(pos[th] - 1)
  BY <1>1, <1>2, SMTT(60)
<1>9. Blocked(th, pos[th]) <=>
          \/ Locks!InUse(th, t)
          \/ \E j \in 1..(pos[th] - 1) : lock_results[th][j] = "Ok" /\ Conflict(t, batch[th][j])
  BY Zenon DEF Blocked, t
<1> QED BY <1>3, <1>5, <1>6, <1>7, <1>8, <1>9, Zenon DEF t

-----------------------------------------------------------------------------
(* GreedyInv is preserved.  Another thread's row is only at risk while that *)
(* thread is inside lock_accounts_inner; it has the mutex then, so the     *)
(* batches in force cannot change.                                         *)
LEMMA GreedyStep ==
    ASSUME LockInv, GreedyInv, [Next]_lockVars
    PROVE  GreedyInv'
<1> USE DEF LockInv, GreedyInv
<1> DEFINE Still == /\ \A x \in Threads : InForce(x)' <=> InForce(x)
                    /\ \A x \in Threads : InForce(x) => /\ batch'[x] = batch[x]
                                                        /\ lock_results'[x] = lock_results[x]
           Row(x) == /\ phase'[x] = phase[x] /\ batch'[x] = batch[x]
                     /\ lock_results'[x] = lock_results[x] /\ pos'[x] = pos[x]
                     /\ needs_unlock'[x] = needs_unlock[x]
<1>a. ASSUME NEW x \in Threads, Row(x), Still \/ mutex # x
      PROVE  Greedy(x)'
  <2>1. phase[x] = "locking" => Still
    BY <1>a, Zenon DEF BatchBookkeeping
  <2>2. phase[x] = "locking" => \A t : Locks!InUse(x, t)' <=> Locks!InUse(x, t)
    BY <2>1, InUseFrame
  <2> QED BY <1>a, <2>2, GreedyFrame, Zenon
<1>1. ASSUME NEW th \in Threads, NEW txs \in Batches, NEW qos \in [DOMAIN txs -> QosResults],
             prepare_sanitized_batch_with_results(th, txs, qos)
      PROVE  GreedyInv'
  <2> USE <1>1 DEF prepare_sanitized_batch_with_results, TypeOK
  <2>1. Still
    BY DEF InForce
  <2>2. \A x \in Threads \ {th} : Row(x)
    BY Zenon
  <2>3. Greedy(th)'
    <3>1. DOMAIN txs = 1..Len(txs)
      BY DEF Batches
    <3>2. /\ phase'[th] = "prepared" /\ batch'[th] = txs
          /\ lock_results'[th] = Verdicts(txs, qos)
      BY Zenon
    <3>3. \A i \in DOMAIN txs : VerdictKept(th, i)'
      BY <3>1, <3>2, Zenon DEF VerdictKept, Verdicts
    <3> QED BY <3>2, <3>3, Zenon DEF Greedy, Decided
  <2> HIDE DEF Still
  <2> QED BY <1>a, <2>1, <2>2, <2>3, Zenon
<1>2. ASSUME NEW th \in Threads, NEW t \in Txs, prepare_simulation_batch(th, t)
      PROVE  GreedyInv'
  <2> USE <1>2 DEF prepare_simulation_batch, TypeOK
  <2>1. Still
    BY DEF InForce
  <2>2. \A x \in Threads \ {th} : Row(x)
    OBVIOUS
  <2>3. Greedy(th)'
    BY DEF Greedy, InForce
  <2> HIDE DEF Still
  <2> QED BY <1>a, <2>1, <2>2, <2>3, Zenon
<1>3. ASSUME NEW th \in Threads, lock_accounts_inner(th)
      PROVE  GreedyInv'
  <2> USE <1>3 DEF lock_accounts_inner, TypeOK
  <2>1. Still
    BY DEF InForce
  <2>2. \A x \in Threads \ {th} : Row(x)
    OBVIOUS
  <2>3. Greedy(th)'
    <3>1. /\ phase[th] = "prepared" /\ phase'[th] = "locking" /\ batch'[th] = batch[th]
          /\ lock_results'[th] = lock_results[th] /\ pos'[th] = 1
      OBVIOUS
    <3>2. \A i \in DOMAIN batch[th] : ~Decided(th, i)' /\ ~Decided(th, i)
      BY <3>1 DEF Decided
    <3>3. \A i \in DOMAIN batch[th] : VerdictKept(th, i)'
      BY <3>1, <3>2, Zenon DEF Greedy, VerdictKept
    <3> QED BY <3>1, <3>2, <3>3, Zenon DEF Greedy, InForce
  <2> HIDE DEF Still
  <2> QED BY <1>a, <2>1, <2>2, <2>3, Zenon
<1>4. ASSUME NEW th \in Threads, lock_account(th)
      PROVE  GreedyInv'
  <2> DEFINE p == pos[th]
  <2>0. Greedy(th)
    BY Zenon
  <2>1. /\ phase[th] = "locking" /\ p \in DOMAIN batch[th] /\ p \in Nat \ {0}
        /\ DOMAIN batch[th] = 1..Len(batch[th]) /\ Len(batch[th]) \in Nat
        /\ p \in DOMAIN lock_results[th] /\ batch[th][p] \in Txs
        /\ pos'[th] = p + 1 /\ UNCHANGED <<phase, batch, needs_unlock>>
    BY <1>4, SMTT(60) DEF lock_account, TypeOK, BatchBookkeeping
  <2>2. \A x \in Threads \ {th} : Row(x) /\ mutex # x
    BY <1>4, Zenon DEF lock_account, TypeOK, BatchBookkeeping
  <2>3. Still
    BY <2>1, <2>2, Zenon DEF InForce
  <2>4. \A t : Locks!InUse(th, t)' <=> Locks!InUse(th, t)
    BY <2>3, InUseFrame, Zenon
  <2>5. \A j \in DOMAIN batch[th] : j # p => lock_results'[th][j] = lock_results[th][j]
    BY <1>4, <2>1 DEF lock_account, TypeOK, BatchBookkeeping
  <2>6. AccountInUse(batch[th][p]) <=> Blocked(th, p)
    BY <2>1, InUseIsBlocked, ZenonT(60)
  <2>7. \/ lock_results[th][p] # "Ok" /\ lock_results'[th][p] = lock_results[th][p]
        \/ /\ lock_results[th][p] = "Ok" /\ Blocked(th, p)
           /\ lock_results'[th][p] = "AccountInUse"
        \/ /\ lock_results[th][p] = "Ok" /\ ~Blocked(th, p)
           /\ lock_results'[th][p] = "Ok"
    BY <1>4, <2>1, <2>6 DEF lock_account, TypeOK
  <2> HIDE DEF LockInv, GreedyInv, Still, p
  <2>8. ASSUME NEW i \in 1..p
        PROVE  Blocked(th, i)' <=> Blocked(th, i)
    <3>0. PICK n \in Nat : DOMAIN batch[th] = 1..n /\ p \in 1..n
      BY <2>1
    <3>1. \A j \in 1..(i - 1) : j \in DOMAIN batch[th] /\ j # p
      BY <3>0, SMTT(60)
    <3>2. \A j \in 1..(i - 1) : lock_results'[th][j] = lock_results[th][j]
      BY <2>5, <3>1
    <3> QED BY <2>1, <2>4, <3>2, Zenon DEF Blocked
  <2>9. VerdictKept(th, p) /\ ~Decided(th, p)
    <3>1. VerdictKept(th, p)
      BY <2>0, <2>1, Zenon DEF Greedy
    <3>2. ~Decided(th, p)
      BY <2>1, SMTT(60) DEF Decided, p
    <3> QED BY <3>1, <3>2, Zenon
  <2>10. lock_results[th][p] # "AccountInUse"
    BY <2>1, <2>9, VerdictValues, Zenon DEF VerdictKept
  <2>11. ASSUME NEW i \in DOMAIN batch[th]
         PROVE  /\ VerdictKept(th, i)'
                /\ Decided(th, i)' /\ lock_results'[th][i] = "Ok" => ~Blocked(th, i)'
                /\ Decided(th, i)' /\ lock_results'[th][i] = "AccountInUse" => Blocked(th, i)'
    <3>1. CASE i = p
      <4>1. PICK q \in QosResults : lock_results[th][i] = Verdict(batch[th][i], q)
        BY <2>9, <3>1, Zenon DEF VerdictKept
      <4>2. Decided(th, i)' /\ batch'[th][i] = batch[th][i]
        BY <2>1, <3>1, SMTT(60) DEF Decided, p
      <4>3. VerdictKept(th, i)'
        BY <2>7, <3>1, <4>1, <4>2, Zenon DEF VerdictKept
      <4>4. Blocked(th, i)' <=> Blocked(th, i)
        BY <2>1, <2>8, <3>1, SMTT(60)
      <4> QED BY <2>7, <2>10, <3>1, <4>3, <4>4, Zenon
    <3>2. CASE i # p
      <4>1. Decided(th, i)' <=> Decided(th, i)
        BY <2>1, <3>2 DEF Decided, p
      <4>2. VerdictKept(th, i)'
        BY <2>0, <2>1, <2>5, <3>2, <4>1, ZenonT(60) DEF VerdictKept, Greedy
      <4>3. Decided(th, i) => i \in 1..p
        BY <2>1, SMTT(60) DEF Decided, p
      <4> QED BY <2>0, <2>1, <2>5, <2>8, <3>2, <4>1, <4>2, <4>3, ZenonT(60) DEF Greedy
    <3> QED BY <3>1, <3>2, Zenon
  <2>12. Greedy(th)'
    BY <2>0, <2>1, <2>11, Zenon DEF Greedy, InForce
  <2> QED BY <1>a, <2>2, <2>3, <2>12, Zenon DEF GreedyInv
<1>5. ASSUME NEW th \in Threads, lock_accounts_return(th)
      PROVE  GreedyInv'
  <2> USE <1>5 DEF lock_accounts_return, TypeOK
  <2>1. \A x \in Threads \ {th} : Row(x) /\ mutex # x
    BY DEF BatchBookkeeping
  <2>2. Greedy(th)'
    BY Zenon DEF Greedy, InForce
  <2> HIDE DEF Still
  <2> QED BY <1>a, <2>1, <2>2, Zenon
<1>6. ASSUME NEW th \in Threads, drop_batch(th)
      PROVE  GreedyInv'
  <2> USE <1>6 DEF drop_batch, TypeOK
  <2>1. Still
    BY DEF InForce
  <2>2. \A x \in Threads \ {th} : Row(x)
    BY Zenon
  <2>3. Greedy(th)'
    BY Zenon DEF Greedy, InForce
  <2> HIDE DEF Still
  <2> QED BY <1>a, <2>1, <2>2, <2>3, ZenonT(60)
<1>7. ASSUME NEW th \in Threads, unlock_accounts(th)
      PROVE  GreedyInv'
  <2> USE <1>7 DEF unlock_accounts, TypeOK
  <2>1. \A x \in Threads \ {th} : Row(x) /\ mutex # x
    BY NoThreadAssumption
  <2>2. Greedy(th)'
    BY Zenon DEF Greedy, InForce
  <2> HIDE DEF Still
  <2> QED BY <1>a, <2>1, <2>2, ZenonT(60)
<1>8. ASSUME NEW th \in Threads, unlock_account(th)
      PROVE  GreedyInv'
  <2> USE <1>8 DEF unlock_account, TypeOK
  <2>1. \A x \in Threads \ {th} : Row(x) /\ mutex # x
    BY Zenon DEF BatchBookkeeping
  <2>2. Greedy(th)'
    BY DEF Greedy, InForce
  <2> HIDE DEF Still
  <2> QED BY <1>a, <2>1, <2>2, Zenon
<1>9. ASSUME NEW th \in Threads, unlock_accounts_return(th)
      PROVE  GreedyInv'
  <2> USE <1>9 DEF unlock_accounts_return, TypeOK
  <2>1. \A x \in Threads \ {th} : Row(x) /\ mutex # x
    BY Zenon DEF BatchBookkeeping
  <2>2. Greedy(th)'
    BY Zenon DEF Greedy, InForce
  <2> HIDE DEF Still
  <2> QED BY <1>a, <2>1, <2>2, ZenonT(60)
<1>10. CASE UNCHANGED lockVars
  <2>1. Still /\ \A x \in Threads : Row(x)
    BY <1>10, Zenon DEF lockVars, InForce
  <2> QED BY <1>a, <2>1, Zenon
<1> QED BY <1>1, <1>2, <1>3, <1>4, <1>5, <1>6, <1>7, <1>8, <1>9, <1>10, ZenonT(60) DEF Next

-----------------------------------------------------------------------------
(* lock_accounts_return is where the batch gets its locks, all at once.    *)
LEMMA ReturnLocks ==
    ASSUME LockInv, GreedyInv, NEW th \in Threads, lock_accounts_return(th),
           NEW txs, txs = batch[th]
    PROVE  Locks!LockBatch(th, txs) /\ txs \in Batches
<1>0. PICK res : res = lock_results[th]
  BY Zenon
<1> DEFINE granted == {i \in 1..Len(txs) : res[i] = "Ok"}
           qos == [i \in DOMAIN txs |->
                      CHOOSE q \in QosResults :
                          \/ res[i] = Verdict(txs[i], q)
                          \/ Verdict(txs[i], q) = "Ok" /\ res[i] = "AccountInUse"]
           vs == Verdicts(txs, qos)
<1>1. /\ phase[th] = "locking" /\ txs \in Seq(Txs) /\ Len(txs) \in Nat
      /\ DOMAIN txs = 1..Len(txs) /\ DOMAIN res = 1..Len(txs) /\ res \in Seq(LockResults)
      /\ \A i \in 1..Len(txs) : Decided(th, i)
      /\ UNCHANGED <<batch, lock_results, needs_unlock>>
      /\ phase' = [phase EXCEPT ![th] = "locked"]
      /\ needs_unlock[th]
  BY <1>0 DEF LockInv, lock_accounts_return, TypeOK, BatchBookkeeping, Decided
<1>2. /\ txs \in Batches
      /\ \A i \in DOMAIN txs :
             /\ VerdictKept(th, i)
             /\ res[i] = "Ok" => ~Blocked(th, i)
             /\ res[i] = "AccountInUse" => Blocked(th, i)
  BY <1>0, <1>1, ZenonT(60) DEF GreedyInv, Greedy
<1>3. ASSUME NEW i \in DOMAIN txs
      PROVE  /\ qos[i] \in QosResults
             /\ \/ res[i] = vs[i]
                \/ vs[i] = "Ok" /\ res[i] = "AccountInUse"
  <2>1. \E q \in QosResults : \/ res[i] = Verdict(txs[i], q)
                              \/ Verdict(txs[i], q) = "Ok" /\ res[i] = "AccountInUse"
    BY <1>0, <1>2, Zenon DEF VerdictKept
  <2>2. vs[i] = Verdict(txs[i], qos[i])
    BY <1>1, Zenon DEF Verdicts
  <2> QED BY <2>1, <2>2, Zenon
<1>4. ASSUME NEW i \in DOMAIN txs
      PROVE  vs[i] # "AccountInUse"
  <2>1. vs[i] = Verdict(txs[i], qos[i]) /\ txs[i] \in Txs
    BY <1>1, SMTT(60) DEF Verdicts
  <2> QED BY <1>3, <2>1, VerdictValues, Zenon
<1>5. qos \in [DOMAIN txs -> QosResults] /\ granted \in SUBSET (1..Len(txs))
  BY <1>3, Zenon
<1>6. DOMAIN vs = 1..Len(txs)
  BY DEF Verdicts
<1> HIDE DEF qos, vs
<1>7. ASSUME NEW i \in 1..Len(txs)
      PROVE  Blocked(th, i) <=> \/ Locks!InUse(th, txs[i])
                                \/ \E j \in granted : j < i /\ Conflict(txs[i], txs[j])
  BY <1>0, <1>1 DEF Blocked
<1>8. Locks!GreedyOutcome(th, txs, vs, granted)
  BY <1>1, <1>2, <1>3, <1>4, <1>7, SameLockSets, ZenonT(60) DEF Locks!GreedyOutcome
<1>9. res = Locks!GrantResults(vs, granted)
  <2>1. \A i \in 1..Len(txs) : res[i] = IF vs[i] # "Ok" THEN vs[i]
                                      ELSE IF i \in granted THEN "Ok" ELSE "AccountInUse"
    BY <1>1, <1>3, <1>4, Zenon
  <2>2. res = [i \in 1..Len(txs) |-> res[i]]
    BY <1>1, SMTT(60)
  <2> QED BY <1>6, <2>1, <2>2, Zenon DEF Locks!GrantResults
<1>10. ~InForce(th) /\ InForce(th)' /\ \A x \in Threads \ {th} : InForce(x)' <=> InForce(x)
  BY <1>1, ZenonT(60) DEF LockInv, InForce, TypeOK
<1>11. Locks!LockBatch(th, txs)
  <2> DEFINE hb == [x \in Threads |-> IF InForce(x) THEN batch[x] ELSE <<>>]
             hr == [x \in Threads |-> IF InForce(x) THEN lock_results[x] ELSE <<>>]
  <2>1. vs = Locks!Verdicts(txs, qos)
    BY SameLockSets, Zenon DEF vs
  <2>2. hb[th] = <<>> /\ hb' = [hb EXCEPT ![th] = txs] /\ hr' = [hr EXCEPT ![th] = res]
    BY <1>0, <1>1, <1>10, Zenon
  <2>3. \E q \in [DOMAIN txs -> QosResults], g \in SUBSET (1..Len(txs)) :
            /\ Locks!GreedyOutcome(th, txs, Locks!Verdicts(txs, q), g)
            /\ hr' = [hr EXCEPT ![th] = Locks!GrantResults(Locks!Verdicts(txs, q), g)]
    <3> HIDE DEF granted, hr
    <3> QED BY <1>5, <1>8, <1>9, <2>1, <2>2, Zenon
  <2> QED BY <2>2, <2>3, Zenon DEF Locks!LockBatch
<1> QED BY <1>2, <1>11, Zenon

(* Every step of the table is a step of BatchLocks or changes no batch in  *)
(* force.                                                                  *)
LEMMA LocksStep ==
    ASSUME LockInv, GreedyInv, [Next]_lockVars
    PROVE  [Locks!Next]_(Locks!batchVars)
<1> USE DEF LockInv
<1> DEFINE Still == /\ \A x \in Threads : InForce(x)' <=> InForce(x)
                    /\ \A x \in Threads : InForce(x) => /\ batch'[x] = batch[x]
                                                        /\ lock_results'[x] = lock_results[x]
<1>1. Still => UNCHANGED Locks!batchVars
  BY DEF Locks!batchVars
<1>2. ASSUME NEW th \in Threads, NEW txs \in Batches, NEW qos \in [DOMAIN txs -> QosResults],
             prepare_sanitized_batch_with_results(th, txs, qos)
      PROVE  Still
  BY <1>2, Zenon DEF prepare_sanitized_batch_with_results, TypeOK, InForce
<1>3. ASSUME NEW th \in Threads, NEW t \in Txs, prepare_simulation_batch(th, t)
      PROVE  Still
  BY <1>3, Zenon DEF prepare_simulation_batch, TypeOK, InForce
<1>4. ASSUME NEW th \in Threads, lock_accounts_inner(th)
      PROVE  Still
  BY <1>4, Zenon DEF lock_accounts_inner, TypeOK, InForce
<1>5. ASSUME NEW th \in Threads, lock_account(th)
      PROVE  Still
  BY <1>5 DEF lock_account, TypeOK, InForce
<1>6. ASSUME NEW th \in Threads, lock_accounts_return(th)
      PROVE  Locks!Next
  <2>1. PICK txs : txs = batch[th]
    OBVIOUS
  <2>2. Locks!LockBatch(th, txs) /\ txs \in Locks!Batches
    BY <1>6, <2>1, ReturnLocks, SameLockSets, ZenonT(60)
  <2> QED BY <2>2 DEF Locks!Next
<1>7. ASSUME NEW th \in Threads, drop_batch(th)
      PROVE  Still
  BY <1>7 DEF drop_batch, TypeOK, InForce
<1>8. ASSUME NEW th \in Threads, unlock_accounts(th)
      PROVE  Locks!Next
  <2>1. InForce(th) /\ ~InForce(th)' /\ UNCHANGED <<batch, lock_results>>
    BY <1>8, Zenon DEF unlock_accounts, InForce, TypeOK
  <2>2. \A x \in Threads \ {th} : InForce(x)' <=> InForce(x)
    BY <1>8, ZenonT(60) DEF unlock_accounts, InForce, TypeOK
  <2>3. batch[th] # <<>>
    BY <2>1 DEF GreedyInv, Greedy, Batches
  <2>4. Locks!UnlockBatch(th)
    BY <2>1, <2>2, <2>3, ZenonT(60) DEF Locks!UnlockBatch
  <2> QED BY <2>4, Zenon DEF Locks!Next
<1>9. ASSUME NEW th \in Threads, unlock_account(th)
      PROVE  Still
  BY <1>9, Zenon DEF unlock_account, TypeOK, InForce
<1>10. ASSUME NEW th \in Threads, unlock_accounts_return(th)
      PROVE  Still
  BY <1>10, Zenon DEF unlock_accounts_return, TypeOK, InForce
<1>11. CASE UNCHANGED lockVars
  <2>1. Still
    BY <1>11 DEF lockVars, InForce
  <2> QED BY <1>1, <2>1, Zenon
<1> HIDE DEF Still
<1> QED BY <1>1, <1>2, <1>3, <1>4, <1>5, <1>6, <1>7, <1>8, <1>9, <1>10, <1>11 DEF Next

(* To the threads of a bank, locking and unlocking a batch are indivisible *)
(* steps, and a transaction is refused exactly when it conflicts with one  *)
(* in flight or with an earlier one of its batch.                          *)
THEOREM LocksRefine == Spec => LocksAreAtomic
<1>1. Init => Locks!Init
  BY Zenon DEF Init, Locks!Init, InForce
<1>2. Init => GreedyInv
  BY DEF Init, GreedyInv, Greedy, InForce
<1>3. LockInv /\ GreedyInv /\ [Next]_lockVars => GreedyInv'
  BY GreedyStep
<1>4. LockInv /\ GreedyInv /\ [Next]_lockVars => [Locks!Next]_(Locks!batchVars)
  BY LocksStep
<1> QED BY <1>1, <1>2, <1>3, <1>4, InitLock, LockStep, PTL DEF Spec, LocksAreAtomic, Locks!Spec

=============================================================================
