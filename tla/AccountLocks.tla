---------------------------- MODULE AccountLocks ----------------------------
(***************************************************************************)
(* The account lock table of a bank: AccountLocks and the functions of     *)
(* Accounts that fill and empty it (src/runtime/src/accounts.rs), and the  *)
(* TransactionBatch that owns the locks (transaction_batch.rs).            *)
(*                                                                         *)
(* The functions lock_accounts_inner and unlock_accounts hold one mutex    *)
(* while they go through the transactions of a batch in order.  A step of  *)
(* the model handles one transaction of the batch, under the mutex.        *)
(***************************************************************************)
EXTENDS LockSets, Integers

CONSTANT NoThread   \* the mutex is free

ASSUME NoThreadAssumption == NoThread \notin Threads

VARIABLES
    write_locks,     \* AccountLocks.write_locks
    readonly_locks,  \* AccountLocks.readonly_locks; 0 stands for no entry
    mutex,           \* the holder of Accounts.account_locks
    phase,           \* where a thread is in the life of its TransactionBatch
    batch,           \* TransactionBatch.sanitized_txs
    lock_results,    \* TransactionBatch.lock_results
    needs_unlock,    \* TransactionBatch.needs_unlock
    pos              \* the transaction the loop over the batch is at

lockVars == <<write_locks, readonly_locks, mutex, phase, batch, lock_results,
              needs_unlock, pos>>

Phases == {"idle", "prepared", "locking", "locked", "unlocking"}

-----------------------------------------------------------------------------
\* Mutant: an error of the cost model is forgotten.
ForgottenError ==
    {"AccountLoadedTwice", "AccountInUse", "TooManyAccountLocks"} \cup
        (QosErrors \ {"WouldExceedAccountDataTotalLimit"})

\* The errors whose transactions unlock_accounts leaves alone.  SanitizeFailure
\* is in the code's list too; nothing below a batch returns it.
NeverLocked == {"AccountLoadedTwice", "AccountInUse", "TooManyAccountLocks"} \cup QosErrors

is_locked_write(a) == a \in write_locks
is_locked_readonly(a) == readonly_locks[a] > 0

\* Mutant: a writer does not look at the readers.
WriterIgnoresReaders(t) == \E a \in WriteKeys(t) \cup ReadKeys(t) : is_locked_write(a)

\* The two checks of lock_account.
AccountInUse(t) ==
    \/ \E a \in WriteKeys(t) : is_locked_write(a) \/ is_locked_readonly(a)
    \/ \E a \in ReadKeys(t) : is_locked_write(a)

Init ==
    /\ write_locks = {}
    /\ readonly_locks = [a \in Accounts |-> 0]
    /\ mutex = NoThread
    /\ phase = [th \in Threads |-> "idle"]
    /\ batch = [th \in Threads |-> <<>>]
    /\ lock_results = [th \in Threads |-> <<>>]
    /\ needs_unlock = [th \in Threads |-> FALSE]
    /\ pos = [th \in Threads |-> 1]

\* lock_accounts_with_results up to the mutex.
prepare_sanitized_batch_with_results(th, txs, qos) ==
    /\ phase[th] = "idle"
    /\ batch' = [batch EXCEPT ![th] = txs]
    /\ lock_results' = [lock_results EXCEPT ![th] = Verdicts(txs, qos)]
    /\ needs_unlock' = [needs_unlock EXCEPT ![th] = TRUE]
    /\ phase' = [phase EXCEPT ![th] = "prepared"]
    /\ UNCHANGED <<write_locks, readonly_locks, mutex, pos>>

\* A simulation batch takes no lock and must release none.
prepare_simulation_batch(th, t) ==
    /\ phase[th] = "idle"
    /\ batch' = [batch EXCEPT ![th] = <<t>>]
    /\ lock_results' = [lock_results EXCEPT ![th] = <<SanitizeResult[t]>>]
    /\ needs_unlock' = [needs_unlock EXCEPT ![th] = FALSE]
    /\ phase' = [phase EXCEPT ![th] = "locked"]
    /\ UNCHANGED <<write_locks, readonly_locks, mutex, pos>>

\* Mutant: the loop runs without the mutex.
LockWithoutMutex(th) ==
    /\ phase[th] = "prepared"
    /\ phase' = [phase EXCEPT ![th] = "locking"]
    /\ pos' = [pos EXCEPT ![th] = 1]
    /\ UNCHANGED <<mutex, write_locks, readonly_locks, batch, lock_results, needs_unlock>>

\* lock_accounts_inner takes the mutex ...
lock_accounts_inner(th) ==
    /\ phase[th] = "prepared"
    /\ mutex = NoThread
    /\ mutex' = th
    /\ phase' = [phase EXCEPT ![th] = "locking"]
    /\ pos' = [pos EXCEPT ![th] = 1]
    /\ UNCHANGED <<write_locks, readonly_locks, batch, lock_results, needs_unlock>>

\* ... locks one transaction after the other, each entirely or not at all ...
lock_account(th) ==
    LET i == pos[th]
        t == batch[th][i]
    IN  /\ phase[th] = "locking"
        /\ i <= Len(batch[th])
        /\ pos' = [pos EXCEPT ![th] = i + 1]
        /\ \/ /\ lock_results[th][i] # "Ok"
              /\ UNCHANGED <<write_locks, readonly_locks, lock_results>>
           \/ /\ lock_results[th][i] = "Ok"
              /\ AccountInUse(t)
              /\ lock_results' = [lock_results EXCEPT ![th][i] = "AccountInUse"]
              /\ UNCHANGED <<write_locks, readonly_locks>>
           \/ /\ lock_results[th][i] = "Ok"
              /\ ~AccountInUse(t)
              /\ write_locks' = write_locks \cup WriteKeys(t)
              /\ readonly_locks' =
                     [a \in Accounts |->
                         IF a \in ReadKeys(t) THEN readonly_locks[a] + 1 ELSE readonly_locks[a]]
              /\ UNCHANGED lock_results
        /\ UNCHANGED <<mutex, phase, batch, needs_unlock>>

\* ... and lets the mutex go with its guard.
lock_accounts_return(th) ==
    /\ phase[th] = "locking"
    /\ pos[th] > Len(batch[th])
    /\ mutex' = NoThread
    /\ phase' = [phase EXCEPT ![th] = "locked"]
    /\ UNCHANGED <<write_locks, readonly_locks, batch, lock_results, needs_unlock, pos>>

\* Drop for TransactionBatch calls Bank::unlock_accounts, which does nothing
\* for a batch that does not need it ...
drop_batch(th) ==
    /\ phase[th] = "locked"
    /\ ~needs_unlock[th]
    /\ phase' = [phase EXCEPT ![th] = "idle"]
    /\ batch' = [batch EXCEPT ![th] = <<>>]
    /\ lock_results' = [lock_results EXCEPT ![th] = <<>>]
    /\ UNCHANGED <<write_locks, readonly_locks, mutex, needs_unlock, pos>>

\* ... and otherwise takes the mutex and releases the batch.
unlock_accounts(th) ==
    /\ phase[th] = "locked"
    /\ needs_unlock[th]
    /\ mutex = NoThread
    /\ mutex' = th
    /\ needs_unlock' = [needs_unlock EXCEPT ![th] = FALSE]
    /\ phase' = [phase EXCEPT ![th] = "unlocking"]
    /\ pos' = [pos EXCEPT ![th] = 1]
    /\ UNCHANGED <<write_locks, readonly_locks, batch, lock_results>>

unlock_account(th) ==
    LET i == pos[th]
        t == batch[th][i]
    IN  /\ phase[th] = "unlocking"
        /\ i <= Len(batch[th])
        /\ pos' = [pos EXCEPT ![th] = i + 1]
        /\ \/ /\ lock_results[th][i] \in NeverLocked
              /\ UNCHANGED <<write_locks, readonly_locks>>
           \/ /\ lock_results[th][i] \notin NeverLocked
              /\ write_locks' = write_locks \ WriteKeys(t)
              /\ readonly_locks' =
                     [a \in Accounts |->
                         IF a \in ReadKeys(t) /\ readonly_locks[a] > 0
                         THEN readonly_locks[a] - 1 ELSE readonly_locks[a]]
        /\ UNCHANGED <<mutex, phase, batch, lock_results, needs_unlock>>

unlock_accounts_return(th) ==
    /\ phase[th] = "unlocking"
    /\ pos[th] > Len(batch[th])
    /\ mutex' = NoThread
    /\ phase' = [phase EXCEPT ![th] = "idle"]
    /\ batch' = [batch EXCEPT ![th] = <<>>]
    /\ lock_results' = [lock_results EXCEPT ![th] = <<>>]
    /\ UNCHANGED <<write_locks, readonly_locks, needs_unlock, pos>>

Next ==
    \E th \in Threads :
        \/ \E txs \in Batches : \E qos \in [DOMAIN txs -> QosResults] :
               prepare_sanitized_batch_with_results(th, txs, qos)
        \/ \E t \in Txs : prepare_simulation_batch(th, t)
        \/ lock_accounts_inner(th)
        \/ lock_account(th)
        \/ lock_accounts_return(th)
        \/ drop_batch(th)
        \/ unlock_accounts(th)
        \/ unlock_account(th)
        \/ unlock_accounts_return(th)

Spec == Init /\ [][Next]_lockVars

-----------------------------------------------------------------------------
(* Properties.                                                             *)

\* Every variable has the shape of the Rust field it stands for: in particular
\* no readonly count goes below zero.
TypeOK ==
    /\ write_locks \in SUBSET Accounts
    /\ readonly_locks \in [Accounts -> Nat]
    /\ mutex \in Threads \cup {NoThread}
    /\ phase \in [Threads -> Phases]
    /\ batch \in [Threads -> Seq(Txs)]
    /\ lock_results \in [Threads -> Seq(LockResults)]
    /\ needs_unlock \in [Threads -> BOOLEAN]
    /\ pos \in [Threads -> Nat \ {0}]

\* Transaction i of the batch of th has its locks: lock_account granted them
\* and unlock_account has not yet taken them back.
Holds(th, i) ==
    /\ i \in DOMAIN batch[th]
    /\ lock_results[th][i] = "Ok"
    /\ \/ phase[th] = "locking" /\ i < pos[th]
       \/ phase[th] = "locked" /\ needs_unlock[th]
       \/ phase[th] = "unlocking" /\ i >= pos[th]

Slots == Threads \X (1..MaxBatch)
Holders == {s \in Slots : Holds(s[1], s[2])}
TxOf(s) == batch[s[1]][s[2]]

Readers(a) == {s \in Holders : a \in ReadKeys(TxOf(s))}
Writers(a) == {s \in Holders : a \in WriteKeys(TxOf(s))}

\* "This function will prevent multiple threads from modifying the same account
\* state at the same time" (lock_accounts): while one transaction holds an
\* account for writing no other one, of this thread or another, holds it at all.
\* The accounts the MEV code adds to a lock set count like any other.
MutualExclusion ==
    \A s, r \in Holders : s # r =>
        WriteKeys(TxOf(s)) \cap (WriteKeys(TxOf(r)) \cup ReadKeys(TxOf(r))) = {}

\* The table says exactly who holds what: an account is in write_locks iff a
\* transaction in flight writes it, and its readonly count is the number of
\* transactions in flight that read it.  So no lock leaks when a batch is
\* dropped, whatever mix of errors its transactions met, no batch releases the
\* lock of another one, and the table is empty when no batch is in flight.
LockTableExact ==
    /\ \A a \in Accounts : a \in write_locks <=> Writers(a) # {}
    /\ \A a \in Accounts : readonly_locks[a] = Cardinality(Readers(a))

-----------------------------------------------------------------------------
(* The table implements BatchLocks: the locks of a batch are in force from *)
(* the moment lock_accounts_inner lets the mutex go until unlock_accounts  *)
(* has taken it again.                                                     *)

InForce(th) == phase[th] = "locked" /\ needs_unlock[th]

Locks == INSTANCE BatchLocks WITH
    batch <- [th \in Threads |-> IF InForce(th) THEN batch[th] ELSE <<>>],
    lock_results <- [th \in Threads |-> IF InForce(th) THEN lock_results[th] ELSE <<>>]

\* The loops of lock_accounts_inner and unlock_accounts, transaction by
\* transaction over the shared table, are one indivisible step each to the
\* callers, and a transaction is refused with AccountInUse exactly when it
\* conflicts with one in flight or with an earlier one of its own batch.
LocksAreAtomic == Locks!Spec

=============================================================================
