----------------------------- MODULE BatchLocks -----------------------------
(***************************************************************************)
(* What the account locks promise to the threads that use them: a batch    *)
(* gets the locks of a maximal prefix-greedy set of its transactions in    *)
(* one indivisible step, keeps them until it is dropped, and gives them    *)
(* all back in one step.  A transaction is refused exactly when it         *)
(* conflicts with one in flight or with an earlier one of its own batch.   *)
(*                                                                         *)
(* AccountLocks implements this specification; BankingStage is built on    *)
(* it.                                                                     *)
(***************************************************************************)
EXTENDS LockSets

VARIABLES
    batch,         \* the transactions of the batch a thread has in flight
    lock_results   \* the result of each of them

batchVars == <<batch, lock_results>>

Granted(th) == {i \in DOMAIN batch[th] : lock_results[th][i] = "Ok"}

\* Transaction t conflicts with one that another thread has in flight.
InUse(th, t) ==
    \E x \in Threads \ {th} : \E j \in Granted(x) : Conflict(t, batch[x][j])

\* granted is the outcome of going through txs in order: exactly those
\* transactions get their locks that passed the earlier checks and conflict
\* neither with another batch nor with an earlier granted one of their own.
GreedyOutcome(th, txs, verdicts, granted) ==
    \A i \in 1..Len(txs) :
        i \in granted <=> /\ verdicts[i] = "Ok"
                          /\ ~InUse(th, txs[i])
                          /\ \A j \in granted : j < i => ~Conflict(txs[i], txs[j])

GrantResults(verdicts, granted) ==
    [i \in DOMAIN verdicts |->
        IF verdicts[i] # "Ok" THEN verdicts[i]
        ELSE IF i \in granted THEN "Ok" ELSE "AccountInUse"]

Init ==
    /\ batch = [th \in Threads |-> <<>>]
    /\ lock_results = [th \in Threads |-> <<>>]

LockBatch(th, txs) ==
    /\ batch[th] = <<>>
    /\ batch' = [batch EXCEPT ![th] = txs]
    /\ \E qos \in [DOMAIN txs -> QosResults], granted \in SUBSET (1..Len(txs)) :
           /\ GreedyOutcome(th, txs, Verdicts(txs, qos), granted)
           /\ lock_results' =
                  [lock_results EXCEPT ![th] = GrantResults(Verdicts(txs, qos), granted)]

UnlockBatch(th) ==
    /\ batch[th] # <<>>
    /\ batch' = [batch EXCEPT ![th] = <<>>]
    /\ lock_results' = [lock_results EXCEPT ![th] = <<>>]

Next ==
    \E th \in Threads :
        \/ \E txs \in Batches : LockBatch(th, txs)
        \/ UnlockBatch(th)

Spec == Init /\ [][Next]_batchVars

=============================================================================
