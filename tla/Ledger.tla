------------------------------- MODULE Ledger -------------------------------
(***************************************************************************)
(* What a block promises to the validators that replay it: it is a         *)
(* sequence of entries, executed one after the other.  Every transaction   *)
(* of an entry sees the accounts as the entries before left them, the      *)
(* transactions of an entry do not conflict, no transaction occurs twice,  *)
(* and the bank hash is the hash of the state after the last entry.        *)
(***************************************************************************)
EXTENDS Transactions

VARIABLES
    ledger,      \* the recorded entries
    accounts,    \* the state after the last of them
    bank_hash    \* {} until the bank is frozen, then the state that is hashed

ledgerVars == <<ledger, accounts, bank_hash>>

InLedger(t) == \E n \in DOMAIN ledger : \E e \in ledger[n] : e.tx = t

\* The locks a replaying validator takes are those of the message alone.
MessageConflict(t, u) ==
    \/ Writable[t] \cap MessageKeys(u) # {}
    \/ Writable[u] \cap MessageKeys(t) # {}

\* accounts after the transactions of an entry.
Apply(state, entry) ==
    [a \in Accounts |->
        LET writers == {e \in entry : a \in CommittedWrites(e.tx, e.result)}
        IN  IF writers = {} THEN state[a]
            ELSE Append(state[a], (CHOOSE e \in writers : TRUE).tx)]

Init ==
    /\ ledger = <<>>
    /\ accounts = [a \in Accounts |-> <<>>]
    /\ bank_hash = {}

Record(entry) ==
    /\ bank_hash = {}
    /\ entry # {}
    /\ \A e \in entry :
           /\ e.tx \in Txs /\ e.result \in {"Ok", "Err"}
           /\ ~InLedger(e.tx)
           /\ e.view = [a \in MessageKeys(e.tx) |-> accounts[a]]
           /\ \A f \in entry \ {e} : ~MessageConflict(e.tx, f.tx)
    /\ ledger' = Append(ledger, entry)
    /\ accounts' = Apply(accounts, entry)
    /\ UNCHANGED bank_hash

Freeze ==
    /\ bank_hash = {}
    /\ bank_hash' = {accounts}
    /\ UNCHANGED <<ledger, accounts>>

\* A step that extends the ledger adds one entry.
RecordLast ==
    /\ ledger' # ledger
    /\ Record(ledger'[Len(ledger')])

Next == RecordLast \/ Freeze

Spec == Init /\ [][Next]_ledgerVars

=============================================================================
