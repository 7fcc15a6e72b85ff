------------------------------ MODULE BankForks ------------------------------
(***************************************************************************)
(* The tree of banks of one validator (runtime/src/bank_forks.rs), the     *)
(* duplicate-transaction check every bank makes against the shared status  *)
(* cache (runtime/src/bank.rs), and the snapshot a restart begins from     *)
(* (accounts_background_service.rs, snapshot_utils.rs).                    *)
(*                                                                         *)
(* A transaction must execute at most once on every fork although          *)
(*  - one cache serves all forks, and a slot can be purged from it and     *)
(*    replayed again in another version;                                   *)
(*  - the cache forgets slots by the number of roots it remembers, the     *)
(*    blockhash queue by the number of blocks;                             *)
(*  - after a crash the cache is rebuilt from what a snapshot saved.       *)
(***************************************************************************)
EXTENDS StatusCache

CONSTANTS
    Forks,                      \* [Slots -> SUBSET Slots]: possible parents
    accounts_hash_interval_slots,
    full_snapshot_archive_interval_slots,
    MaxRestarts

\* is_snapshot_config_valid.
ASSUME BankForksAssumption ==
    /\ Forks \in [Slots -> SUBSET Slots]
    /\ \A s \in Slots : \A p \in Forks[s] : p < s
    /\ accounts_hash_interval_slots \in Nat \ {0}
    /\ full_snapshot_archive_interval_slots >= accounts_hash_interval_slots
    /\ full_snapshot_archive_interval_slots % accounts_hash_interval_slots = 0
    /\ MaxRestarts \in Nat

VARIABLES
    banks,        \* the slots in BankForks
    bank,         \* [Slots -> Bank]; rooted banks stay for the properties
    parent_slot,  \* the parent of the version the blockstore holds, or None
    dead,         \* banks replay gave up on
    root,
    status_cache,
    last_accounts_hash_slot,
    request,      \* the newest SnapshotRequest not yet handled
    archive,      \* the newest snapshot archive
    restarts,
    panicked

vars == <<banks, bank, parent_slot, dead, root, status_cache, last_accounts_hash_slot,
          request, archive, restarts, panicked>>

\* txs is what the block executed, slot_history its SlotHistory sysvar: the
\* block and every block below it.  ancestors is fixed when the bank is made.
Genesis == [ancestors |-> {0}, slot_history |-> {0}, queue |-> GenesisQueue,
            frozen |-> TRUE, txs |-> {}]

NoBank == [ancestors |-> {}, slot_history |-> {}, queue |-> GenesisQueue,
           frozen |-> FALSE, txs |-> {}]

block_height(s) == Cardinality(bank[s].slot_history) - 1

\* Bank::parents: the chain of parent links, cut where a bank was squashed.
parents(s) == {a \in bank[s].slot_history \ {s} : a >= root}

Descendants(s) == {d \in banks \ {s} : s \in bank[d].slot_history}

NoRequest == [slot |-> None, deltas |-> [s \in {} |-> {}]]

Init ==
    /\ banks = {0}
    /\ bank = [s \in Slots |-> IF s = 0 THEN Genesis ELSE NoBank]
    /\ parent_slot = [s \in Slots |-> None]
    /\ dead = {}
    /\ root = 0
    /\ status_cache = EmptyCache
    /\ last_accounts_hash_slot = 0
    /\ request = NoRequest
    /\ archive = [slot |-> 0, deltas |-> DeltasOfRoots(EmptyCache)]
    /\ restarts = 0
    /\ panicked = FALSE

-----------------------------------------------------------------------------
new_from_parent(p, s) ==
    /\ p \in banks /\ bank[p].frozen
    /\ s \notin banks /\ s > root
    /\ p \in Forks[s] /\ parent_slot[s] \in {None, p}
    /\ parent_slot' = [parent_slot EXCEPT ![s] = p]
    /\ banks' = banks \cup {s}
    /\ bank' = [bank EXCEPT ![s] =
                  [ancestors    |-> {s, p} \cup parents(p),
                   slot_history |-> bank[p].slot_history \cup {s},
                   queue        |-> bank[p].queue,
                   frozen       |-> FALSE,
                   txs          |-> {}]]
    /\ UNCHANGED <<dead, root, status_cache, last_accounts_hash_slot,
                   request, archive, restarts, panicked>>

Active(s) == s \in banks /\ ~bank[s].frozen /\ s \notin dead

AgeAllowed(s, t) ==
    check_hash_age(bank[s].queue, RecentBlockhash[t], MAX_PROCESSING_AGE)

is_transaction_already_processed(s, t) ==
    get_status(status_cache, t, bank[s].ancestors)

\* check_transactions, then the commit that files the status.
process_transaction(s, t) ==
    /\ Active(s)
    /\ AgeAllowed(s, t)
    /\ ~is_transaction_already_processed(s, t)
    /\ status_cache' = insert(status_cache, t, s)
    /\ bank' = [bank EXCEPT ![s].txs = @ \cup {t}]
    /\ UNCHANGED <<banks, parent_slot, dead, root, last_accounts_hash_slot, request,
                   archive, restarts, panicked>>

\* The last tick of slot s, whose hash enters the queue of its bank b.
register_tick(b, s) == [b EXCEPT !.queue = register_hash(@, s)]

\* The bank has its last tick and is frozen.
freeze(s) ==
    /\ Active(s)
    /\ bank' = [bank EXCEPT ![s] = [register_tick(@, s) EXCEPT !.frozen = TRUE]]
    /\ UNCHANGED <<banks, parent_slot, dead, root, status_cache, last_accounts_hash_slot,
                   request, archive, restarts, panicked>>

mark_dead_slot(s) ==
    /\ Active(s)
    /\ dead' = dead \cup {s}
    /\ UNCHANGED <<banks, bank, parent_slot, root, status_cache, last_accounts_hash_slot,
                   request, archive, restarts, panicked>>

Forget(gone) == [s \in Slots |-> IF s \in gone THEN NoBank ELSE bank[s]]

\* ReplayStage drops a wrong version of a slot, and all that was built on it.
purge_unconfirmed_duplicate_slot(s) ==
    LET gone == {s} \cup Descendants(s)
        Clear(r, c) == [cache |-> clear_slot_entries(c.cache, r),
                        panics |-> c.panics \/ ClearPanics(c.cache, r)]
        cleared == FoldSet(Clear, [cache |-> status_cache, panics |-> FALSE], gone)
    IN
    /\ s \in banks /\ s > root
    /\ bank[s].frozen \/ s \in dead
    /\ banks' = banks \ gone
    /\ bank' = Forget(gone)
    /\ parent_slot' = [r \in Slots |-> IF r \in gone THEN None ELSE parent_slot[r]]
    /\ dead' = dead \ gone
    /\ status_cache' = cleared.cache
    /\ panicked' = cleared.panics
    /\ UNCHANGED <<root, last_accounts_hash_slot, request, archive, restarts>>

prune_non_rooted(r) == {r} \cup Descendants(r)

\* Bank::squash of bank s, with its parents down to the last squashed bank.
squash(sc, s, cut) == add_roots(sc, {s} \cup {p \in parents(s) : p >= cut})

SnapshotOfRoot(r) ==
    LET due  == {b \in {r} \cup parents(r) :
                   /\ block_height(b) % accounts_hash_interval_slots = 0
                   /\ b > last_accounts_hash_slot}
        b    == Max(due)
        done == IF due = {} THEN status_cache ELSE squash(status_cache, b, root)
    IN  [cache   |-> squash(done, r, IF due = {} THEN root ELSE b),
         hashed  |-> IF due = {} THEN last_accounts_hash_slot ELSE b,
         request |-> IF due = {} THEN request
                     ELSE [slot |-> r, deltas |-> DeltasOfRoots(done)]]

\* BankForks::set_root.  The newest bank on the way whose height is a
\* multiple of the hash interval is squashed first, and a snapshot is
\* requested of the new root with the deltas of the cache at that moment.
set_root(r) ==
    LET s    == SnapshotOfRoot(r)
        kept == prune_non_rooted(r)
    IN
    /\ r \in banks /\ r > root /\ bank[r].frozen
    /\ root' = r
    /\ status_cache' = s.cache
    /\ last_accounts_hash_slot' = s.hashed
    /\ request' = s.request
    /\ banks' = kept
    /\ bank' = Forget(Slots \ (kept \cup bank[r].slot_history))
    /\ dead' = dead \cap kept
    /\ UNCHANGED <<parent_slot, archive, restarts, panicked>>

-----------------------------------------------------------------------------
\* A variant of handle_snapshot_requests that ignores the archive interval.
ArchiveEveryRequest ==
    /\ request # NoRequest
    /\ request' = NoRequest
    /\ archive' = request
    /\ UNCHANGED <<banks, bank, parent_slot, dead, root, status_cache,
                   last_accounts_hash_slot, restarts, panicked>>

should_take_full_snapshot(s) ==
    block_height(s) % full_snapshot_archive_interval_slots = 0

\* The snapshot is made of the bank that was the root when it was requested.
handle_snapshot_requests ==
    /\ request # NoRequest
    /\ request' = NoRequest
    /\ archive' = IF should_take_full_snapshot(request.slot) THEN request ELSE archive
    /\ UNCHANGED <<banks, bank, parent_slot, dead, root, status_cache,
                   last_accounts_hash_slot, restarts, panicked>>

Newest(S, n) == {s \in S : Cardinality({r \in S : r > s}) < n}

\* verify_slot_deltas_structural and verify_slot_deltas_with_history.
verify_slot_deltas(a) ==
    LET saved == DOMAIN a.deltas
        slot_history == bank[a.slot].slot_history
    IN  /\ Cardinality(saved) <= MAX_CACHE_ENTRIES
        /\ saved \subseteq slot_history
        /\ Newest(slot_history, MAX_CACHE_ENTRIES) \subseteq saved

\* A crash loses every bank; rebuild_bank_from_snapshots.
restart ==
    /\ restarts < MaxRestarts
    /\ verify_slot_deltas(archive)
    /\ restarts' = restarts + 1
    /\ banks' = {archive.slot}
    /\ bank' = Forget(Slots \ bank[archive.slot].slot_history)
    /\ dead' = {}
    /\ root' = archive.slot
    /\ status_cache' = append(archive.deltas)
    /\ last_accounts_hash_slot' = archive.slot
    /\ request' = NoRequest
    /\ UNCHANGED <<parent_slot, archive, panicked>>

Next ==
    /\ ~panicked
    /\ \/ \E p, s \in Slots : new_from_parent(p, s)
       \/ \E s \in Slots, t \in Txs : process_transaction(s, t)
       \/ \E s \in Slots : freeze(s)
       \/ \E s \in Slots : mark_dead_slot(s)
       \/ \E s \in Slots : purge_unconfirmed_duplicate_slot(s)
       \/ \E r \in Slots : set_root(r)
       \/ handle_snapshot_requests
       \/ restart

Spec == Init /\ [][Next]_vars
-----------------------------------------------------------------------------
\* Types; and every bank in BankForks descends from the root, whatever was
\* pruned or purged before (BankForks::set_root, prune_non_rooted).
TypeOK ==
    /\ banks \subseteq Slots /\ dead \subseteq banks /\ root \in banks
    /\ bank \in [Slots -> [ancestors : SUBSET Slots, slot_history : SUBSET Slots,
                           queue : [hash_height : Nat,
                                    ages : [Slots -> Nat \cup {None}]],
                           frozen : BOOLEAN, txs : SUBSET Txs]]
    /\ status_cache \in [cache : [Slots -> [fork : Slots \cup {None},
                                            forks : [Txs -> SUBSET Slots]]],
                         roots : SUBSET Slots,
                         slot_deltas : [Slots -> SUBSET Txs]]
    /\ \A s \in banks : root \in bank[s].slot_history

\* The duplicate check (Bank::check_age, then check_status_cache) is exact:
\* a bank still being filled finds a transaction whose blockhash is recent
\* enough already processed exactly when its own block or a block below it
\* executed it, whatever other forks executed, whichever slots were purged
\* and replayed, however many roots the cache has forgotten, and after a
\* restart from a snapshot.  So no transaction runs twice on a fork, and
\* none is refused because of another fork.
StatusIsExact ==
    \A s \in Slots, t \in Txs :
        Active(s) /\ AgeAllowed(s, t) =>
            ( is_transaction_already_processed(s, t)
              <=> \E a \in bank[s].slot_history : t \in bank[a].txs )

\* clear_slot_entries never meets a transaction of slot_deltas that the
\* cache no longer holds: its two panics, "Map for key must exist ..." and
\* "Blockhash must exist ...", are unreachable.  Nor does
\* BankForks lose the bank of its root or keep one of another fork (TypeOK).
NoPanic == TypeOK /\ ~panicked

\* Every snapshot archive the validator makes passes verify_slot_deltas at
\* the next start, although the saved deltas can be those of an older bank
\* than the one snapshotted and the request is handled after later roots.
ArchiveLoads == verify_slot_deltas(archive)
=============================================================================
