----------------------------- MODULE StatusCache -----------------------------
(***************************************************************************)
(* The two structures a bank consults before it executes a transaction:   *)
(* the status cache (runtime/src/status_cache.rs), one for the whole      *)
(* validator and shared by every bank, and the blockhash queue            *)
(* (runtime/src/blockhash_queue.rs), one per bank and copied from the     *)
(* parent.  Both are pure operators here; BankForks drives them.          *)
(*                                                                         *)
(* A transaction stands for its message hash.  RecentBlockhash gives the   *)
(* blockhash it names, and the last blockhash of a slot is the slot.  The  *)
(* result stored with a status and the random 20-byte window of the key    *)
(* are left out: no property tells them apart.                             *)
(***************************************************************************)
EXTENDS Integers, FiniteSets, FiniteSetsExt, SequencesExt

CONSTANTS
    Slots,                  \* the slots of the ledger, an interval from 0
    Txs,                    \* transactions
    RecentBlockhash,        \* [Txs -> Slots]
    MAX_CACHE_ENTRIES,      \* rooted slots the status cache remembers
    MAX_RECENT_BLOCKHASHES, \* blockhashes a queue keeps
    MAX_PROCESSING_AGE      \* blockhashes a transaction may name

ASSUME StatusCacheAssumption ==
    /\ 0 \in Slots /\ Slots \subseteq Nat
    /\ RecentBlockhash \in [Txs -> Slots]
    /\ {MAX_CACHE_ENTRIES, MAX_RECENT_BLOCKHASHES, MAX_PROCESSING_AGE}
         \subseteq Nat \ {0}
    /\ MAX_PROCESSING_AGE <= MAX_CACHE_ENTRIES
    /\ MAX_PROCESSING_AGE <= MAX_RECENT_BLOCKHASHES

None == -1

SlotsDescending == SetToSortSeq(Slots, >)

-----------------------------------------------------------------------------
(* status_cache.rs.  cache[h].fork is the newest slot of any status filed  *)
(* under blockhash h (None: no entry), cache[h].forks[t] the slots that    *)
(* executed t.  slot_deltas[s] is the transactions of slot s.              *)

NoEntry == [fork |-> None, forks |-> [t \in Txs |-> {}]]

EmptyCache ==
    [cache       |-> [h \in Slots |-> NoEntry],
     roots       |-> {0},
     slot_deltas |-> [s \in Slots |-> {}]]

\* A variant of get_status that looks only at the bank's own ancestors.
AncestorsOnly(sc, t, ancestors) ==
    sc.cache[RecentBlockhash[t]].forks[t] \cap ancestors # {}

\* The status of t that a bank with these ancestors finds.
get_status(sc, t, ancestors) ==
    sc.cache[RecentBlockhash[t]].forks[t] \cap (ancestors \cup sc.roots) # {}

\* insert and insert_with_slice.
insert(sc, t, s) ==
    LET h == RecentBlockhash[t]
        e == sc.cache[h]
    IN  [sc EXCEPT !.cache[h] = [fork  |-> Max({s, e.fork}),
                                 forks |-> [e.forks EXCEPT ![t] = @ \cup {s}]],
                   !.slot_deltas[s] = @ \cup {t}]

purge_roots(sc) ==
    IF Cardinality(sc.roots) <= MAX_CACHE_ENTRIES THEN sc
    ELSE LET min == Min(sc.roots) IN
         [cache       |-> [h \in Slots |-> IF sc.cache[h].fork > min
                                           THEN sc.cache[h] ELSE NoEntry],
          roots       |-> sc.roots \ {min},
          slot_deltas |-> [s \in Slots |-> IF s > min THEN sc.slot_deltas[s]
                                                      ELSE {}]]

add_root(sc, s) == purge_roots([sc EXCEPT !.roots = @ \cup {s}])

\* Bank::squash adds the slot and then its parents, newest first.
add_roots(sc, new) ==
    FoldLeft(LAMBDA c, s : IF s \in new THEN add_root(c, s) ELSE c,
             sc, SlotsDescending)

\* The panics of clear_slot_entries: an entry of slot_deltas without its
\* counterpart in the cache.
ClearPanics(sc, s) ==
    \E t \in sc.slot_deltas[s] : s \notin sc.cache[RecentBlockhash[t]].forks[t]

\* A variant of clear_slot_entries that leaves the slot in slot_deltas.
KeepSlotDelta(sc, s) ==
    [sc EXCEPT !.cache = [h \in Slots |->
        [@[h] EXCEPT !.forks = [t \in Txs |-> @[t] \ {s}]]]]

clear_slot_entries(sc, s) ==
    LET left(h) == [t \in Txs |-> sc.cache[h].forks[t]
                                    \ (IF t \in sc.slot_deltas[s] THEN {s} ELSE {})]
        touched(h) == \E t \in sc.slot_deltas[s] : RecentBlockhash[t] = h
        empty(h) == \A t \in Txs : left(h)[t] = {}
    IN  [sc EXCEPT !.cache = [h \in Slots |->
                                IF touched(h) /\ empty(h) THEN NoEntry
                                ELSE [@[h] EXCEPT !.forks = left(h)]],
                   !.slot_deltas[s] = {}]

\* StatusCacheRc::slot_deltas of StatusCacheRc::roots: what a snapshot saves.
DeltasOfRoots(sc) == [s \in sc.roots |-> sc.slot_deltas[s]]

\* append, on the empty cache a restart begins with.
append(deltas) ==
    LET Put(c, s) == FoldSet(LAMBDA t, a : insert(a, t, s), c, deltas[s])
    IN  FoldSet(LAMBDA s, c : add_root(Put(c, s), s), EmptyCache, DOMAIN deltas)

-----------------------------------------------------------------------------
(* blockhash_queue.rs.  ages[h] is the height h was registered at, None    *)
(* when the queue does not hold it.                                        *)

GenesisQueue ==
    [hash_height |-> 0, ages |-> [h \in Slots |-> IF h = 0 THEN 0 ELSE None]]

Held(q) == {h \in Slots : q.ages[h] # None}

check_hash_age(q, h, max_age) ==
    h \in Held(q) /\ q.hash_height - q.ages[h] <= max_age

register_hash(q, hash) ==
    LET height == q.hash_height + 1
        full   == Cardinality(Held(q)) >= MAX_RECENT_BLOCKHASHES
        old(h) == height - q.ages[h] > MAX_RECENT_BLOCKHASHES
    IN  [hash_height |-> height,
         ages |-> [h \in Slots |->
                     CASE h = hash           -> height
                       [] h # hash /\ full /\ old(h) -> None
                       [] OTHER              -> q.ages[h]]]
=============================================================================
