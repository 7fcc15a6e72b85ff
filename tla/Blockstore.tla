----------------------------- MODULE Blockstore -----------------------------
(***************************************************************************)
(* Insertion of shreds into the blockstore (ledger/src/blockstore.rs): the *)
(* shreds of a slot arrive in any order, more than once or never, in       *)
(* batches that mix slots and versions of a slot; missing data shreds are  *)
(* recovered from coding shreds; slots are chained to their parents, which *)
(* may not be known yet; and replay may have a slot cleared, to be sent    *)
(* again in another version.                                               *)
(*                                                                         *)
(* A version of a slot is a parent, the numbers of its data and coding     *)
(* shreds, all in one erasure set, and the data shreds that end a data     *)
(* set, the last one apart.  Payloads, signatures and sizes are left out:  *)
(* a shred is its slot, version and index.                                 *)
(***************************************************************************)
EXTENDS Integers, FiniteSets, FiniteSetsExt, SequencesExt

CONSTANTS
    Slots,          \* an interval from 0; slot 0 is complete from the start
    Versions,       \* [Slots -> set of [parent, len, coding, ends]]: the blocks of a slot
    MaxLen,         \* data shreds of the longest version
    MaxCoding,      \* coding shreds of the version with most of them
    MaxBatch,       \* shreds inserted under one lock
    MaxCrashes

VARIABLES
    meta,       \* cf::SlotMeta
    data,       \* the data shreds of cf::Index, with the version stored
    coding,     \* the coding shreds of cf::Index, with the version stored
    erasure,    \* cf::ErasureMeta: the config of the set
    orphans,    \* cf::Orphans
    dead,       \* cf::DeadSlots, as far as insertion sets it
    duplicates, \* cf::DuplicateSlots
    last_root,
    purging,    \* the slots replay is having cleared
    signalled,  \* the last step sent the new-shreds signal to replay
    reported,   \* the completed data sets returned for the slot so far
    repeated,   \* the slots a data set of which was returned twice
    crashes,
    panicked

columns == <<meta, data, coding, erasure, orphans, dead, duplicates>>
vars == <<columns, last_root, purging, signalled, reported, repeated, crashes, panicked>>

None == -1
NoVersion == [parent |-> None, len |-> 0, coding |-> 0, ends |-> {}]
NoConfig == [num_data |-> 0, num_coding |-> 0]
Config(v) == [num_data |-> v.len, num_coding |-> v.coding]
Indexes == 0..MaxLen - 1
Stored(column) == {i \in DOMAIN column : column[i] # NoVersion}

ASSUME BlockstoreAssumption ==
    /\ 0 \in Slots /\ Slots \subseteq Nat
    /\ Versions \in [Slots -> SUBSET [parent : Slots, len : 1..MaxLen, coding : 0..MaxCoding,
                                      ends : SUBSET Indexes]]
    /\ \A s \in Slots : \A v \in Versions[s] : v.parent < s
    /\ {MaxLen, MaxCoding, MaxBatch} \subseteq Nat \ {0}
    /\ MaxCrashes \in Nat

last_in_slot(shred) == shred.index = shred.version.len - 1
data_complete(shred) == shred.index \in shred.version.ends

\* A SlotMeta; `known' is FALSE where the column has no entry.
SlotMeta(s, parent) ==
    [known |-> TRUE, consumed |-> 0, received |-> 0, last_index |-> None,
     parent_slot |-> parent, next_slots |-> <<>>, is_connected |-> s = 0,
     completed_data_indexes |-> {}]

new_orphan(s) == SlotMeta(s, None)

NoMeta == [new_orphan(None) EXCEPT !.known = FALSE]

is_full(m) == m.last_index # None /\ m.consumed = m.last_index + 1

is_orphan(m) == m.parent_slot = None

\* Slot 0 as create_new_ledger writes it, of one shred.
GenesisMeta ==
    [SlotMeta(0, 0) EXCEPT !.consumed = 1, !.received = 1, !.last_index = 0,
                           !.completed_data_indexes = {0}]

Init ==
    /\ meta = [s \in Slots |-> IF s = 0 THEN GenesisMeta ELSE NoMeta]
    /\ data = [s \in Slots |-> [i \in Indexes |->
                   IF s = 0 /\ i = 0 THEN [NoVersion EXCEPT !.len = 1] ELSE NoVersion]]
    /\ coding = [s \in Slots |-> [i \in 0..MaxCoding - 1 |-> NoVersion]]
    /\ erasure = [s \in Slots |-> NoConfig]
    /\ reported = [s \in Slots |-> {}]
    /\ orphans = {} /\ dead = {} /\ duplicates = {} /\ repeated = {} /\ purging = {}
    /\ last_root = 0 /\ crashes = 0
    /\ signalled = FALSE /\ panicked = FALSE

-----------------------------------------------------------------------------
(* One shred.  `st' is the working set of the insertion: the columns as    *)
(* the write batch will leave them, the erasure sets and the slots         *)
(* inserted into, and what the insertion returns.                          *)

WorkingSet ==
    [meta |-> meta, data |-> data, coding |-> coding, erasure |-> erasure,
     orphans |-> orphans, dead |-> dead, duplicates |-> duplicates,
     erasure_metas |-> {}, inserted |-> {},
     reported |-> reported, repeated |-> repeated]

\* get_slot_meta_entry: the working copy of a slot that a shred of version v names.
SlotMetaEntry(m, s, v) ==
    IF ~m.known THEN SlotMeta(s, v.parent)
    ELSE IF is_orphan(m) THEN [m EXCEPT !.parent_slot = v.parent]
    ELSE m

\* The data sets that shred `new' completes, where `received' holds the shred and
\* `ends', the indexes that end a data set, hold it if it ends one.
UpToNewOnly(new, received, ends) ==
    LET start == Max({0} \cup {e + 1 : e \in {x \in ends : x < new}})
    IN  IF new \in ends /\ start..new \subseteq received THEN {<<start, new>>} ELSE {}

update_completed_data_indexes(new, received, ends) ==
    LET start  == Max({0} \cup {e + 1 : e \in {x \in ends : x < new}})
        later  == {e \in ends : e > new}
        bounds == <<start>> \o (IF new \in ends THEN <<new + 1>> ELSE <<>>)
                            \o (IF later # {} THEN <<Min(later) + 1>> ELSE <<>>)
    IN  {<<bounds[i], bounds[i + 1] - 1>> : i \in {j \in 1..Len(bounds) - 1 :
             bounds[j]..bounds[j + 1] - 1 \subseteq received}}

\* new_consumed: past the shred, and past those that waited behind the gap.
PastTheShredOnly(m, index, received) == IF m.consumed = index THEN index + 1 ELSE m.consumed

NewConsumed(m, index, received) ==
    IF m.consumed = index THEN Min({i \in 0..MaxLen : i > index /\ i \notin received})
    ELSE m.consumed

update_slot_meta(m, shred, received) ==
    LET i == shred.index IN
    [m EXCEPT !.received = Max({i + 1, m.received}),
              !.consumed = NewConsumed(m, i, received),
              !.last_index = IF last_in_slot(shred) /\ @ = None THEN i ELSE @,
              !.completed_data_indexes = IF last_in_slot(shred) \/ data_complete(shred)
                                         THEN @ \cup {i} ELSE @]

CodingShredsOnly(st, s) == st.erasure_metas

\* The erasure set of a data shred: its metadata is looked at again if it is stored.
ErasureMetas(st, s) == IF st.erasure[s] # NoConfig THEN st.erasure_metas \cup {s}
                       ELSE st.erasure_metas

insert_data_shred(st, m, shred) ==
    LET s        == shred.slot
        received == Stored(st.data[s]) \cup {shred.index}
        new      == update_slot_meta(m, shred, received)
        sets     == update_completed_data_indexes(shred.index, received,
                                                  new.completed_data_indexes)
    IN  [st EXCEPT !.meta[s] = new,
                   !.data[s][shred.index] = shred.version,
                   !.inserted = @ \cup {s},
                   !.erasure_metas = ErasureMetas(st, s),
                   !.reported[s] = @ \cup sets,
                   !.repeated = IF sets \cap st.reported[s] = {} THEN @ ELSE @ \cup {s}]

is_data_shred_present(st, m, shred) ==
    shred.index < m.consumed \/ shred.index \in Stored(st.data[shred.slot])

\* The shred contradicts the stored ones on where the slot ends.
ConflictingLast(m, shred) ==
    \/ m.last_index # None /\ shred.index >= m.last_index
    \/ last_in_slot(shred) /\ shred.index < m.received

\* Such a shred is kept as the proof that there are two versions.  If it ends the slot
\* before shreds that are stored, the slot is dead: it may never become full.
Conflict(st, m, shred) ==
    [st EXCEPT !.dead = IF last_in_slot(shred) /\ shred.index < m.received /\ ~is_full(m)
                        THEN @ \cup {shred.slot} ELSE @,
               !.duplicates = @ \cup {shred.slot}]

verify_shred_slots(slot, parent_slot) == parent_slot < slot /\ parent_slot >= last_root

check_insert_data_shred(st, shred) ==
    LET s     == shred.slot
        m     == SlotMetaEntry(st.meta[s], s, shred.version)
        entry == [st EXCEPT !.meta[s] = m]
    IN  IF is_data_shred_present(st, m, shred) THEN entry
        ELSE IF ConflictingLast(m, shred) THEN Conflict(entry, m, shred)
        ELSE IF ~verify_shred_slots(s, m.parent_slot) THEN entry
        ELSE insert_data_shred(st, m, shred)

check_insert_coding_shred(st, shred) ==
    LET s == shred.slot
        new == [st EXCEPT !.erasure[s] = IF @ = NoConfig THEN Config(shred.version) ELSE @,
                          !.erasure_metas = @ \cup {s}]
    IN  IF shred.index \in Stored(st.coding[s]) \/ s <= last_root THEN st
        ELSE IF new.erasure[s] # Config(shred.version)     \* check_coding_shred
        THEN [new EXCEPT !.duplicates = @ \cup {s}]
        ELSE [new EXCEPT !.coding[s][shred.index] = shred.version]

check_insert_shred(st, shred) ==
    IF shred.code THEN check_insert_coding_shred(st, shred)
    ELSE check_insert_data_shred(st, shred)

-----------------------------------------------------------------------------
(* Recovery of data shreds from an erasure set.                            *)

DataOfSet(st, s) == {i \in Stored(st.data[s]) : i < st.erasure[s].num_data}

\* ErasureMeta::status
CanRecover(st, s) ==
    /\ Cardinality(DataOfSet(st, s)) < st.erasure[s].num_data
    /\ Cardinality(DataOfSet(st, s)) + Cardinality(Stored(st.coding[s])) >= st.erasure[s].num_data

\* The versions of the shreds the set is decoded from: its data shreds and the
\* first coding shreds.  Two versions decode to shreds whose signature is wrong.
VersionsOfSet(st, s) ==
    LET needed == st.erasure[s].num_data - Cardinality(DataOfSet(st, s))
        code == Stored(st.coding[s])
    IN  {st.data[s][i] : i \in DataOfSet(st, s)} \cup
        {st.coding[s][i] : i \in {j \in code : Cardinality({k \in code : k < j}) < needed}}

recover_shreds(st, s) ==
    LET v == CHOOSE v \in VersionsOfSet(st, s) : TRUE
    IN  IF Cardinality(VersionsOfSet(st, s)) > 1 THEN st
        ELSE FoldLeft(LAMBDA acc, i : IF i \in Stored(st.data[s]) THEN acc
                                      ELSE check_insert_data_shred(acc,
                                          [code |-> FALSE, slot |-> s, version |-> v, index |-> i]),
                      st, [k \in 1..st.erasure[s].num_data |-> k - 1])

try_shred_recovery(st) ==
    FoldSet(LAMBDA s, acc : recover_shreds(acc, s), st,
            {s \in st.erasure_metas : CanRecover(st, s)})

-----------------------------------------------------------------------------
(* Chaining.  `old' is the column as the insertion found it.               *)

\* find_slot_meta_else_create: a slot without a SlotMeta gets an orphan one.
Found(m, s) == IF m.known THEN m ELSE new_orphan(s)

chain_new_slot_to_prev_slot(st, s) ==
    LET p    == st.meta[s].parent_slot
        prev == Found(st.meta[p], p)
    IN  [st EXCEPT !.meta[p] = [prev EXCEPT !.next_slots = Append(@, s)],
                   !.meta[s].is_connected = prev.is_connected /\ is_full(prev),
                   !.orphans = IF is_orphan(prev) THEN @ \cup {p} ELSE @]

is_newly_completed_slot(new, old) ==
    is_full(new) /\ (~old.known \/ new.consumed # old.consumed)

\* The slots that next_slots of full slots lead to from s; children have higher slots.
ReachedThroughFull(column, s) ==
    LET reached[t \in Slots] ==
            \/ t = s
            \/ \E p \in Slots : /\ p < t /\ Contains(column[p].next_slots, t)
                                /\ is_full(column[p]) /\ reached[p]
    IN  {t \in Slots : reached[t]}

\* traverse_children_mut with the function that sets is_connected
SetConnected(st, s) ==
    LET reached == ReachedThroughFull(st.meta, s)
    IN  [st EXCEPT !.meta = [t \in Slots |->
            IF t \in reached THEN [Found(st.meta[t], t) EXCEPT !.is_connected = TRUE]
            ELSE st.meta[t]]]

ChainNewSlotsOnly(st, s, old) ==
    LET linked == IF ~old[s].known THEN chain_new_slot_to_prev_slot(st, s)
                  ELSE [st EXCEPT !.orphans = @ \ {s}]
    IN  IF is_newly_completed_slot(linked.meta[s], old[s]) /\ linked.meta[s].is_connected
        THEN SetConnected(linked, s) ELSE linked

handle_chaining_for_slot(st, s, old) ==
    LET was_orphan == old[s].known /\ is_orphan(old[s])
        chained == IF ~old[s].known \/ was_orphan THEN chain_new_slot_to_prev_slot(st, s) ELSE st
        linked == [chained EXCEPT !.orphans = IF was_orphan THEN @ \ {s} ELSE @]
    IN  IF is_newly_completed_slot(linked.meta[s], old[s]) /\ linked.meta[s].is_connected
        THEN SetConnected(linked, s) ELSE linked

\* The slots nothing was inserted into are dropped from the working set; the others
\* are chained in the order the hash map yields them.
handle_chaining(st, order, old) ==
    LET retained == [st EXCEPT !.meta = [s \in Slots |->
                        IF s \in st.inserted THEN st.meta[s] ELSE old[s]]]
    IN  FoldLeft(LAMBDA acc, s : handle_chaining_for_slot(acc, s, old), retained, order)

SignalIfConnectedBefore(new, old) == old.is_connected /\ new.consumed # old.consumed

slot_has_updates(new, old) ==
    /\ new.is_connected
    /\ new.consumed # (IF old.known THEN old.consumed ELSE 0)

-----------------------------------------------------------------------------
(* The operations.  insert_shreds_lock makes them atomic to each other; an *)
(* insertion is one write batch.                                           *)

Shreds ==
    UNION {[code : {FALSE}, slot : {s}, version : {v}, index : 0..v.len - 1] \cup
           [code : {TRUE}, slot : {s}, version : {v}, index : 0..v.coding - 1] :
           <<s, v>> \in UNION {{s} \X Versions[s] : s \in Slots}}

\* A batch of shreds, from turbine or repair: each shred may be new, a duplicate or
\* a late one of a slot that was cleared.
insert_shreds_handle_duplicate(shreds) ==
    \E received \in {FoldLeft(check_insert_shred, WorkingSet, shreds)} :
    \E all \in {try_shred_recovery(received)} :
    \E order \in SetToSeqs(all.inserted) :
    \E st \in {handle_chaining(all, order, meta)} :
        /\ meta' = st.meta /\ data' = st.data /\ coding' = st.coding
        /\ erasure' = st.erasure /\ orphans' = st.orphans
        /\ dead' = st.dead /\ duplicates' = st.duplicates
        /\ reported' = st.reported /\ repeated' = st.repeated
        /\ signalled' = \E s \in st.inserted : slot_has_updates(st.meta[s], meta[s])
        /\ UNCHANGED <<last_root, purging, crashes, panicked>>

\* run_purge of one slot: every column of the slot, in one write batch.
run_purge(s) ==
    /\ data' = [data EXCEPT ![s] = [i \in Indexes |-> NoVersion]]
    /\ coding' = [coding EXCEPT ![s] = [i \in 0..MaxCoding - 1 |-> NoVersion]]
    /\ erasure' = [erasure EXCEPT ![s] = NoConfig]
    /\ orphans' = orphans \ {s}
    /\ dead' = dead \ {s}
    /\ duplicates' = duplicates \ {s}
    /\ reported' = [reported EXCEPT ![s] = {}]

\* The SlotMeta column after the purge and the first n of the two puts that follow it:
\* the parent without the slot, and the slot with its children only.
MetaAfterPuts(s, n) ==
    LET p == meta[s].parent_slot
        purged   == [meta EXCEPT ![s] = NoMeta]
        unlinked == IF p = None THEN purged
                    ELSE [purged EXCEPT ![p].next_slots = SelectSeq(@, LAMBDA t : t # s)]
    IN  CASE n = 0 -> purged
          [] n = 1 -> unlinked
          [] n = 2 -> [unlinked EXCEPT ![s] =
                           [new_orphan(s) EXCEPT !.next_slots = meta[s].next_slots]]

\* The slots from s on that replay can replay shreds of.
ReplayableFrom(s) == {t \in ReachedThroughFull(meta, s) : ~is_orphan(meta[t])}
Replayable == ReplayableFrom(0)

\* Replay drops a slot above its root, after the cluster confirmed another version of
\* it, with the descendants it has banks of.
purge_unconfirmed_duplicate_slot(s) ==
    /\ purging = {}
    /\ s > last_root /\ s \in Replayable /\ meta[s].consumed > 0
    /\ \E banks \in SUBSET ReplayableFrom(s) :
           /\ s \in banks
           /\ \A t \in banks \ {s} : meta[t].parent_slot \in banks
           /\ purging' = banks
    /\ signalled' = FALSE
    /\ UNCHANGED <<columns, last_root, reported, repeated, crashes, panicked>>

\* One of them is cleared: the descendants in the order the hash set yields them,
\* then the slot itself.  The three writes are under the lock, but a crash may come
\* between them.
clear_unconfirmed_slot(s) ==
    LET lost_parent == ~is_orphan(meta[s]) /\ ~meta[meta[s].parent_slot].known IN
    /\ s \in purging
    /\ s = Min(purging) => purging = {s}
    /\ meta[s].known
    /\ run_purge(s)
    /\ \/ /\ meta' = MetaAfterPuts(s, IF lost_parent THEN 0 ELSE 2)
          /\ panicked' = lost_parent          \* expect() on the parent's SlotMeta
          /\ purging' = purging \ {s}
          /\ UNCHANGED crashes
       \/ /\ crashes < MaxCrashes
          /\ ~lost_parent
          /\ \E n \in {0, 1} : meta' = MetaAfterPuts(s, n)
          /\ purging' = {}
          /\ crashes' = crashes + 1
          /\ UNCHANGED panicked
    /\ signalled' = FALSE
    /\ UNCHANGED <<last_root, repeated>>

\* Replay roots a slot it replayed.
set_roots(s) ==
    /\ purging = {}
    /\ s > last_root
    /\ s \in Replayable /\ is_full(meta[s])
    /\ last_root' = s
    /\ signalled' = FALSE
    /\ UNCHANGED <<columns, purging, reported, repeated, crashes, panicked>>

Next ==
    /\ ~panicked
    /\ \/ \E n \in 1..MaxBatch : \E shreds \in [1..n -> Shreds] :
              insert_shreds_handle_duplicate(shreds)
       \/ \E s \in Slots : \/ purge_unconfirmed_duplicate_slot(s)
                           \/ clear_unconfirmed_slot(s)
                           \/ set_roots(s)

Spec == Init /\ [][Next]_vars

-----------------------------------------------------------------------------
\* The columns and the working state of replay have their types.
TypeOK ==
    /\ meta \in [Slots -> [known : BOOLEAN, consumed : 0..MaxLen, received : 0..MaxLen,
                           last_index : Indexes \cup {None}, parent_slot : Slots \cup {None},
                           next_slots : Seq(Slots), is_connected : BOOLEAN,
                           completed_data_indexes : SUBSET Indexes]]
    /\ \A s \in Slots : /\ ~meta[s].known => meta[s] = NoMeta
                        /\ Stored(data[s]) \subseteq Indexes
                        /\ {data[s][i] : i \in Stored(data[s])} \subseteq
                               Versions[s] \cup {[NoVersion EXCEPT !.len = 1]}
                        /\ {coding[s][i] : i \in Stored(coding[s])} \subseteq Versions[s]
    /\ {orphans, dead, duplicates, purging, repeated} \subseteq SUBSET Slots
    /\ last_root \in Slots /\ crashes \in 0..MaxCrashes

\* A SlotMeta says exactly what the index holds, in whatever order and from whatever
\* versions the shreds came, and after recovery and clearing: consumed is the first
\* missing shred, received is past the highest, and no shred is stored beyond the one
\* that ends the slot (is_full: "Should never happen").  All columns keep their types.
MetaMatchesIndex ==
    TypeOK /\ \A s \in Slots : LET m == meta[s]  stored == Stored(data[s]) IN
        /\ m.consumed = Min({i \in 0..MaxLen : i \notin stored})
        /\ m.received = Max({0} \cup {i + 1 : i \in stored})
        /\ m.last_index # None => m.received <= m.last_index + 1

LinksMatch ==
    \A s, p \in Slots :
        Cardinality({k \in DOMAIN meta[p].next_slots : meta[p].next_slots[k] = s}) =
            IF s # 0 /\ meta[s].parent_slot = p THEN 1 ELSE 0

\* A slot is among its parent's next_slots exactly once, and among no other slot's,
\* however the shreds of both interleave with clearing and sending them again; so
\* replay finds every child, and clear_unconfirmed_slot finds the parent it expects.
\* A slot that a chain of full slots leads to from slot 0 is marked connected, whichever
\* of them was completed last: only shreds of connected slots wake replay up.  A slot
\* leaves the orphans, of which repair asks ancestors, when its parent is known.
\* A crash inside clear_unconfirmed_slot loses the links, not the parent.
LinksAreExact ==
    /\ ~panicked
    /\ \A s \in orphans : meta[s].known /\ is_orphan(meta[s])
    /\ crashes = 0 => LinksMatch /\ \A s \in Replayable : meta[s].is_connected

\* clear_unconfirmed_slot clears a SlotMeta "except for next_slots": the children of a
\* slot that are stored stay its children.  A crash between its writes breaks this.
ChildrenAreKept ==
    \A s \in Slots \ {0} : meta[s].known /\ ~is_orphan(meta[s]) =>
        Contains(meta[meta[s].parent_slot].next_slots, s)

CompleteSets(s) ==
    LET ends == meta[s].completed_data_indexes
    IN  {<<Max({0} \cup {f + 1 : f \in {x \in ends : x < e}}), e>> : e \in ends}

\* Insertion returns every data set that is complete, once, whatever the order its
\* shreds and those of its neighbours arrive or are recovered in: the completed data
\* sets service publishes them to subscribers.
DataSetsOnce ==
    /\ repeated = {}
    /\ \A s \in Slots \ {0} : reported[s] =
           {r \in CompleteSets(s) : r[1]..r[2] \subseteq Stored(data[s])}

\* No erasure set is left with enough shreds to recover the missing ones, whichever
\* shred made it enough.  Excused are sets whose shreds are of two versions, slots
\* that are dead, which always have the duplicate proof stored that made them so, and slots one version of which is below the root: a rejected shred of that
\* version, in the same batch, decides the parent the recovered ones are checked with.
NothingToRecover ==
    /\ dead \subseteq duplicates
    /\ \A s \in Slots : CanRecover(WorkingSet, s) =>
           \/ Cardinality(VersionsOfSet(WorkingSet, s)) > 1
           \/ s \in dead
           \/ \E v \in Versions[s] : v.parent < last_root

\* An insertion that gives replay something to do signals it: the slot may be one that
\* shreds arrived for, or one that only now is reached through the completed slot.
ReplayIsSignalled ==
    [][crashes = 0 /\ ~signalled' => \A s \in Replayable' :
           \/ meta[s]'.consumed = 0
           \/ s \in Replayable /\ meta[s]'.consumed <= meta[s].consumed]_vars
=============================================================================
