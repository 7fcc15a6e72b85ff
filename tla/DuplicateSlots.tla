--------------------------- MODULE DuplicateSlots ---------------------------
(***************************************************************************)
(* How the replay loop (src/core/src/replay_stage.rs) keeps fork choice in *)
(* step with what it replays and with what the cluster says about slots    *)
(* that have two versions: the state machine of                            *)
(* cluster_slot_state_verifier.rs on top of ForkTree, the votes that       *)
(* replayed banks carry (latest_validator_votes_for_frozen_banks.rs), the  *)
(* purge of wrong versions and the move of the root.                       *)
(*                                                                         *)
(* Each handler of the loop is one action; the loop runs them one after    *)
(* the other, with whatever its channels hold at that moment, so that the  *)
(* signals about a slot may come in any order and before or after the slot *)
(* is replayed.                                                            *)
(***************************************************************************)
EXTENDS ForkTree

CONSTANTS
    Confirmable,   \* the blocks the cluster confirms: one chain
    Duplicated,    \* the slots a duplicate proof may be seen of
    Sampled        \* the versions EpochSlots samples may report as frozen; of
                   \* a slot the cluster confirms it may be another version,
                   \* also one this validator never receives

ASSUME DuplicateSlotsAssumption ==
    /\ Confirmable \subseteq Blocks /\ Duplicated \subseteq Slots
    /\ Sampled \subseteq Slots \X {HashOf(k) : k \in Blocks}
    /\ \A a, b \in Confirmable : a = b \/ a \in Above[b] \/ b \in Above[a]

VARIABLES
    fork_infos,
    latest_votes,                       \* HeaviestSubtreeForkChoice::latest_votes
    max_replay_frozen_votes,            \* <<slot, hashes>> per validator
    root,
    bank,                               \* the version of the slot in BankForks
    dead,                               \* the slots whose bank is marked dead
    computed,                           \* fork_stats.computed
    supermajority,                      \* fork_stats.is_supermajority_confirmed
    duplicate_slots_tracker,
    gossip_duplicate_confirmed_slots,
    epoch_slots_frozen_slots,
    duplicate_slots_to_repair,
    bank_hashes,                        \* the column BankHash of the blockstore
    panicked

progress == <<bank, dead, computed, supermajority>>
trackers == <<duplicate_slots_tracker, gossip_duplicate_confirmed_slots, epoch_slots_frozen_slots>>
votes == <<latest_votes, max_replay_frozen_votes>>
verdicts == <<fork_infos, duplicate_slots_to_repair, bank_hashes, panicked>>
vars == <<fork_infos, latest_votes, max_replay_frozen_votes, root, bank, dead,
          computed, supermajority, duplicate_slots_tracker, gossip_duplicate_confirmed_slots,
          epoch_slots_frozen_slots, duplicate_slots_to_repair, bank_hashes, panicked>>

\* A slot whose replay has not ended has no hash yet.
NoHash == -1
Block(s) == <<s, bank[s]>>
bank_hash(s) == IF s \in dead THEN Default ELSE bank[s]
FrozenSlots == {s \in Slots : bank_hash(s) > Default}
ReplayedSlots == FrozenSlots \cup dead

Init ==
    /\ fork_infos = NewTree(Genesis)
    /\ latest_votes = [v \in Validators |-> None]
    /\ max_replay_frozen_votes = [v \in Validators |-> None]
    /\ root = Genesis
    /\ bank = [s \in Slots |-> IF s = SlotOf(Genesis) THEN HashOf(Genesis) ELSE NoHash]
    /\ dead = {} /\ computed = {SlotOf(Genesis)} /\ supermajority = {SlotOf(Genesis)}
    /\ duplicate_slots_tracker = {}
    /\ gossip_duplicate_confirmed_slots = [s \in Slots |-> NoHash]
    /\ epoch_slots_frozen_slots = [s \in Slots |-> NoHash]
    /\ duplicate_slots_to_repair = [s \in Slots |-> NoHash]
    /\ bank_hashes = [s \in Slots |-> None]
    /\ panicked = FALSE

----------------------------------------------------------------------------
(* What a signal about a slot changes (cluster_slot_state_verifier.rs).    *)

NoChange == [mark |-> FALSE, repair |-> NoHash, matches |-> FALSE]
MarkSlotDuplicate == [NoChange EXCEPT !.mark = TRUE]

check_duplicate_confirmed_hash_against_frozen_hash(confirmed, hash) ==
    IF confirmed # hash THEN [MarkSlotDuplicate EXCEPT !.repair = confirmed]
                        ELSE [NoChange EXCEPT !.matches = TRUE]

\* A variant of the check that asks for the repair but leaves the block votable.
RepairWithoutMark(sampled, hash) ==
    IF sampled # hash THEN [NoChange EXCEPT !.repair = sampled] ELSE NoChange

check_epoch_slots_hash_against_frozen_hash(sampled, hash) ==
    IF sampled # hash THEN [MarkSlotDuplicate EXCEPT !.repair = sampled] ELSE NoChange

is_duplicate_confirmed(fi, k) == k \in DOMAIN fi /\ fi[k].is_duplicate_confirmed

\* Replay's own confirmation comes before gossip's.
get_duplicate_confirmed_hash(fi, slot, hash) ==
    IF is_duplicate_confirmed(fi, <<slot, hash>>) THEN hash
    ELSE gossip_duplicate_confirmed_slots[slot]

\* A variant of on_replayed_slot that trusts the samples before the votes.
SamplesFirst(fi, slot, hash) ==
    LET confirmed == get_duplicate_confirmed_hash(fi, slot, hash)
        sampled == epoch_slots_frozen_slots[slot]
    IN IF sampled # NoHash
         THEN check_epoch_slots_hash_against_frozen_hash(sampled, hash)
       ELSE IF confirmed # NoHash
         THEN check_duplicate_confirmed_hash_against_frozen_hash(confirmed, hash)
       ELSE IF slot \in duplicate_slots_tracker THEN MarkSlotDuplicate
       ELSE NoChange

\* on_frozen_slot, and on_dead_slot with the default hash.
on_replayed_slot(fi, slot, hash) ==
    LET confirmed == get_duplicate_confirmed_hash(fi, slot, hash)
        sampled == epoch_slots_frozen_slots[slot]
    IN IF confirmed # NoHash
         THEN check_duplicate_confirmed_hash_against_frozen_hash(confirmed, hash)
       ELSE IF sampled # NoHash
         THEN check_epoch_slots_hash_against_frozen_hash(sampled, hash)
       ELSE IF slot \in duplicate_slots_tracker THEN MarkSlotDuplicate
       ELSE NoChange

on_duplicate_confirmed(confirmed, hash) ==
    IF hash = NoHash THEN NoChange
    ELSE check_duplicate_confirmed_hash_against_frozen_hash(confirmed, hash)

\* A variant of on_duplicate that forgets that the slot was confirmed.
MarkAnyDuplicate(confirmed, hash) ==
    IF hash # NoHash THEN MarkSlotDuplicate ELSE NoChange

on_duplicate(confirmed, hash) ==
    IF hash # NoHash /\ confirmed = NoHash THEN MarkSlotDuplicate ELSE NoChange

on_epoch_slots_frozen(sampled, confirmed, hash) ==
    IF confirmed # NoHash \/ hash = NoHash THEN NoChange
    ELSE check_epoch_slots_hash_against_frozen_hash(sampled, hash)

insert_bank_hash(hashes, slot, hash) ==
    IF hashes[slot] = <<hash, TRUE>> THEN hashes ELSE [hashes EXCEPT ![slot] = <<hash, FALSE>>]

\* The state the changes are applied to; `ok' turns false where an assertion
\* of ForkInfo or HeaviestSubtreeForkChoice fails.
Verdicts == [fi |-> fork_infos, repair |-> duplicate_slots_to_repair,
             hashes |-> bank_hashes, ok |-> TRUE]

\* A variant of NewlyConfirmed that reports only the block itself.
OnlyTheBlock(fi, k) == {a \in {k} : ~is_duplicate_confirmed(fi, a)}

\* The blocks mark_fork_valid_candidate returns: all that become confirmed.
NewlyConfirmed(fi, k) == {a \in {k} \cup Ancestors(fi, k) : ~is_duplicate_confirmed(fi, a)}

apply_state_changes(st, slot, hash, isFrozenNow, change) ==
    LET k == <<slot, hash>>
        newly == NewlyConfirmed(st.fi, k)
        recorded == [s \in Slots |->
                       IF \E a \in newly : SlotOf(a) = s
                       THEN <<HashOf(CHOOSE a \in newly : SlotOf(a) = s), TRUE>> ELSE st.hashes[s]]
    IN [fi |-> IF change.mark THEN mark_fork_invalid_candidate(st.fi, k)
               ELSE IF change.matches THEN mark_fork_valid_candidate(st.fi, k) ELSE st.fi,
        repair |-> [st.repair EXCEPT ![slot] =
                      IF change.matches THEN NoHash
                      ELSE IF change.repair # NoHash THEN change.repair ELSE @],
        hashes |-> IF change.matches THEN recorded
                   ELSE IF isFrozenNow /\ ~is_duplicate_confirmed(st.fi, k)
                     THEN insert_bank_hash(st.hashes, slot, hash) ELSE st.hashes,
        ok |-> /\ st.ok
               /\ change.mark /\ k \in DOMAIN st.fi =>
                    \A d \in Subtree(st.fi, k) : ~st.fi[d].is_duplicate_confirmed
               /\ change.matches => k \in DOMAIN st.fi]

\* The end of check_slot_agrees_with_cluster: nothing at or below the root.
check_slot_agrees_with_cluster(st, slot, hash, isFrozenNow, change) ==
    IF slot <= SlotOf(root) THEN st ELSE apply_state_changes(st, slot, hash, isFrozenNow, change)

Adopt(st) ==
    /\ fork_infos' = st.fi
    /\ duplicate_slots_to_repair' = st.repair
    /\ bank_hashes' = st.hashes
    /\ panicked' = ~st.ok

----------------------------------------------------------------------------
(* Replay of a slot: it freezes, or it is found invalid.                   *)

\* generate_new_bank_forks starts a bank only on a frozen one from the root on.
Replayable(k) ==
    /\ k # Genesis /\ bank[SlotOf(k)] = NoHash
    /\ SlotOf(Parent[k]) \in FrozenSlots /\ SlotOf(Parent[k]) >= SlotOf(root)
    /\ Parent[k] = Block(SlotOf(Parent[k]))

\* The bank of block k completes in replay_active_banks.
freeze(k) ==
    LET s == SlotOf(k)
        grown == add_new_leaf_slot(fork_infos, k, Parent[k])
    IN /\ Replayable(k)
       /\ bank' = [bank EXCEPT ![s] = HashOf(k)]
       /\ Adopt(check_slot_agrees_with_cluster([Verdicts EXCEPT !.fi = grown], s, HashOf(k), TRUE,
                                               on_replayed_slot(grown, s, HashOf(k))))
       /\ UNCHANGED <<votes, root, dead, computed, supermajority, trackers>>

mark_dead_slot(k) ==
    LET s == SlotOf(k)
    IN /\ Replayable(k)
       /\ bank' = [bank EXCEPT ![s] = HashOf(k)]
       /\ dead' = dead \cup {s}
       /\ Adopt(check_slot_agrees_with_cluster(Verdicts, s, Default, FALSE,
                                               on_replayed_slot(fork_infos, s, Default)))
       /\ UNCHANGED <<votes, root, computed, supermajority, trackers>>

----------------------------------------------------------------------------
(* Signals from the rest of the cluster.                                   *)

process_duplicate_slots(s) ==
    /\ duplicate_slots_tracker' =
          IF s > SlotOf(root) THEN duplicate_slots_tracker \cup {s} ELSE duplicate_slots_tracker
    /\ IF s \in duplicate_slots_tracker THEN UNCHANGED verdicts
       ELSE Adopt(check_slot_agrees_with_cluster(Verdicts, s, bank_hash(s), FALSE,
               on_duplicate(get_duplicate_confirmed_hash(fork_infos, s, bank_hash(s)), bank_hash(s))))
    /\ UNCHANGED <<votes, root, progress, gossip_duplicate_confirmed_slots, epoch_slots_frozen_slots>>

\* DuplicateConfirmed for a slot, unless fork choice knows it already.
DuplicateConfirmed(st, slot, confirmed) ==
    IF is_duplicate_confirmed(st.fi, <<slot, bank_hash(slot)>>) THEN st
    ELSE check_slot_agrees_with_cluster(st, slot, bank_hash(slot), FALSE,
                                        on_duplicate_confirmed(confirmed, bank_hash(slot)))

\* One batch of newly confirmed blocks. A block that gossip confirmed before
\* ends the handler, with the rest of the batch.
process_gossip_duplicate_confirmed_slots(batch) ==
    LET above == SelectSeq(batch, LAMBDA k : SlotOf(k) > SlotOf(root))
        seen == {i \in DOMAIN above : gossip_duplicate_confirmed_slots[SlotOf(above[i])] # NoHash}
        fresh == IF seen = {} THEN above ELSE SubSeq(above, 1, Min(seen) - 1)
        end == FoldLeft(LAMBDA st, k : DuplicateConfirmed(st, SlotOf(k), HashOf(k)), Verdicts, fresh)
    IN /\ gossip_duplicate_confirmed_slots' =
             [s \in Slots |-> IF \E i \in DOMAIN fresh : SlotOf(fresh[i]) = s
                              THEN HashOf(fresh[CHOOSE i \in DOMAIN fresh : SlotOf(fresh[i]) = s])
                              ELSE gossip_duplicate_confirmed_slots[s]]
       /\ Adopt(end)
       /\ UNCHANGED <<votes, root, progress, duplicate_slots_tracker, epoch_slots_frozen_slots>>

process_epoch_slots_frozen_dead_slots(k) ==
    LET s == SlotOf(k)
        isNew == epoch_slots_frozen_slots[s] # HashOf(k)
    IN /\ epoch_slots_frozen_slots' =
             IF s > SlotOf(root) THEN [epoch_slots_frozen_slots EXCEPT ![s] = HashOf(k)]
             ELSE epoch_slots_frozen_slots
       /\ IF ~isNew THEN UNCHANGED verdicts
          ELSE Adopt(check_slot_agrees_with_cluster(Verdicts, s, bank_hash(s), FALSE,
                  on_epoch_slots_frozen(HashOf(k), get_duplicate_confirmed_hash(fork_infos, s, bank_hash(s)),
                                        bank_hash(s))))
       /\ UNCHANGED <<votes, root, progress, duplicate_slots_tracker, gossip_duplicate_confirmed_slots>>

\* confirm_forks and mark_slots_confirmed for the slot of a bank that a
\* supermajority voted on, as the votes in a bank on top of it show.
mark_slots_confirmed(s) ==
    /\ s \in FrozenSlots \ supermajority /\ Block(s) \in Confirmable
    /\ \E t \in computed : Block(s) \in Above[Block(t)]
    /\ supermajority' = supermajority \cup {s}
    /\ Adopt(DuplicateConfirmed(Verdicts, s, bank[s]))
    /\ UNCHANGED <<votes, root, bank, dead, computed, trackers>>

----------------------------------------------------------------------------
(* Votes.                                                                  *)

NoVote == -1

\* The entry of the dirty set that a replayed vote leaves behind: the vote,
\* or, for another version of the slot voted on last, the or_default() slot 0.
check_add_vote(v, slot, hash) ==
    LET latest == max_replay_frozen_votes[v]
        better == latest = None \/ slot > latest[1]
        other == latest # None /\ slot = latest[1] /\ hash \notin latest[2]
    IN IF hash <= Default THEN [max |-> latest, dirty |-> None]
       ELSE IF better THEN [max |-> <<slot, {hash}>>, dirty |-> <<slot, hash>>]
       ELSE IF other THEN [max |-> <<slot, latest[2] \cup {hash}>>, dirty |-> <<0, hash>>]
       ELSE [max |-> latest, dirty |-> None]

\* generate_update_operations keeps a vote that is not older than the root or
\* than the validator's latest, and of two versions the one of smaller hash.
IsNewVote(v, k) ==
    /\ k # None /\ SlotOf(k) >= SlotOf(root)
    /\ latest_votes[v] # None =>
          \/ SlotOf(k) > SlotOf(latest_votes[v])
          \/ SlotOf(k) = SlotOf(latest_votes[v]) /\ HashOf(k) < HashOf(latest_votes[v])

StakeOf(V) == MapThenSumSet(LAMBDA v : Stake[v], V)

\* A variant of add_votes that leaves the stake of the earlier vote behind.
KeepOldStake(new) ==
    LET voters == {v \in Validators : IsNewVote(v, new[v])}
    IN /\ latest_votes' = [v \in Validators |-> IF v \in voters THEN new[v] ELSE latest_votes[v]]
       /\ fork_infos' = process_update_operations(fork_infos,
             [NoUpdates EXCEPT
                !.add = [k \in Blocks |-> StakeOf({v \in voters : new[v] = k})],
                !.aggregate = UNION {Ancestors(fork_infos, new[v]) : v \in voters}])

add_votes(new) ==
    LET voters == {v \in Validators : IsNewVote(v, new[v])}
        left == {v \in voters : latest_votes[v] # None}
        touched == {new[v] : v \in voters} \cup {latest_votes[v] : v \in left}
    IN /\ latest_votes' = [v \in Validators |-> IF v \in voters THEN new[v] ELSE latest_votes[v]]
       /\ fork_infos' = process_update_operations(fork_infos,
             [NoUpdates EXCEPT
                !.add = [k \in Blocks |-> StakeOf({v \in voters : new[v] = k})],
                !.subtract = [k \in Blocks |-> StakeOf({v \in left : latest_votes[v] = k})],
                !.aggregate = UNION {Ancestors(fork_infos, k) : k \in touched \cap DOMAIN fork_infos}])

\* The votes that land in the bank of slot s are for slots of its own fork.
VotesIn(s) == [Validators -> {NoVote} \cup {SlotOf(a) : a \in Above[Block(s)] \ {Genesis}}]

\* compute_bank_stats for the first frozen bank it has not seen.
compute_bank_stats(s, cast) ==
    LET hash(t) == IF t = NoVote THEN NoHash ELSE bank_hash(t)
        added == [v \in Validators |-> check_add_vote(v, cast[v], hash(cast[v]))]
    IN /\ s \in FrozenSlots \ computed
       /\ \A t \in FrozenSlots : t < s => t \in computed
       /\ computed' = computed \cup {s}
       /\ max_replay_frozen_votes' = [v \in Validators |-> added[v].max]
       /\ add_votes([v \in Validators |-> added[v].dirty])
       /\ UNCHANGED <<root, bank, dead, supermajority, trackers, duplicate_slots_to_repair,
                      bank_hashes, panicked>>

----------------------------------------------------------------------------
(* Purge and root.                                                         *)

\* The slots whose bank descends from the bank of slot s.
Descendants(s) == {t \in ReplayedSlots : Block(s) \in Above[Block(t)]}

\* Every wrong version goes, with the banks on top of it; what fork choice
\* knows of them stays. Only a slot under the block the validator is building
\* (tip is its parent) is kept for a later turn of the loop.
dump_then_repair_correct_slots(tip) ==
    LET held == IF tip = None THEN {} ELSE {SlotOf(tip)} \cup {SlotOf(a) : a \in Above[tip]}
        pending == {s \in Slots : duplicate_slots_to_repair[s] # NoHash}
        wrong == {s \in pending \ held : bank_hash(s) \notin {NoHash, duplicate_slots_to_repair[s]}}
        gone == wrong \cup UNION {Descendants(s) : s \in wrong}
    IN /\ pending # {}
       /\ bank' = [s \in Slots |-> IF s \in gone THEN NoHash ELSE bank[s]]
       /\ dead' = dead \ gone
       /\ computed' = computed \ gone
       /\ supermajority' = supermajority \ gone
       /\ bank_hashes' = [s \in Slots |-> IF s \in gone THEN None ELSE bank_hashes[s]]
       /\ duplicate_slots_to_repair' =
             [s \in Slots |-> IF s \in held THEN duplicate_slots_to_repair[s] ELSE NoHash]
       /\ UNCHANGED <<fork_infos, votes, root, trackers, panicked>>

\* The tower's root is a bank that most of the cluster voted on.
handle_new_root(k, highest_confirmed_root) ==
    LET kept == {s \in ReplayedSlots :
                   \/ Block(s) = k \/ k \in Above[Block(s)]
                   \/ Block(s) \in Above[k] /\ s >= highest_confirmed_root}
        From(f) == [s \in Slots |-> IF s >= SlotOf(k) THEN f[s] ELSE NoHash]
    IN /\ SlotOf(k) \in FrozenSlots /\ k = Block(SlotOf(k)) /\ root \in Above[k] /\ is_duplicate_confirmed(fork_infos, k)
       /\ highest_confirmed_root <= SlotOf(k)
       /\ root' = k
       /\ fork_infos' = set_root(fork_infos, k)
       /\ bank' = [s \in Slots |-> IF s \in kept THEN bank[s] ELSE NoHash]
       /\ dead' = dead \cap kept
       /\ computed' = computed \cap kept
       /\ supermajority' = supermajority \cap kept
       /\ duplicate_slots_tracker' = {s \in duplicate_slots_tracker : s >= SlotOf(k)}
       /\ gossip_duplicate_confirmed_slots' = From(gossip_duplicate_confirmed_slots)
       /\ epoch_slots_frozen_slots' = From(epoch_slots_frozen_slots)
       /\ UNCHANGED <<votes, duplicate_slots_to_repair, bank_hashes, panicked>>

Batches == {<<a>> : a \in Confirmable}
           \cup {<<p[1], p[2]>> : p \in {q \in Confirmable \X Confirmable : q[1] # q[2]}}

Next ==
    /\ ~panicked
    /\ \/ \E k \in Blocks : freeze(k)
       \/ \E k \in Blocks : mark_dead_slot(k)
       \/ \E s \in Duplicated : process_duplicate_slots(s)
       \/ \E b \in Batches : process_gossip_duplicate_confirmed_slots(b)
       \/ \E k \in Sampled : process_epoch_slots_frozen_dead_slots(k)
       \/ \E s \in Slots : mark_slots_confirmed(s)
       \/ \E s \in FrozenSlots : \E cast \in VotesIn(s) : compute_bank_stats(s, cast)
       \/ \E tip \in {None} \cup {Block(s) : s \in FrozenSlots} : dump_then_repair_correct_slots(tip)
       \/ \E k \in Blocks, s \in Slots : handle_new_root(k, s)

Spec == Init /\ [][Next]_vars

----------------------------------------------------------------------------
(* Properties.                                                             *)

Hashes == {HashOf(k) : k \in Blocks}

\* Types; the root and the best block of every subtree are in the tree,
\* also after set_root has pruned it.
TypeOK ==
    /\ \A k \in DOMAIN fork_infos :
          /\ k \in Blocks /\ fork_infos[k].best_slot \in DOMAIN fork_infos
          /\ fork_infos[k].latest_invalid_ancestor \in Slots \cup {-1}
          /\ fork_infos[k].stake_voted_at \in Nat
    /\ root \in DOMAIN fork_infos
    /\ bank \in [Slots -> Hashes \cup {NoHash}]
    /\ dead \cup computed \cup supermajority \cup duplicate_slots_tracker \subseteq Slots
    /\ latest_votes \in [Validators -> Blocks \cup {None}]
    /\ gossip_duplicate_confirmed_slots \in [Slots -> Hashes \cup {NoHash}]

VotersIn(k) == {v \in Validators : latest_votes[v] \in Subtree(fork_infos, k)}

\* The weights fork choice keeps incrementally (add_slot_stake,
\* subtract_slot_stake, aggregate_slot) are always those of the latest votes:
\* at every block the stake of the validators whose latest vote is there, and
\* at its subtree the stake of those who voted in it, each counted once,
\* through purges of slots, other versions of a slot and moves of the root.
WeightsExact ==
    \A k \in DOMAIN fork_infos :
        /\ fork_infos[k].stake_voted_at = StakeOf({v \in Validators : latest_votes[v] = k})
        /\ fork_infos[k].stake_voted_subtree = StakeOf(VotersIn(k))

\* The reference: from a block down, the heaviest candidate child each time.
Heaviest ==
    LET prefer(S) == CHOOSE c \in S : \A d \in S \ {c} :
                        \/ StakeOf(VotersIn(c)) > StakeOf(VotersIn(d))
                        \/ StakeOf(VotersIn(c)) = StakeOf(VotersIn(d)) /\ KeyLess(c, d)
        below(k) == {c \in Children(fork_infos, k) : is_candidate(fork_infos[c])}
        best[k \in DOMAIN fork_infos] == IF below(k) = {} THEN k ELSE best[prefer(below(k))]
    IN best

\* The best block cached at each votable block (propagate_new_leaf,
\* aggregate_slot) is the one a walk down the heaviest candidate children
\* finds, so select_forks returns the heaviest fork without a walk.
BestIsHeaviest ==
    \A k \in DOMAIN fork_infos : is_candidate(fork_infos[k]) => fork_infos[k].best_slot = Heaviest[k]

\* On the fork of block k is a block that the cluster confirmed although an
\* EpochSlots sample reports another version of its slot.
Contested(k) ==
    \E a \in ({k} \cup Above[k]) \cap Confirmable :
        /\ \E b \in Sampled : SlotOf(b) = SlotOf(a) /\ b # a
        /\ a \in DOMAIN fork_infos => fork_infos[a].is_duplicate_confirmed

\* Whatever fork choice may pick is a block whose bank is in BankForks: a
\* version that dump_then_repair_correct_slots purged was marked invalid
\* before, and although its entry stays it becomes a candidate again only when
\* a block under it is confirmed against the sample that had it purged
\* (mark_fork_valid_candidate).
CandidatesAreReplayed ==
    \A k \in DOMAIN fork_infos :
        is_candidate(fork_infos[k]) => k = Block(SlotOf(k)) \/ Contested(k)

\* Once gossip has confirmed a version of a slot above the root, that version
\* is confirmed in fork choice if it is the one that froze, and any other
\* frozen version is no candidate, in whichever order the replay of the
\* slot, the duplicate proof, the samples and the confirmation came.
ClusterVersionWins ==
    \A k \in DOMAIN fork_infos :
        LET confirmed == gossip_duplicate_confirmed_slots[SlotOf(k)]
        IN bank_hash(SlotOf(k)) = HashOf(k) /\ SlotOf(k) > SlotOf(root) /\ confirmed # NoHash =>
             IF HashOf(k) = confirmed THEN fork_infos[k].is_duplicate_confirmed
             ELSE ~is_candidate(fork_infos[k])

\* The marks of fork choice fit the tree: a confirmed block is a candidate,
\* whatever marks it or its ancestors got before (mark_fork_valid,
\* update_with_newly_valid_ancestor), and every block on top of an invalid one
\* is invalid, also one added later (add_new_leaf_slot).
MarksFitTree ==
    \A k \in DOMAIN fork_infos :
        ~is_candidate(fork_infos[k]) => \A d \in Subtree(fork_infos, k) :
            ~is_candidate(fork_infos[d]) /\ ~fork_infos[d].is_duplicate_confirmed

\* The blockstore's record of confirmed hashes, from which repair and a
\* restart read, has no block that is not confirmed in fork choice, and every
\* one that is, its ancestors included (set_duplicate_confirmed_slots_and_hashes),
\* unless a sample against the confirmation had the record purged.
ConfirmationsArePersisted ==
    \A k \in DOMAIN fork_infos \ {Genesis} :
        LET recorded == bank_hashes[SlotOf(k)] = <<HashOf(k), TRUE>>
        IN /\ recorded => fork_infos[k].is_duplicate_confirmed
           /\ fork_infos[k].is_duplicate_confirmed => recorded \/ Contested(k)

\* No assertion of the handlers fails: no block with a confirmed descendant
\* is ever marked invalid (ForkInfo::update_with_newly_invalid_ancestor), and
\* only blocks of the tree are marked valid; and the root and every best_slot,
\* which fork choice looks up and unwraps, are in the tree (TypeOK).
NoPanic == TypeOK /\ ~panicked

\* A frozen slot known to have two versions, neither of them confirmed, is no
\* candidate: replay_stage.rs, select_vote_and_reset_forks, "the heaviest fork
\* is never descended from a known unconfirmed duplicate slot because the fork
\* choice rule ensures that".
UnconfirmedDuplicatesExcluded ==
    \A s \in duplicate_slots_tracker \cap FrozenSlots :
        s > SlotOf(root) =>
           \/ fork_infos[Block(s)].is_duplicate_confirmed
           \/ ~is_candidate(fork_infos[Block(s)])
============================================================================
