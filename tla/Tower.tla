------------------------------- MODULE Tower -------------------------------
(***************************************************************************)
(* How a validator votes, and keeps its promises across restarts: the      *)
(* tower of src/core/src/consensus.rs over the lockouts of                 *)
(* src/programs/vote/src/vote_state/mod.rs, the vote and root part of the  *)
(* replay loop (handle_votable_bank), the voting service that stores the   *)
(* tower and sends the vote (voting_service.rs, tower_storage.rs), and the *)
(* start of the validator after a crash (validator.rs, load_frozen_forks). *)
(*                                                                         *)
(* A block is its slot: duplicate versions are the subject of              *)
(* DuplicateSlots. direct_vote_state_update is not active.                 *)
(***************************************************************************)
EXTENDS Integers, FiniteSets, FiniteSetsExt, Functions, Sequences

CONSTANTS
    Slots,
    Parent,                  \* of every slot but 0
    Supermajority,           \* the slots most of the stake votes for: one chain
    ClusterRoot,             \* the root of most vote accounts, as a slot's bank has them
    MAX_LOCKOUT_HISTORY,     \* votes in a tower
    VOTE_THRESHOLD_DEPTH,    \* the vote that must have a supermajority
    MaxActive,               \* bound on the banks under replay at once
    MaxQueued,               \* bound on the votes waiting for the voting service
    MaxCrashes               \* bound on the number of restarts

\* The ancestors of a slot, by recursion and as a table.
Ancestry[s \in Slots] == IF s = 0 THEN {} ELSE {Parent[s]} \cup Ancestry[Parent[s]]
Above == [s \in Slots |-> Ancestry[s]]

ASSUME TowerAssumption ==
    /\ Slots \subseteq Nat /\ 0 \in Slots
    /\ Parent \in [Slots \ {0} -> Slots] /\ \A s \in Slots \ {0} : Parent[s] < s
    /\ Supermajority \subseteq Slots /\ 0 \in Supermajority
    /\ \A s, t \in Supermajority : s = t \/ s \in Above[t] \/ t \in Above[s]
    /\ \A s \in Supermajority : Above[s] \subseteq Supermajority
    /\ ClusterRoot \in [Slots -> Supermajority]
    /\ \A s \in Slots : s # 0 => ClusterRoot[s] \in Above[s]
    /\ MaxActive \in Nat /\ MaxQueued \in Nat
    /\ MAX_LOCKOUT_HISTORY \in Nat \ {0} /\ VOTE_THRESHOLD_DEPTH \in 1..MAX_LOCKOUT_HISTORY - 1

\* Arithmetic: the lockout of a vote grows with its confirmations.
ASSUME PowerAssumption ==
    \A c, d \in 0..MAX_LOCKOUT_HISTORY : c <= d => 2 ^ c <= 2 ^ d

VARIABLES
    ledger,      \* the full slots in the blockstore
    roots,       \* the slots the blockstore has marked as roots
    saved,       \* the tower in the tower file, NoTower before the first vote
    frozen,      \* the slots of the frozen banks in BankForks
    active,      \* the slots of its other banks, which are still being replayed
    root,        \* the root of BankForks
    tower,
    queue,       \* VoteOps on the way to the voting service
    sending,     \* the VoteOp whose tower is stored and whose vote is not sent yet
    promised,    \* history: per slot, the last slot the votes sent lock it out until,
                 \* those sent before the last restart only if they are in durable
    durable,     \* history: the part of it made by votes signed when they were recorded
    lastSent,    \* history: the vote sent last, and whether it was signed when recorded
    lastSigned,
    crashes,
    panicked     \* the assertion or panic the validator died of, or "no"

disk == <<ledger, roots, saved>>
memory == <<frozen, active, root, tower>>
observed == <<promised, durable, lastSent, lastSigned>>
vars == <<ledger, roots, saved, frozen, active, root, tower, queue, sending, promised, durable,
          lastSent, lastSigned, crashes, panicked>>

None == -1
\* signed is history: generate_vote_tx made a transaction of the last vote when
\* it was recorded.
NewTower(r) == [votes |-> <<>>, root_slot |-> r, last_vote |-> None, stray |-> None, signed |-> TRUE]
NoTower == NewTower(None)
\* PushVote carries the tower to store, RefreshVote does not.
VoteOp(t, push) == [tower |-> t, push |-> push]
NoOp == VoteOp(NoTower, FALSE)

----------------------------------------------------------------------------
(* VoteState.                                                              *)

Lockout(s) == [slot |-> s, confirmation_count |-> 1]
last_locked_out_slot(v) == v.slot + 2 ^ v.confirmation_count

last_voted_slot(votes) == IF votes = <<>> THEN None ELSE votes[Len(votes)].slot

\* Only the newest votes go: down to the first that is locked out at s.
pop_expired_votes(votes, s) ==
    SubSeq(votes, 1, Max({0} \cup {i \in DOMAIN votes : last_locked_out_slot(votes[i]) >= s}))

double_lockouts(votes) ==
    [i \in DOMAIN votes |->
        IF Len(votes) > (i - 1) + votes[i].confirmation_count
        THEN [votes[i] EXCEPT !.confirmation_count = @ + 1] ELSE votes[i]]

\* Mutant: the tower is full one vote early.
FullOneEarly(vs, s) ==
    LET kept == pop_expired_votes(vs.votes, s)
        full == Len(kept) >= MAX_LOCKOUT_HISTORY - 1
    IN IF s <= last_voted_slot(vs.votes) THEN vs
       ELSE [vs EXCEPT !.votes = double_lockouts(Append(IF full THEN Tail(kept) ELSE kept, Lockout(s))),
                       !.root_slot = IF full THEN kept[1].slot ELSE @]

\* vs is a record with votes and root_slot.
process_next_vote_slot(vs, s) ==
    LET kept == pop_expired_votes(vs.votes, s)
        full == Len(kept) = MAX_LOCKOUT_HISTORY
    IN IF s <= last_voted_slot(vs.votes) THEN vs
       ELSE [vs EXCEPT !.votes = double_lockouts(Append(IF full THEN Tail(kept) ELSE kept, Lockout(s))),
                       !.root_slot = IF full THEN kept[1].slot ELSE @]

----------------------------------------------------------------------------
(* Tower.                                                                  *)

VotedSlots(t) == {t.votes[i].slot : i \in DOMAIN t.votes}

\* BankForks::ancestors() leaves out what is below the root.
ancestors(s) == {a \in Above[s] : a >= root}

is_recent(s) == IF tower.votes # <<>> THEN s > last_voted_slot(tower.votes) ELSE s > tower.root_slot

\* The votes left after a vote for s, other than for s itself.
VotesUnder(s) == {v \in VotedSlots(process_next_vote_slot(tower, s)) : v # s}

is_locked_out(s) == \/ ~is_recent(s)
                    \/ ~(VotesUnder(s) \subseteq ancestors(s))

\* The assertion at the end of is_locked_out.
RootAsserted(s) ==
    LET r == process_next_vote_slot(tower, s).root_slot
    IN ~is_locked_out(s) => r \in ancestors(s) \cup {s}

\* compute_bank_stats evaluates is_locked_out for every frozen bank at each turn
\* of the loop; the thread dies at a failed assertion.
StatsComputed == \A s \in frozen : RootAsserted(s)

check_vote_stake_threshold(s) ==
    LET votes == process_next_vote_slot(tower, s).votes
    IN Len(votes) > VOTE_THRESHOLD_DEPTH =>
          LET v == votes[Len(votes) - VOTE_THRESHOLD_DEPTH]
          IN /\ v.slot \in frozen
             /\ \/ v.slot \in Supermajority
                \/ /\ v.confirmation_count > VOTE_THRESHOLD_DEPTH
                   /\ v \in Range(tower.votes)

is_stray_last_vote == tower.stray # None /\ tower.stray = tower.last_vote

\* The heaviest bank is a leaf of the fork choice, which has the frozen banks.
Leaf(s) == s \in frozen /\ \A c \in frozen \ {0} : Parent[c] # s

\* heaviest_slot_on_same_voted_fork finds the last vote in the fork choice, or
\* it is stray.
LastVoteKnown == tower.last_vote \in frozen \cup {None} \/ is_stray_last_vote

\* check_switch_threshold: whether s may be voted on; leaving the fork of the
\* last vote takes a proof that enough stake is locked out on other forks.
banks == frozen \cup active
SameFork(s) == tower.last_vote = None \/ s = tower.last_vote \/ tower.last_vote \in ancestors(s)
Suspended(s) == tower.last_vote \in banks /\ s \in ancestors(tower.last_vote)

\* The banks whose lockouts are counted for the proof: those without a frozen
\* descendant, off the fork of the last vote.
Candidates ==
    {c \in frozen : /\ \A d \in frozen : c \notin Above[d]
                    /\ c # tower.last_vote /\ tower.last_vote \notin ancestors(c)
                    /\ c > tower.root_slot}
\* "any ancestors of the last_vote should have been filtered out"
CandidatesAsserted == tower.last_vote \in banks => Candidates \cap ancestors(tower.last_vote) = {}

----------------------------------------------------------------------------
Init ==
    /\ ledger = {0} /\ roots = {0} /\ saved = NoTower
    /\ frozen = {0} /\ active = {} /\ root = 0
    /\ tower = NewTower(0)
    /\ queue = <<>> /\ sending = NoOp
    /\ promised = [s \in Slots |-> None] /\ durable = promised
    /\ lastSent = None /\ lastSigned = TRUE
    /\ crashes = 0 /\ panicked = "no"

\* The first shreds of a slot whose parent is frozen are there.
generate_new_bank_forks(s) ==
    /\ s \notin banks /\ s > root /\ Parent[s] \in frozen
    /\ Cardinality(active) < MaxActive
    /\ active' = active \cup {s}
    /\ UNCHANGED <<disk, frozen, root, tower, queue, sending, observed, crashes, panicked>>

\* The slot's shreds are complete and its bank freezes.
replay_active_banks(s) ==
    /\ s \in active
    /\ ledger' = ledger \cup {s}
    /\ frozen' = frozen \cup {s} /\ active' = active \ {s}
    /\ UNCHANGED <<roots, saved, root, tower, queue, sending, observed, crashes, panicked>>

\* The first assertion that fails in a turn of the replay loop whose heaviest
\* bank is s: for the statistics of the banks, for the last vote, or in
\* check_switch_threshold.
Failure(s) ==
    IF ~StatsComputed THEN "is_locked_out"
    ELSE IF ~LastVoteKnown THEN "last_vote"
    ELSE IF SameFork(s) THEN "no"
    ELSE IF Suspended(s) THEN IF is_stray_last_vote THEN "no" ELSE "ancestor"
    ELSE IF ~CandidatesAsserted THEN "candidate" ELSE "no"

\* Such a turn, which ends before it comes to a vote. That on the candidates is
\* not always met: the count stops once it is enough for a proof.
select_vote_and_reset_forks(s) ==
    /\ Leaf(s) /\ Failure(s) # "no"
    /\ panicked' = Failure(s)
    /\ UNCHANGED <<disk, memory, queue, sending, observed, crashes>>

\* A turn of the replay loop whose heaviest bank is the leaf s; there may be a
\* switching proof. signed says whether generate_vote_tx makes a transaction: it
\* does not before wait_to_vote_slot, when the vote account is missing or another
\* node's, or when the keypair of its authorized voter is not among those an
\* operator has given the validator at that moment. The tower snapshot is taken
\* before the blockstore's roots are set; a vote that cannot be signed stays in
\* the tower and is neither stored nor sent.
handle_votable_bank(s, signed) ==
    LET after == process_next_vote_slot(tower, s)
        voted == [after EXCEPT !.last_vote = s, !.signed = signed]
        newRoot == after.root_slot
        isNew == newRoot # tower.root_slot
    IN /\ Leaf(s)
       /\ Len(queue) < MaxQueued
       /\ StatsComputed /\ LastVoteKnown
       /\ ~is_locked_out(s) /\ check_vote_stake_threshold(s)
       /\ SameFork(s) \/ ~Suspended(s)
       /\ tower' = voted
       /\ roots' = IF isNew THEN roots \cup {newRoot} \cup Above[newRoot] ELSE roots
       /\ root' = IF isNew THEN newRoot ELSE root
       /\ frozen' = IF isNew THEN {b \in frozen : b = newRoot \/ newRoot \in Above[b]} ELSE frozen
       /\ active' = IF isNew THEN {b \in active : newRoot \in Above[b]} ELSE active
       /\ queue' = IF signed THEN Append(queue, VoteOp(voted, TRUE)) ELSE queue
       /\ panicked' = IF isNew /\ newRoot \notin frozen THEN "root_bank" ELSE "no"
       /\ UNCHANGED <<ledger, saved, sending, observed, crashes>>

\* The last vote has not landed in h, the heaviest bank of its fork, and is
\* sent once more, if a transaction can be made of it now.
refresh_last_vote(h) ==
    /\ Leaf(h)
    /\ tower.last_vote \in frozen /\ tower.last_vote \in Above[h] \cup {h}
    /\ StatsComputed
    /\ Len(queue) < MaxQueued
    /\ queue' = Append(queue, VoteOp(tower, FALSE))
    /\ UNCHANGED <<disk, memory, sending, observed, crashes, panicked>>

----------------------------------------------------------------------------
(* The voting service: the tower is stored before the vote is sent.        *)

\* Mutant: a tower is only written when its root has moved.
StoreNewRoots ==
    /\ queue # <<>> /\ sending = NoOp
    /\ saved' = IF queue[1].push /\ queue[1].tower.root_slot # saved.root_slot
                THEN [queue[1].tower EXCEPT !.stray = None] ELSE saved
    /\ sending' = queue[1]
    /\ queue' = Tail(queue)
    /\ UNCHANGED <<ledger, roots, memory, observed, crashes, panicked>>

store ==
    /\ queue # <<>> /\ sending = NoOp
    /\ saved' = IF queue[1].push THEN [queue[1].tower EXCEPT !.stray = None] ELSE saved
    /\ sending' = queue[1]
    /\ queue' = Tail(queue)
    /\ UNCHANGED <<ledger, roots, memory, observed, crashes, panicked>>

\* Promises p and the lockouts that the votes of t enter into.
Promise(p, t) ==
    [s \in Slots |-> Max({p[s]} \cup
                        {last_locked_out_slot(v) : v \in {w \in Range(t.votes) : w.slot = s}})]

send_transaction ==
    /\ sending # NoOp
    /\ promised' = Promise(promised, sending.tower)
    /\ durable' = IF sending.tower.signed THEN Promise(durable, sending.tower) ELSE durable
    /\ lastSent' = sending.tower.last_vote /\ lastSigned' = sending.tower.signed
    /\ sending' = NoOp
    /\ UNCHANGED <<disk, memory, queue, crashes, panicked>>

----------------------------------------------------------------------------
(* Restart.                                                                *)

\* SlotHistory::check at the root bank r, with slots of the history too old
\* to be in it left out.
Check(history, s) == IF s > Max(history) THEN "Future" ELSE IF s \in history THEN "Found" ELSE "NotFound"

\* The tower's root and votes agree with the history: once a slot of the
\* tower is found, every older one is. False where the code asserts or
\* returns FatallyInconsistent.
Consistent(slots, found, history) ==
    /\ found # {}
    /\ \A i \in 1..Max(found) : Check(history, slots[i]) # "NotFound"
    /\ \A i, j \in DOMAIN slots : i < j =>
          /\ slots[i] < slots[j] \/ (i = 1 /\ slots[i] = slots[j])
          /\ Check(history, slots[i]) = "Future" => Check(history, slots[j]) = "Future"

\* Mutant: only the votes above the replayed root are kept.
KeepFutureVotes(t, history) ==
    LET slots == <<t.root_slot>> \o [i \in DOMAIN t.votes |-> t.votes[i].slot]
        found == {i \in DOMAIN slots : Check(history, slots[i]) = "Found"}
        votes == SelectSeq(t.votes, LAMBDA v : v.slot > Max(history))
        ok == Consistent(slots, found, history)
    IN [ok |-> ok,
        tower |-> IF ~ok THEN t
                  ELSE IF votes = <<>> THEN [t EXCEPT !.votes = <<>>, !.last_vote = None]
                  ELSE [t EXCEPT !.votes = votes, !.stray = t.last_vote]]

\* Mutant: the restored last vote is not remembered as stray.
ForgetStray(t, history) ==
    LET slots == <<t.root_slot>> \o [i \in DOMAIN t.votes |-> t.votes[i].slot]
        found == {i \in DOMAIN slots : Check(history, slots[i]) = "Found"}
        votes == SubSeq(t.votes, Max(found), Len(t.votes))
        ok == Consistent(slots, found, history)
    IN [ok |-> ok,
        tower |-> IF ~ok THEN t
                  ELSE IF votes = <<>> THEN [t EXCEPT !.votes = <<>>, !.last_vote = None]
                  ELSE [t EXCEPT !.votes = votes]]

\* The votes above the newest slot of the tower that is in the history stay.
adjust_lockouts_with_slot_history(t, history) ==
    LET slots == <<t.root_slot>> \o [i \in DOMAIN t.votes |-> t.votes[i].slot]
        found == {i \in DOMAIN slots : Check(history, slots[i]) = "Found"}
        votes == SubSeq(t.votes, Max(found), Len(t.votes))
        ok == Consistent(slots, found, history)
    IN [ok |-> ok,
        tower |-> IF ~ok THEN t
                  ELSE IF votes = <<>> THEN [t EXCEPT !.votes = <<>>, !.last_vote = None]
                  ELSE [t EXCEPT !.votes = votes, !.stray = t.last_vote]]

adjust_lockouts_after_replay(t, replayed) ==
    LET history == {replayed} \cup Above[replayed]
        asserted == t.last_vote # None /\ t.votes # <<>>
    IN IF t.root_slot <= replayed
       THEN LET a == adjust_lockouts_with_slot_history(t, history)
            IN [ok |-> asserted /\ a.ok, tower |-> [a.tower EXCEPT !.root_slot = replayed]]
       ELSE LET a == adjust_lockouts_with_slot_history(t, history \cup {t.root_slot})
            IN [a EXCEPT !.ok = asserted /\ @]

\* load_frozen_forks replays the ledger from its start, follows the roots of
\* the blockstore and, from the last of them on, the root of the cluster.
ReplayedRoot(blocks, own) == Max({own} \cup {ClusterRoot[b] : b \in {c \in blocks : own \in Above[c]}})

\* The roots the blockstore misses up to the tower's root.
reconcile_blockstore_roots_with_tower(t, blocks, rooted) ==
    IF Max(rooted) < t.root_slot /\ t.root_slot \in blocks
    THEN rooted \cup {t.root_slot} \cup {a \in Above[t.root_slot] : a > Max(rooted)} ELSE rooted

\* The process dies and starts again. Of the blockstore, whose writes are not
\* ordered with those of the tower file, it finds the slots up to `kept' and
\* the roots up to `keptRoot'.
restart(kept, keptRoot) ==
    LET blocks == {s \in ledger : s <= kept}
        rooted == {r \in roots : r <= keptRoot}
        replayed == ReplayedRoot(blocks, Max(rooted))
        newRoots == rooted \cup {a \in Above[replayed] \cup {replayed} : a > Max(rooted)}
        result == adjust_lockouts_after_replay(saved, replayed)
    IN /\ crashes < MaxCrashes
       /\ keptRoot <= kept /\ Max(rooted) \in blocks
       /\ crashes' = crashes + 1
       /\ ledger' = blocks
       /\ frozen' = {b \in blocks : b = replayed \/ replayed \in Above[b]} /\ active' = {}
       /\ root' = replayed
       /\ IF saved = NoTower
          THEN tower' = NewTower(replayed) /\ roots' = newRoots /\ panicked' = "no"
          ELSE /\ tower' = result.tower
               /\ roots' = reconcile_blockstore_roots_with_tower(saved, blocks, newRoots)
               /\ panicked' = IF result.ok /\ (Max(newRoots) < saved.root_slot => Max(newRoots) \in Above[saved.root_slot])
                              THEN "no" ELSE "restore"
       /\ queue' = <<>> /\ sending' = NoOp
       /\ promised' = durable
       /\ UNCHANGED <<saved, durable, lastSent, lastSigned>>

Next ==
    /\ panicked = "no"
    /\ \/ \E s \in Slots : generate_new_bank_forks(s)
       \/ \E s \in Slots : replay_active_banks(s)
       \/ \E s \in Slots : select_vote_and_reset_forks(s)
       \/ \E s \in Slots, signed \in BOOLEAN : handle_votable_bank(s, signed)
       \/ \E h \in Slots : refresh_last_vote(h)
       \/ store
       \/ send_transaction
       \/ \E kept \in ledger, keptRoot \in roots : restart(kept, keptRoot)

Spec == Init /\ [][Next]_vars

----------------------------------------------------------------------------
(* Properties.                                                             *)

\* Every variable has its type: in particular a tower never holds more than
\* MAX_LOCKOUT_HISTORY votes (the VecDeque of process_next_vote_slot).
TypeOK ==
    /\ ledger \cup roots \cup frozen \cup active \subseteq Slots
    /\ Len(tower.votes) <= MAX_LOCKOUT_HISTORY /\ VotedSlots(tower) \subseteq Slots
    /\ Len(queue) <= MaxQueued
    /\ promised \in [Slots -> Nat \cup {None}]

\* The validator keeps its lockouts: a vote it sends is for a descendant of every
\* slot that an earlier vote still locks it out on. The lockouts of a vote that
\* was signed when it was recorded are kept through every crash; those of a vote
\* that was recorded unsigned and sent by a later refresh, until the process ends
\* (record_bank_vote, the tower file and adjust_lockouts_after_replay together).
LockoutsAreKept ==
    [][\A s \in Slots : lastSent' = s /\ lastSent # s =>
          \A t \in Slots : promised[t] >= s => t = s \/ t \in Above[s]]_vars

\* What the validator roots is on the chain of the supermajority: because
\* check_vote_stake_threshold stopped every vote before it could be the root,
\* no root, in BankForks, the tower or the blockstore, is on a minority fork,
\* and after a crash the three agree on one chain.
RootIsConfirmed == roots \cup {root, tower.root_slot} \subseteq Supermajority

\* A validator whose ledger has what its tower has voted on does not panic, and
\* neither does a restart. Only a tower restored beside a ledger that lost slots
\* can fail an assertion: that of is_locked_out while the tower's root is not
\* rooted again, that of check_switch_threshold while the bank of the restored
\* last vote is being replayed again. The bank of a new root exists
\* (handle_votable_bank), the last vote is found unless it is stray, no turn
\* switches to an ancestor of it, and a restored tower is never found
\* FatallyInconsistent (adjust_lockouts_after_replay). The state keeps its types.
PanicsOnlyUnsynced ==
    /\ TypeOK
    /\ panicked \in {"no", "is_locked_out", "candidate"}
    /\ panicked = "is_locked_out" => tower.root_slot > root
    /\ panicked = "candidate" => is_stray_last_vote /\ tower.last_vote \in active

\* "This case should never happen because bank forks purges all
\* non-descendants of the root every time root is set": the assertion at the
\* end of is_locked_out holds for every frozen bank.
RootIsAncestor == panicked # "is_locked_out"

\* "By the time we reach here, any ancestors of the `last_vote`, should have been
\* filtered out, as they all have a descendant, namely the `last_vote` itself":
\* the assertion of check_switch_threshold holds.
AncestorsAreFiltered == panicked # "candidate"

\* The tower file is never behind the cluster: no vote that was signed when it
\* was recorded has been sent that is newer than the last vote of the saved
\* tower, whenever the process may die (VotingService::handle_vote stores, then
\* sends; a refreshed vote is sent without storing).
VotesAreSaved == lastSigned => lastSent <= saved.last_vote

\* The validator "will terminate if it's not able to write its tower ... before
\* submitting a vote transaction": no vote at all is sent before the file has it.
\* Not so for a vote that was recorded unsigned and is refreshed later.
EveryVoteIsSaved == lastSent <= saved.last_vote
============================================================================
