----------------------------- MODULE ForkTree -----------------------------
(***************************************************************************)
(* HeaviestSubtreeForkChoice (src/core/src/heaviest_subtree_fork_choice.rs)*)
(* as operators on its map `fork_infos': the tree of the frozen blocks     *)
(* with their stake, the best leaf below each, and which of them fork      *)
(* choice may not pick because a duplicate slot is among their ancestors.  *)
(* A block is the pair <<slot, hash>> (SlotHashKey) of the tree Parent.    *)
(***************************************************************************)
EXTENDS Integers, FiniteSets, FiniteSetsExt, Sequences, SequencesExt

CONSTANTS
    Blocks,      \* every block any leader produced: <<slot, hash>>
    Parent,      \* the parent of each block but Genesis
    Genesis,     \* the block the tree starts from
    Validators,
    Stake        \* the stake of each validator

ASSUME ForkTreeAssumption ==
    /\ Blocks \subseteq Nat \X (Nat \ {0})
    /\ Genesis \in Blocks
    /\ Parent \in [Blocks \ {Genesis} -> Blocks]
    /\ \A k \in Blocks \ {Genesis} : Parent[k][1] < k[1]
    /\ Stake \in [Validators -> Nat]

None == <<>>

\* Hash::default(), the hash of a bank that is not frozen.
Default == 0

SlotOf(k) == k[1]
HashOf(k) == k[2]
Slots == {SlotOf(k) : k \in Blocks}

\* SlotHashKey is ordered by slot, then hash.
KeyLess(a, b) == \/ SlotOf(a) < SlotOf(b)
                 \/ SlotOf(a) = SlotOf(b) /\ HashOf(a) < HashOf(b)

\* The blocks in the order a batch of update operations visits them.
KeysDescending == SetToSortSeq(Blocks, LAMBDA a, b : KeyLess(b, a))

Above[k \in Blocks] == IF k = Genesis THEN {} ELSE {Parent[k]} \cup Above[Parent[k]]
Below == [k \in Blocks |-> {d \in Blocks : k = d \/ k \in Above[d]}]

\* The ancestors and the subtree of a block that the tree still holds.
Ancestors(fi, k) == Above[k] \cap DOMAIN fi
Subtree(fi, k) == Below[k] \cap DOMAIN fi
Children(fi, k) == {c \in DOMAIN fi : fi[c].parent = k}

ForkInfo(k, parent, invalid) ==
    [stake_voted_at |-> 0, stake_voted_subtree |-> 0, best_slot |-> k,
     parent |-> parent, latest_invalid_ancestor |-> invalid,
     is_duplicate_confirmed |-> parent = None]

\* latest_invalid_ancestor is a slot; -1 stands for None.
is_candidate(info) == info.latest_invalid_ancestor = -1

NewTree(root) == [k \in {root} |-> ForkInfo(root, None, -1)]

----------------------------------------------------------------------------
(* New leaves.                                                             *)

\* A variant of is_best_child that prefers the larger key on a tie.
PreferLaterSibling(fi, k) ==
    \A c \in Children(fi, fi[k].parent) :
        is_candidate(fi[c]) =>
            ~ \/ fi[c].stake_voted_subtree > fi[k].stake_voted_subtree
              \/ fi[c].stake_voted_subtree = fi[k].stake_voted_subtree /\ KeyLess(k, c)

is_best_child(fi, k) ==
    \A c \in Children(fi, fi[k].parent) :
        is_candidate(fi[c]) =>
            ~ \/ fi[c].stake_voted_subtree > fi[k].stake_voted_subtree
              \/ fi[c].stake_voted_subtree = fi[k].stake_voted_subtree /\ KeyLess(c, k)

\* Going up from the parent, the ancestors whose best block is the parent's.
propagate_new_leaf(fi, k, parent) ==
    LET best == fi[parent].best_slot
        path == {parent} \cup Ancestors(fi, parent)
        taken == {a \in path : \A x \in path :
                     (x = a \/ a \in Above[x]) => fi[x].best_slot = best}
    IN IF is_best_child(fi, k)
       THEN [x \in DOMAIN fi |-> IF x \in taken THEN [fi[x] EXCEPT !.best_slot = k] ELSE fi[x]]
       ELSE fi

add_new_leaf_slot(fi, k, parent) ==
    LET leaf == ForkInfo(k, parent, fi[parent].latest_invalid_ancestor)
        added == [x \in DOMAIN fi \cup {k} |-> IF x = k THEN leaf ELSE fi[x]]
    IN IF k \in DOMAIN fi THEN fi ELSE propagate_new_leaf(added, k, parent)

set_root(fi, k) ==
    [x \in Subtree(fi, k) |-> IF x = k THEN [fi[x] EXCEPT !.parent = None] ELSE fi[x]]

----------------------------------------------------------------------------
(* Batches of update operations.                                           *)

\* The child fork choice prefers: most stake, then the smaller key.
BestChild(fi, S) ==
    CHOOSE c \in S : \A d \in S \ {c} :
        \/ fi[c].stake_voted_subtree > fi[d].stake_voted_subtree
        \/ fi[c].stake_voted_subtree = fi[d].stake_voted_subtree /\ KeyLess(c, d)

aggregate_slot(fi, k) ==
    LET kids == Children(fi, k)
        candidates == {c \in kids : is_candidate(fi[c])}
        confirmed == \E c \in kids : fi[c].is_duplicate_confirmed
    IN IF k \notin DOMAIN fi THEN fi ELSE
       [fi EXCEPT ![k] =
          [@ EXCEPT !.stake_voted_subtree =
                        fi[k].stake_voted_at + MapThenSumSet(LAMBDA c : fi[c].stake_voted_subtree, kids),
                    !.best_slot = IF candidates = {} THEN k ELSE fi[BestChild(fi, candidates)].best_slot,
                    !.is_duplicate_confirmed = @ \/ confirmed,
                    !.latest_invalid_ancestor = IF confirmed THEN -1 ELSE @]]

\* A variant of mark_fork_valid that misses the slot marked itself.
ValidIfOlder(fi, k, slot) ==
    [fi EXCEPT ![k] =
       [@ EXCEPT !.latest_invalid_ancestor = IF @ < slot THEN -1 ELSE @,
                 !.is_duplicate_confirmed = @ \/ SlotOf(k) = slot]]

mark_fork_valid(fi, k, slot) ==
    [fi EXCEPT ![k] =
       [@ EXCEPT !.latest_invalid_ancestor = IF @ <= slot THEN -1 ELSE @,
                 !.is_duplicate_confirmed = @ \/ SlotOf(k) = slot]]

mark_fork_invalid(fi, k, slot) ==
    [fi EXCEPT ![k] = [@ EXCEPT !.latest_invalid_ancestor = IF slot > @ THEN slot ELSE @]]

MoveStake(fi, k, n) ==
    IF k \notin DOMAIN fi THEN fi ELSE
    [fi EXCEPT ![k] = [@ EXCEPT !.stake_voted_at = @ + n, !.stake_voted_subtree = @ + n]]

NoUpdates == [subtract |-> [k \in Blocks |-> 0], add |-> [k \in Blocks |-> 0],
              invalid |-> {}, valid |-> {}, slot |-> -1, aggregate |-> {}]

\* The operations on one block, in the reverse order of UpdateLabel.
ProcessKey(fi, ops, k) ==
    LET subtracted == MoveStake(fi, k, -ops.subtract[k])
        marked == IF k \in ops.invalid THEN mark_fork_invalid(subtracted, k, ops.slot)
                  ELSE IF k \in ops.valid THEN mark_fork_valid(subtracted, k, ops.slot)
                  ELSE subtracted
        voted == MoveStake(marked, k, ops.add[k])
    IN IF k \in ops.aggregate THEN aggregate_slot(voted, k) ELSE voted

process_update_operations(fi, ops) ==
    FoldLeft(LAMBDA acc, k : ProcessKey(acc, ops, k), fi, KeysDescending)

mark_fork_invalid_candidate(fi, k) ==
    LET subtree == Subtree(fi, k)
    IN IF k \notin DOMAIN fi THEN fi ELSE
       process_update_operations(fi,
           [NoUpdates EXCEPT !.invalid = subtree, !.slot = SlotOf(k),
                             !.aggregate = subtree \cup Ancestors(fi, k)])

mark_fork_valid_candidate(fi, k) ==
    LET subtree == Subtree(fi, k)
    IN process_update_operations(fi,
           [NoUpdates EXCEPT !.valid = subtree, !.slot = SlotOf(k),
                             !.aggregate = subtree \cup Ancestors(fi, k)])
============================================================================
