---------------------------- MODULE TowerProofs ----------------------------
(***************************************************************************)
(* The tower file is never behind the votes that were signed when they     *)
(* were recorded and have been sent, and every root is on the chain of the *)
(* supermajority, for every ledger, tower depth, threshold depth and       *)
(* number of crashes.  What the tower's operators do to its votes, and     *)
(* what Above is, are lemmas that TowerSafetyProofs uses too.              *)
(***************************************************************************)
EXTENDS Tower, SequenceTheorems, WellFoundedInduction, TLAPS

Vote == [slot : Slots, confirmation_count : Nat]
TowerType ==
    [votes : Seq(Vote), root_slot : Int, last_vote : Int, stray : Int, signed : BOOLEAN]
VoteOpType == [tower : TowerType, push : BOOLEAN]

\* The last vote of a tower that has votes is the last of them.
Last_Is(t) == t.votes # <<>> => t.last_vote = t.votes[Len(t.votes)].slot

\* The last vote the voting service has, stored or queued.
Newest == IF queue = <<>> THEN saved.last_vote ELSE queue[Len(queue)].tower.last_vote

NewestSigned == IF queue = <<>> THEN sending.tower.signed ELSE queue[Len(queue)].tower.signed

\* The vote before the i-th of the queue, and whether it was signed when recorded:
\* before the first of the queue comes the one that is being sent.
Before(i) == IF i = 1 THEN saved.last_vote ELSE queue[i - 1].tower.last_vote
BeforeSigned(i) == IF i = 1 THEN sending.tower.signed ELSE queue[i - 1].tower.signed

Types ==
    /\ ledger \subseteq Slots /\ frozen \subseteq Slots /\ active \subseteq Slots
    /\ tower \in TowerType /\ saved \in TowerType /\ sending \in VoteOpType
    /\ queue \in Seq(VoteOpType)
    /\ lastSent \in Int /\ lastSigned \in BOOLEAN

\* A stored tower is of a vote that was signed; a refreshed vote that was repeats
\* the one before it, which was too.
Signed(op, before, beforeSigned) ==
    /\ op.push => op.tower.signed
    /\ ~op.push /\ op.tower.signed => op.tower.last_vote = before /\ beforeSigned

\* What is queued is no older than what is saved, in order.
QueueInv ==
    \A i \in 1..Len(queue) :
        /\ Before(i) <= queue[i].tower.last_vote
        /\ Signed(queue[i], Before(i), BeforeSigned(i))
        /\ queue[i].tower.votes # <<>> /\ Last_Is(queue[i].tower)

\* A tower with votes is no older than what is queued, and if its last vote was
\* signed it is the newest; one without votes has a root that is not older.
TowerInv ==
    /\ saved = NoTower \/ (saved.votes # <<>> /\ Last_Is(saved))
    /\ saved.signed
    /\ Last_Is(tower)
    /\ tower.votes # <<>> => Newest <= tower.last_vote
    /\ tower.votes # <<>> /\ tower.signed => tower.last_vote = Newest /\ NewestSigned
    /\ tower.votes = <<>> => tower.last_vote = None /\ Newest <= tower.root_slot

SentInv ==
    /\ sending.tower.signed => sending.tower.last_vote <= saved.last_vote
    /\ lastSigned => lastSent <= saved.last_vote

SavedInv == Types /\ QueueInv /\ TowerInv /\ SentInv

-----------------------------------------------------------------------------
(* Max of a set of numbers with bounds is its greatest element.            *)
LEMMA MaxOf ==
    ASSUME NEW lo \in Int, NEW n \in Int, NEW S \in SUBSET (lo..n), S # {}
    PROVE  Max(S) \in S /\ \A y \in S : y <= Max(S)
<1> DEFINE T == {n - x : x \in S}
           R == {ss \in Nat \X Nat : ss[1] < ss[2]}
<1>1. IsWellFoundedOn(R, Nat)
  BY NatLessThanWellFounded DEF OpToRel
<1>2. T \subseteq Nat /\ T # {}
  <2>1. \A x \in S : n - x \in Nat
    OBVIOUS
  <2>2. PICK x \in S : TRUE
    BY Zenon
  <2>3. n - x \in T
    OBVIOUS
  <2> QED BY <2>1, <2>3
<1> HIDE DEF R
<1>3. \E x \in T : \A y \in T : ~(<<y, x>> \in R)
  BY <1>1, <1>2, WFMin, Zenon
<1>4. PICK m \in S : \A y \in T : ~(<<y, n - m>> \in R)
  BY <1>3
<1>5. ASSUME NEW y \in S PROVE y <= m
  <2>1. ~(<<n - y, n - m>> \in R)
    BY <1>4
  <2>2. ~(n - y < n - m)
    BY <2>1, <1>2 DEF R
  <2> QED BY <2>2
<1>6. \A y \in S : m >= y
  BY <1>5
<1> QED BY <1>6, Zenon DEF Max

LEMMA MaxBounded ==
    ASSUME NEW n \in Nat, NEW S \in SUBSET (0..n), S # {}
    PROVE  Max(S) \in S /\ \A y \in S : y <= Max(S)
<1>1. 0 \in Int /\ n \in Int
  OBVIOUS
<1> QED BY <1>1, MaxOf, Zenon

(* A function on 1..n is a sequence.                                       *)
LEMMA FunctionIsSeq ==
    ASSUME NEW S, NEW n \in Nat, NEW f \in [1..n -> S]
    PROVE  f \in Seq(S) /\ Len(f) = n
<1>1. f \in Seq(S)
  BY SeqDef
<1> QED BY <1>1, LenProperties

\* The slots and the replayed ones, without the shape of the tree.
LEMMA SlotFacts ==
    /\ Slots \subseteq Nat /\ 0 \in Slots
    /\ Supermajority \subseteq Slots /\ 0 \in Supermajority
BY TowerAssumption

LEMMA VoteSlot == \A v \in Vote : v.slot \in Nat
BY SlotFacts, Zenon DEF Vote

-----------------------------------------------------------------------------
(* Ancestors.                                                              *)

(* What Above stands for is the set of all ancestors: the function exists  *)
(* because the smallest set that holds a slot and the parents of its       *)
(* members does.                                                           *)
Closure(s) ==
    {t \in Slots : \A U \in SUBSET Slots :
        s \in U /\ (\A u \in U \ {0} : Parent[u] \in U) => t \in U}

LEMMA ClosureStep ==
    ASSUME NEW p \in Slots
    PROVE  Closure(p) = {p} \cup (IF p = 0 THEN {} ELSE Closure(Parent[p]))
<1> DEFINE V == {p} \cup (IF p = 0 THEN {} ELSE Closure(Parent[p]))
<1>1. \A u \in Slots \ {0} : Parent[u] \in Slots
  BY TowerAssumption
<1>2. \A s \in Slots : s \in Closure(s) /\ \A u \in Closure(s) \ {0} : Parent[u] \in Closure(s)
  BY <1>1 DEF Closure
<1>3. V \in SUBSET Slots /\ p \in V /\ \A u \in V \ {0} : Parent[u] \in V
  <2>1. V \subseteq Slots
    BY DEF Closure
  <2>2. ASSUME NEW u \in V \ {0} PROVE Parent[u] \in V
    <3>1. CASE u = p
      BY <1>1, <1>2, <2>2, <3>1
    <3>2. CASE u # p
      BY <1>1, <1>2, <2>2, <3>2
    <3> QED BY <3>1, <3>2
  <2> QED BY <2>1, <2>2
<1>4. Closure(p) \subseteq V
  <2> HIDE DEF V
  <2> QED BY <1>3 DEF Closure
<1>5. V \subseteq Closure(p)
  <2>1. p # 0 => Closure(Parent[p]) \subseteq Closure(p)
    BY <1>1 DEF Closure
  <2> QED BY <1>2, <2>1
<1> QED BY <1>4, <1>5

LEMMA AboveStep ==
    \A s \in Slots : Above[s] = IF s = 0 THEN {} ELSE {Parent[s]} \cup Above[Parent[s]]
<1> DEFINE F(f) == [s \in Slots |-> IF s = 0 THEN {} ELSE {Parent[s]} \cup f[Parent[s]]]
           C == [s \in Slots |-> IF s = 0 THEN {} ELSE Closure(Parent[s])]
<1>1. C = F(C)
  <2>1. ASSUME NEW s \in Slots \ {0} PROVE Closure(Parent[s]) = {Parent[s]} \cup C[Parent[s]]
    <3>1. Parent[s] \in Slots
      BY TowerAssumption
    <3> QED BY <3>1, ClosureStep
  <2> QED BY <2>1, Zenon
<1>2. Ancestry = CHOOSE f : f = F(f)
  BY DEF Ancestry
<1> HIDE DEF C, F
<1>3. Ancestry = F(Ancestry)
  BY <1>1, <1>2
<1>4. \A s \in Slots : Ancestry[s] = IF s = 0 THEN {} ELSE {Parent[s]} \cup Ancestry[Parent[s]]
  BY <1>3 DEF F
<1>5. \A s \in Slots : s # 0 => Parent[s] \in Slots
  BY TowerAssumption
<1> QED BY <1>4, <1>5, Zenon DEF Above

(* Induction along the parents.                                            *)
LEMMA ParentInduction ==
    ASSUME NEW P \in SUBSET Slots,
           \A s \in Slots : (s # 0 => Parent[s] \in P) => s \in P
    PROVE  P = Slots
<1> DEFINE R == {ss \in Nat \X Nat : ss[1] < ss[2]}
           T == Slots \ P
<1>1. IsWellFoundedOn(R, Nat)
  BY NatLessThanWellFounded DEF OpToRel
<1>2. T \subseteq Nat
  BY TowerAssumption
<1> SUFFICES ASSUME T # {} PROVE FALSE
  OBVIOUS
<1>3. PICK x \in T : \A y \in T : ~(<<y, x>> \in R)
  <2> HIDE DEF T, R
  <2> QED BY <1>1, <1>2, WFMin, Zenon
<1>4. x # 0 /\ Parent[x] \in T
  BY TowerAssumption
<1>5. <<Parent[x], x>> \in R
  BY <1>2, <1>4, TowerAssumption, Zenon
<1> QED BY <1>3, <1>4, <1>5

LEMMA AboveBelow == \A s \in Slots : Above[s] \subseteq {t \in Slots : t < s}
<1> DEFINE P == {s \in Slots : Above[s] \subseteq {t \in Slots : t < s}}
<1>1. ASSUME NEW s \in Slots, s # 0 => Parent[s] \in P PROVE s \in P
  <2>1. CASE s = 0
    BY <2>1, AboveStep, Zenon
  <2>2. CASE s # 0
    <3>1. /\ Above[s] = {Parent[s]} \cup Above[Parent[s]]
          /\ Parent[s] \in Slots /\ Parent[s] < s /\ s \in Nat /\ Slots \subseteq Nat
      BY <2>2, AboveStep, TowerAssumption, Zenon
    <3>2. \A t \in Above[Parent[s]] : t \in Slots /\ t < Parent[s]
      BY <1>1, <2>2
    <3>3. ASSUME NEW t \in Above[Parent[s]] PROVE t < s
      <4>1. t \in Nat /\ Parent[s] \in Nat /\ t < Parent[s] /\ Parent[s] < s
        BY <3>1, <3>2, Zenon
      <4> QED BY <3>1, <4>1
    <3> QED BY <3>1, <3>2, <3>3
  <2> QED BY <2>1, <2>2
<1>2. P = Slots
  <2> HIDE DEF P
  <2>1. P \in SUBSET Slots
    BY DEF P
  <2> QED BY <1>1, <2>1, ParentInduction
<1> QED BY <1>2

(* A slot and its ancestors: one chain.                                    *)
Chain(s) == Above[s] \cup {s}

LEMMA ChainSlots == \A s \in Slots : s \in Chain(s) /\ \A t \in Chain(s) : t \in Slots /\ t <= s
<1> SUFFICES ASSUME NEW s \in Slots, NEW t \in Chain(s) PROVE t \in Slots /\ t <= s
  BY DEF Chain
<1>1. s \in Nat /\ Slots \subseteq Nat
  BY TowerAssumption
<1>2. CASE t = s
  BY <1>1, <1>2
<1>3. CASE t \in Above[s]
  <2>1. t \in Slots /\ t < s
    BY <1>3, AboveBelow
  <2>2. t \in Nat
    BY <1>1, <2>1
  <2> QED BY <1>1, <2>1, <2>2
<1> QED BY <1>2, <1>3 DEF Chain

LEMMA ChainParent == \A s \in Slots \ {0} : Chain(s) = {s} \cup Chain(Parent[s])
BY AboveStep, ZenonT(60) DEF Chain

LEMMA ChainTransitive ==
    \A s \in Slots : \A t \in Chain(s) : Chain(t) \subseteq Chain(s)
<1> DEFINE P == {s \in Slots : \A t \in Chain(s) : Chain(t) \subseteq Chain(s)}
<1>1. ASSUME NEW s \in Slots, s # 0 => Parent[s] \in P PROVE s \in P
  <2>1. CASE s = 0
    BY <2>1, AboveStep, Zenon DEF Chain
  <2>2. CASE s # 0
    BY <1>1, <2>2, ChainParent
  <2> QED BY <2>1, <2>2
<1>2. P = Slots
  <2> HIDE DEF P
  <2>1. P \in SUBSET Slots
    BY DEF P
  <2> QED BY <1>1, <2>1, ParentInduction
<1> QED BY <1>2

(* Of two slots of a chain, the older is an ancestor of the newer.         *)
LEMMA ChainLinear ==
    \A s \in Slots : \A a, b \in Chain(s) : a <= b => a \in Chain(b)
<1> DEFINE P == {s \in Slots : \A a, b \in Chain(s) : a <= b => a \in Chain(b)}
<1>1. ASSUME NEW s \in Slots, s # 0 => Parent[s] \in P PROVE s \in P
  <2>1. CASE s = 0
    BY <2>1, AboveStep, Zenon DEF Chain
  <2>2. CASE s # 0
    <3> SUFFICES ASSUME NEW a \in Chain(s), NEW b \in Chain(s), a <= b PROVE a \in Chain(b)
      OBVIOUS
    <3>1. /\ Parent[s] \in Slots /\ Parent[s] < s /\ Slots \subseteq Nat
          /\ Chain(s) = {s} \cup Chain(Parent[s])
      BY <2>2, ChainParent, TowerAssumption
    <3>2. CASE b = s
      BY <3>2
    <3>3. CASE b # s
      <4>1. b \in Chain(Parent[s]) /\ b <= Parent[s] /\ b \in Slots /\ a \in Slots
        BY <3>1, <3>3, ChainSlots, Zenon
      <4>2. a # s
        <5>1. a \in Nat /\ b \in Nat /\ s \in Nat /\ Parent[s] \in Nat
          BY <3>1, <4>1, Zenon
        <5> QED BY <3>1, <4>1, <5>1
      <4> QED BY <1>1, <2>2, <3>1, <4>1, <4>2
    <3> QED BY <3>2, <3>3
  <2> QED BY <2>1, <2>2
<1>2. P = Slots
  <2> HIDE DEF P
  <2>1. P \in SUBSET Slots
    BY DEF P
  <2> QED BY <1>1, <2>1, ParentInduction
<1> QED BY <1>2

(* The supermajority's slots are ordered by ancestry.                      *)
LEMMA SupermajorityChain ==
    \A s, t \in Supermajority : /\ s \in Slots /\ t \in Slots /\ Chain(s) \subseteq Supermajority
                                /\ s <= t => s \in Chain(t)
<1> SUFFICES ASSUME NEW s \in Supermajority, NEW t \in Supermajority
             PROVE  /\ s \in Slots /\ t \in Slots /\ Chain(s) \subseteq Supermajority
                    /\ s <= t => s \in Chain(t)
  OBVIOUS
<1>1. s \in Slots /\ t \in Slots /\ s \in Nat /\ t \in Nat /\ Chain(s) \subseteq Supermajority
  BY TowerAssumption DEF Chain
<1>2. s = t \/ s \in Above[t] \/ t \in Above[s]
  BY TowerAssumption
<1>3. t \in Above[s] => t < s
  BY <1>1, AboveBelow
<1> QED BY <1>1, <1>2, <1>3 DEF Chain

-----------------------------------------------------------------------------
(* Votes.                                                                  *)

(* The votes that stay are the oldest ones.                                *)
LEMMA PopTypes ==
    ASSUME NEW votes \in Seq(Vote), NEW s
    PROVE  pop_expired_votes(votes, s) \in Seq(Vote)
<1> DEFINE S == {0} \cup {i \in DOMAIN votes : last_locked_out_slot(votes[i]) >= s}
<1>1. Len(votes) \in Nat /\ DOMAIN votes = 1..Len(votes) /\ \A i \in 1..Len(votes) : votes[i] \in Vote
  BY LenProperties, ElementOfSeq
<1>2. S \in SUBSET (0..Len(votes)) /\ S # {}
  BY <1>1
<1> HIDE DEF S
<1>3. Max(S) \in 0..Len(votes)
  BY <1>1, <1>2, MaxBounded, Zenon
<1>4. SubSeq(votes, 1, Max(S)) \in Seq(Vote)
  BY <1>1, <1>3, SubSeqProperties
<1> QED BY <1>4 DEF pop_expired_votes, S

(* double_lockouts changes no slot.                                        *)
LEMMA DoubleKeepsSlots ==
    ASSUME NEW votes \in Seq(Vote)
    PROVE  /\ double_lockouts(votes) \in Seq(Vote)
           /\ Len(double_lockouts(votes)) = Len(votes)
           /\ \A i \in 1..Len(votes) : double_lockouts(votes)[i].slot = votes[i].slot
<1>1. Len(votes) \in Nat /\ DOMAIN votes = 1..Len(votes) /\ \A i \in 1..Len(votes) : votes[i] \in Vote
  BY LenProperties, ElementOfSeq
<1> DEFINE f == double_lockouts(votes)
<1>2. ASSUME NEW i \in 1..Len(votes)
      PROVE  f[i] \in Vote /\ f[i].slot = votes[i].slot
  BY <1>1, SMTT(60) DEF double_lockouts, Vote
<1>3. f \in [1..Len(votes) -> Vote]
  BY <1>1, <1>2 DEF double_lockouts
<1> QED BY <1>1, <1>2, <1>3, FunctionIsSeq

(* A vote for a newer slot ends up as the last vote of the tower.          *)
LEMMA NextVote ==
    ASSUME NEW t \in TowerType, NEW s \in Slots, last_voted_slot(t.votes) < s
    PROVE  LET after == process_next_vote_slot(t, s)
           IN /\ after \in TowerType
              /\ after.votes # <<>> /\ after.votes[Len(after.votes)].slot = s
<1> DEFINE kept == pop_expired_votes(t.votes, s)
           full == Len(kept) = MAX_LOCKOUT_HISTORY
           rest == IF full THEN Tail(kept) ELSE kept
           pushed == Append(rest, Lockout(s))
           votes == double_lockouts(pushed)
           after == process_next_vote_slot(t, s)
<1>1. kept \in Seq(Vote)
  BY PopTypes DEF TowerType
<1>2. full => kept # <<>>
  <2>1. Len(<<>>) = 0 /\ MAX_LOCKOUT_HISTORY # 0
    BY EmptySeq, TowerAssumption
  <2> QED BY <2>1
<1>3. rest \in Seq(Vote)
  BY <1>1, <1>2, HeadTailProperties
<1>4. full => kept[1].slot \in Int
  <2>1. full => 1 \in 1..Len(kept)
    BY <1>1, <1>2, EmptySeq
  <2>2. full => kept[1] \in Vote
    BY <1>1, <2>1, ElementOfSeq
  <2> QED BY <2>2, VoteSlot
<1>5. Lockout(s) \in Vote
  BY DEF Lockout, Vote
<1> HIDE DEF kept, rest
<1>6. pushed \in Seq(Vote) /\ Len(pushed) = Len(rest) + 1 /\ pushed[Len(rest) + 1] = Lockout(s)
  BY <1>3, <1>5, AppendProperties
<1>7. Len(rest) \in Nat
  BY <1>3, LenProperties
<1> HIDE DEF pushed
<1>8. votes \in Seq(Vote) /\ Len(votes) = Len(rest) + 1 /\ votes[Len(rest) + 1].slot = s
  BY <1>6, <1>7, DoubleKeepsSlots DEF Lockout
<1>9. votes # <<>>
  BY <1>7, <1>8, EmptySeq
<1>10. ~(s <= last_voted_slot(t.votes))
  <2>1. last_voted_slot(t.votes) \in Int
    <3>1. t.votes \in Seq(Vote)
      BY DEF TowerType
    <3>2. CASE t.votes = <<>>
      BY <3>2 DEF last_voted_slot, None
    <3>3. CASE t.votes # <<>>
      <4>1. Len(t.votes) \in 1..Len(t.votes)
        BY <3>1, <3>3, EmptySeq
      <4>2. t.votes[Len(t.votes)] \in Vote
        BY <3>1, <4>1, ElementOfSeq
      <4> QED BY <3>3, <4>2, VoteSlot DEF last_voted_slot
    <3> QED BY <3>2, <3>3
  <2> QED BY <2>1, TowerAssumption
<1>11. after = [t EXCEPT !.votes = votes, !.root_slot = IF full THEN kept[1].slot ELSE @]
  BY <1>10 DEF process_next_vote_slot, votes, pushed, rest, kept
<1> HIDE DEF votes, after
<1>12. after \in TowerType /\ after.votes = votes
  BY <1>4, <1>8, <1>11, Zenon DEF TowerType
<1>13. after.votes # <<>> /\ after.votes[Len(after.votes)].slot = s
  BY <1>8, <1>9, <1>12
<1> QED BY <1>12, <1>13 DEF after

(* After a restart the tower keeps its last vote, or has no vote left and  *)
(* the last one is not above the history it is compared with.              *)
LEMMA AdjustKeepsLast ==
    ASSUME NEW t \in TowerType, t.votes # <<>>, Last_Is(t),
           NEW top \in Nat, NEW history \in SUBSET (0..top), history # {}
    PROVE  LET a == adjust_lockouts_with_slot_history(t, history).tower
           IN /\ a \in TowerType /\ Last_Is(a) /\ a.root_slot = t.root_slot /\ a.signed = t.signed
              /\ a.votes # <<>> => a.last_vote = t.last_vote
              /\ a.votes = <<>> => a.last_vote = None /\ t.last_vote <= top
<1> DEFINE n == Len(t.votes)
           voted == [i \in DOMAIN t.votes |-> t.votes[i].slot]
           slots == <<t.root_slot>> \o voted
           found == {i \in DOMAIN slots : Check(history, slots[i]) = "Found"}
           votes == SubSeq(t.votes, Max(found), Len(t.votes))
           ok == Consistent(slots, found, history)
           a == adjust_lockouts_with_slot_history(t, history).tower
<1>1. /\ t.votes \in Seq(Vote) /\ n \in Nat \ {0} /\ DOMAIN t.votes = 1..n
      /\ \A i \in 1..n : t.votes[i] \in Vote
  BY EmptySeq, LenProperties, ElementOfSeq DEF TowerType
<1>2. voted \in Seq(Int) /\ Len(voted) = n
  <2>1. \A i \in 1..n : t.votes[i].slot \in Int
    BY <1>1, VoteSlot
  <2>2. voted \in [1..n -> Int]
    BY <1>1, <2>1
  <2> QED BY <1>1, <2>2, FunctionIsSeq
<1>3. <<t.root_slot>> \in Seq(Int) /\ Len(<<t.root_slot>>) = 1
  BY DEF TowerType
<1>4. /\ slots \in Seq(Int) /\ Len(slots) = n + 1 /\ DOMAIN slots = 1..(n + 1)
      /\ slots[n + 1] = t.votes[n].slot
  <2> HIDE DEF voted
  <2>1. slots \in Seq(Int) /\ Len(slots) = 1 + n /\ slots[1 + n] = voted[n]
    BY <1>1, <1>2, <1>3, ConcatProperties
  <2>2. DOMAIN slots = 1..Len(slots)
    BY <2>1, LenProperties
  <2>3. voted[n] = t.votes[n].slot
    BY <1>1 DEF voted
  <2> QED BY <1>1, <2>1, <2>2, <2>3
<1>5. t.last_vote = t.votes[n].slot
  BY DEF Last_Is
<1> HIDE DEF slots, n
<1>6. ok => Max(found) \in 1..(n + 1) /\ Max(found) \in found
  <2>1. ok => found # {}
    BY DEF Consistent
  <2>2. found \in SUBSET (0..(n + 1)) /\ n + 1 \in Nat
    BY <1>1, <1>4
  <2>3. \A i \in found : i \in 1..(n + 1)
    BY <1>4
  <2> HIDE DEF found, ok
  <2> QED BY <2>1, <2>2, <2>3, MaxBounded, Zenon
<1>7. ok => /\ votes \in Seq(Vote)
            /\ Max(found) <= n => votes # <<>> /\ votes[Len(votes)] = t.votes[n]
            /\ ~(Max(found) <= n) => votes = <<>> /\ Max(found) = n + 1
  <2> HIDE DEF found, ok
  <2> SUFFICES ASSUME ok, NEW m, m = Max(found)
               PROVE  /\ SubSeq(t.votes, m, n) \in Seq(Vote)
                      /\ m <= n => /\ SubSeq(t.votes, m, n) # <<>>
                                   /\ SubSeq(t.votes, m, n)[Len(SubSeq(t.votes, m, n))] = t.votes[n]
                      /\ ~(m <= n) => SubSeq(t.votes, m, n) = <<>> /\ m = n + 1
    BY Zenon DEF n
  <2>1. m \in 1..(n + 1) /\ n \in Nat \ {0}
    BY <1>1, <1>6
  <2>2. \A i \in m..n : t.votes[i] \in Vote
    BY <1>1, <2>1
  <2>3. /\ SubSeq(t.votes, m, n) \in Seq(Vote)
        /\ Len(SubSeq(t.votes, m, n)) = IF m <= n THEN n - m + 1 ELSE 0
        /\ \A i \in 1..(n - m + 1) : SubSeq(t.votes, m, n)[i] = t.votes[m + i - 1]
    BY <2>1, <2>2, SubSeqProperties
  <2>4. ASSUME m <= n
        PROVE  /\ SubSeq(t.votes, m, n) # <<>>
               /\ SubSeq(t.votes, m, n)[Len(SubSeq(t.votes, m, n))] = t.votes[n]
    <3>1. n - m + 1 \in 1..(n - m + 1) /\ m + (n - m + 1) - 1 = n /\ n - m + 1 # 0
      BY <2>1, <2>4
    <3>2. Len(SubSeq(t.votes, m, n)) = n - m + 1
      BY <2>3, <2>4
    <3>3. SubSeq(t.votes, m, n)[n - m + 1] = t.votes[n]
      BY <2>3, <3>1, Zenon
    <3> QED BY <3>1, <3>2, <3>3, EmptySeq, Zenon
  <2>5. ASSUME ~(m <= n) PROVE SubSeq(t.votes, m, n) = <<>> /\ m = n + 1
    BY <2>1, <2>5, SubSeqEmpty
  <2> QED BY <2>3, <2>4, <2>5, Zenon
<1>8. ok /\ ~(Max(found) <= n) => t.last_vote <= top
  <2> SUFFICES ASSUME ok, ~(Max(found) <= n) PROVE t.votes[n].slot <= top
    BY <1>5
  <2>1. Check(history, t.votes[n].slot) = "Found"
    <3>1. n + 1 \in found
      BY <1>6, <1>7
    <3> QED BY <1>4, <3>1
  <2>2. Max(history) \in 0..top
    BY MaxBounded, Zenon
  <2>3. ~(t.votes[n].slot > Max(history))
    BY <2>1 DEF Check
  <2>4. t.votes[n].slot \in Nat
    BY <1>1, VoteSlot
  <2> QED BY <2>2, <2>3, <2>4
<1> HIDE DEF found, votes, ok
<1>9. a = IF ~ok THEN t
          ELSE IF votes = <<>> THEN [t EXCEPT !.votes = <<>>, !.last_vote = None]
          ELSE [t EXCEPT !.votes = votes, !.stray = t.last_vote]
  BY Zenon DEF adjust_lockouts_with_slot_history, found, votes, ok, slots
<1> HIDE DEF a
<1>10. CASE ~ok
  BY <1>9, <1>10 DEF a
<1>11. CASE ok /\ votes = <<>>
  <2>1. a = [t EXCEPT !.votes = <<>>, !.last_vote = None]
    BY <1>9, <1>11
  <2>2. /\ a \in TowerType /\ a.votes = <<>> /\ a.last_vote = None /\ a.root_slot = t.root_slot
        /\ a.signed = t.signed
    <3>1. <<>> \in Seq(Vote) /\ None \in Int
      BY EmptySeq DEF None
    <3> QED BY <2>1, <3>1, Zenon DEF TowerType
  <2>3. t.last_vote <= top
    BY <1>7, <1>8, <1>11
  <2> QED BY <2>2, <2>3 DEF Last_Is, a
<1>12. CASE ok /\ votes # <<>>
  <2>1. a = [t EXCEPT !.votes = votes, !.stray = t.last_vote]
    BY <1>9, <1>12
  <2>2. /\ a \in TowerType /\ a.votes = votes /\ a.last_vote = t.last_vote /\ a.root_slot = t.root_slot
        /\ a.signed = t.signed
    BY <2>1, <1>7, <1>12, Zenon DEF TowerType
  <2>3. Last_Is(a)
    BY <2>2, <1>5, <1>7, <1>12 DEF Last_Is
  <2> QED BY <2>2, <2>3, <1>12 DEF a
<1> QED BY <1>10, <1>11, <1>12 DEF a

-----------------------------------------------------------------------------
(* The invariant, action by action.                                        *)
LEMMA NewTowerType ==
    ASSUME NEW r \in Int
    PROVE  NewTower(r) \in TowerType /\ Last_Is(NewTower(r))
<1>1. <<>> \in Seq(Vote) /\ None \in Int
  BY EmptySeq DEF None
<1> QED BY <1>1 DEF NewTower, TowerType, Last_Is

LEMMA NoOpType == NoTower \in TowerType /\ NoOp \in VoteOpType /\ None \in Int
<1>1. None \in Int
  BY DEF None
<1> QED BY <1>1, NewTowerType DEF NoTower, NoOp, VoteOp, VoteOpType

LEMMA InitSaved == Init => SavedInv
<1> SUFFICES ASSUME Init PROVE SavedInv
  OBVIOUS
<1>1. queue = <<>> /\ Len(queue) = 0 /\ queue \in Seq(VoteOpType)
  BY EmptySeq DEF Init
<1>2. Types
  BY <1>1, NoOpType, NewTowerType, TowerAssumption DEF Init, Types
<1>3. QueueInv
  BY <1>1 DEF QueueInv
<1>4. saved.last_vote = None /\ sending.tower.last_vote = None /\ lastSent = None
  BY DEF Init, NoTower, NewTower, NoOp, VoteOp
<1>5. tower.votes = <<>> /\ tower.last_vote = None /\ tower.root_slot = 0
  BY DEF Init, NewTower
<1>6. TowerInv
  <2>1. saved = NoTower /\ saved.signed
    BY DEF Init, NoTower, NewTower
  <2> QED BY <1>1, <1>4, <1>5, <2>1 DEF TowerInv, Last_Is, Newest, None
<1>7. SentInv
  BY <1>4 DEF SentInv, None
<1> QED BY <1>2, <1>3, <1>6, <1>7 DEF SavedInv

(* Newest is a number.                                                     *)
LEMMA NewestInt ==
    ASSUME Types
    PROVE  Newest \in Int
<1>1. CASE queue = <<>>
  BY <1>1 DEF Types, Newest, TowerType
<1>2. CASE queue # <<>>
  <2>1. Len(queue) \in 1..Len(queue)
    BY <1>2, EmptySeq DEF Types
  <2>2. queue[Len(queue)] \in VoteOpType
    BY <2>1, ElementOfSeq DEF Types
  <2> QED BY <1>2, <2>2 DEF Newest, VoteOpType, TowerType
<1> QED BY <1>1, <1>2

(* A vote that is queued behind the others extends the order.              *)
LEMMA AppendQueue ==
    ASSUME Types, QueueInv,
           NEW op \in VoteOpType, queue' = Append(queue, op), saved' = saved, sending' = sending,
           Newest <= op.tower.last_vote, Signed(op, Newest, NewestSigned),
           op.tower.votes # <<>>, Last_Is(op.tower)
    PROVE  /\ queue' \in Seq(VoteOpType) /\ QueueInv'
           /\ Newest' = op.tower.last_vote /\ NewestSigned' = op.tower.signed
<1>1. /\ queue' \in Seq(VoteOpType) /\ queue' # <<>> /\ Len(queue') = Len(queue) + 1
      /\ \A i \in 1..Len(queue) : queue'[i] = queue[i]
      /\ queue'[Len(queue) + 1] = op
  BY AppendProperties DEF Types
<1>2. Len(queue) \in Nat /\ (queue = <<>> <=> Len(queue) = 0)
  BY LenProperties, EmptySeq DEF Types
<1>3. Newest' = op.tower.last_vote /\ NewestSigned' = op.tower.signed
  BY <1>1 DEF Newest, NewestSigned
<1>4. ASSUME NEW i \in 1..Len(queue)
      PROVE  Before(i)' = Before(i) /\ BeforeSigned(i)' = BeforeSigned(i) /\ queue'[i] = queue[i]
  <2>1. i # 1 => i - 1 \in 1..Len(queue)
    BY <1>2
  <2> QED BY <1>1, <2>1 DEF Before, BeforeSigned
<1>5. ASSUME NEW n \in Nat, n = Len(queue)
      PROVE  Before(n + 1)' = Newest /\ BeforeSigned(n + 1)' = NewestSigned
  <2>1. CASE n = 0
    BY <1>2, <1>5, <2>1 DEF Before, Newest, BeforeSigned, NewestSigned
  <2>2. CASE n # 0
    <3>1. n + 1 # 1 /\ (n + 1) - 1 = n /\ n \in 1..Len(queue)
      BY <1>5, <2>2
    <3>2. /\ Before(n + 1)' = queue'[n].tower.last_vote
          /\ BeforeSigned(n + 1)' = queue'[n].tower.signed
      BY <3>1 DEF Before, BeforeSigned
    <3>3. queue'[n] = queue[n] /\ queue # <<>>
      BY <1>1, <1>2, <1>5, <2>2, <3>1, Zenon
    <3> QED BY <1>5, <3>2, <3>3 DEF Newest, NewestSigned
  <2> QED BY <2>1, <2>2
<1>6. QueueInv'
  <2> SUFFICES ASSUME NEW i \in 1..Len(queue')
               PROVE  (/\ Before(i) <= queue[i].tower.last_vote
                       /\ Signed(queue[i], Before(i), BeforeSigned(i))
                       /\ queue[i].tower.votes # <<>> /\ Last_Is(queue[i].tower))'
    BY Zenon DEF QueueInv
  <2>1. CASE i \in 1..Len(queue)
    BY <1>4, <2>1, Zenon DEF QueueInv, Last_Is, Signed
  <2>2. CASE i = Len(queue) + 1
    <3>1. Before(i)' = Newest /\ BeforeSigned(i)' = NewestSigned
      BY <1>2, <1>5, <2>2
    <3> QED BY <1>1, <2>2, <3>1, Zenon DEF Last_Is, Signed
  <2> QED BY <1>1, <1>2, <2>1, <2>2, SMTT(60)
<1> QED BY <1>1, <1>3, <1>6

(* The banks of BankForks are no part of it, and neither is the ledger.    *)
LEMMA SameSaved ==
    ASSUME SavedInv, ledger' \subseteq Slots, frozen' \subseteq Slots, active' \subseteq Slots,
           UNCHANGED <<saved, tower, queue, sending, lastSent, lastSigned>>
    PROVE  SavedInv'
<1>1. Types'
  BY Zenon DEF SavedInv, Types
<1>2. QueueInv'
  BY DEF SavedInv, QueueInv, Before, BeforeSigned, Last_Is, Signed
<1>3. TowerInv' /\ SentInv'
  BY DEF SavedInv, TowerInv, SentInv, Newest, NewestSigned, Last_Is
<1> QED BY <1>1, <1>2, <1>3 DEF SavedInv

LEMMA BanksSaved ==
    ASSUME SavedInv, NEW s \in Slots,
           \/ generate_new_bank_forks(s) \/ replay_active_banks(s) \/ select_vote_and_reset_forks(s)
    PROVE  SavedInv'
<1>1. ledger \subseteq Slots /\ frozen \subseteq Slots /\ active \subseteq Slots
  BY DEF SavedInv, Types
<1>2. CASE generate_new_bank_forks(s)
  BY <1>1, <1>2, SameSaved DEF generate_new_bank_forks, disk, observed
<1>3. CASE replay_active_banks(s)
  BY <1>1, <1>3, SameSaved DEF replay_active_banks, observed
<1>4. CASE select_vote_and_reset_forks(s)
  BY <1>1, <1>4, SameSaved DEF select_vote_and_reset_forks, disk, memory, observed
<1> QED BY <1>2, <1>3, <1>4

LEMMA VoteSaved ==
    ASSUME SavedInv, NEW s \in Slots, NEW signed \in BOOLEAN, handle_votable_bank(s, signed)
    PROVE  SavedInv'
<1> DEFINE after == process_next_vote_slot(tower, s)
           voted == [after EXCEPT !.last_vote = s, !.signed = signed]
           op == VoteOp(voted, TRUE)
<1>1. Types /\ QueueInv /\ TowerInv /\ SentInv /\ s \in Nat
  BY TowerAssumption DEF SavedInv
<1>2. Newest < s /\ last_voted_slot(tower.votes) < s
  <2>1. is_recent(s)
    BY DEF handle_votable_bank, is_locked_out
  <2>2. tower.root_slot \in Int /\ tower.last_vote \in Int /\ Newest \in Int
    BY <1>1, NewestInt DEF Types, TowerType
  <2>3. CASE tower.votes = <<>>
    <3>1. Newest <= tower.root_slot
      BY <1>1, <2>3 DEF TowerInv
    <3>2. s > tower.root_slot
      BY <2>1, <2>3 DEF is_recent
    <3>3. last_voted_slot(tower.votes) = -1
      BY <2>3 DEF last_voted_slot, None
    <3> QED BY <1>1, <2>2, <3>1, <3>2, <3>3
  <2>4. CASE tower.votes # <<>>
    <3>1. last_voted_slot(tower.votes) = tower.last_vote /\ Newest <= tower.last_vote
      BY <1>1, <2>4 DEF TowerInv, Last_Is, last_voted_slot
    <3>2. s > last_voted_slot(tower.votes)
      BY <2>1, <2>4 DEF is_recent
    <3> QED BY <1>1, <2>2, <3>1, <3>2
  <2> QED BY <2>3, <2>4
<1>3. after \in TowerType /\ after.votes # <<>> /\ after.votes[Len(after.votes)].slot = s
  BY <1>1, <1>2, NextVote DEF Types
<1> HIDE DEF after
<1>4. /\ voted \in TowerType /\ voted.last_vote = s /\ voted.votes # <<>> /\ Last_Is(voted)
      /\ voted.signed = signed
  <2>1. s \in Int
    BY <1>1
  <2>2. /\ voted \in TowerType /\ voted.last_vote = s /\ voted.votes = after.votes
        /\ voted.signed = signed
    BY <1>3, <2>1, Zenon DEF TowerType
  <2> QED BY <1>3, <2>2, Zenon DEF Last_Is
<1>5. tower' = voted /\ queue' = (IF signed THEN Append(queue, op) ELSE queue) /\ saved' = saved
      /\ UNCHANGED <<sending, lastSent, lastSigned>>
  BY Zenon DEF handle_votable_bank, after, observed
<1> HIDE DEF voted
<1>6. op \in VoteOpType /\ op.tower = voted /\ op.push
  BY <1>4 DEF VoteOp, VoteOpType
<1> HIDE DEF op
<1>7. ASSUME signed PROVE queue' \in Seq(VoteOpType) /\ QueueInv' /\ TowerInv'
  <2>1. /\ queue' \in Seq(VoteOpType) /\ QueueInv'
        /\ Newest' = op.tower.last_vote /\ NewestSigned' = op.tower.signed
    <3>1. Newest <= op.tower.last_vote
      BY <1>1, <1>2, <1>4, <1>6, NewestInt
    <3>2. Signed(op, Newest, NewestSigned)
      BY <1>4, <1>6, <1>7, Zenon DEF Signed
    <3> QED BY <1>1, <1>4, <1>5, <1>6, <1>7, <3>1, <3>2, AppendQueue
  <2>2. Newest' = s /\ NewestSigned'
    BY <1>4, <1>6, <1>7, <2>1
  <2>3. TowerInv'
    BY <1>1, <1>4, <1>5, <2>2 DEF TowerInv, Last_Is
  <2> QED BY <2>1, <2>3
<1>8. ASSUME ~signed PROVE queue' \in Seq(VoteOpType) /\ QueueInv' /\ TowerInv'
  <2>1. queue' = queue /\ queue' \in Seq(VoteOpType)
    BY <1>1, <1>5, <1>8 DEF Types
  <2>2. QueueInv'
    BY <1>1, <1>5, <2>1, Zenon DEF QueueInv, Before, BeforeSigned, Last_Is, Signed
  <2>3. Newest' = Newest
    BY <1>5, <2>1 DEF Newest
  <2>4. Newest <= s
    BY <1>1, <1>2, NewestInt
  <2>5. TowerInv'
    BY <1>1, <1>4, <1>5, <1>8, <2>3, <2>4 DEF TowerInv, Last_Is
  <2> QED BY <2>1, <2>2, <2>5
<1>9. queue' \in Seq(VoteOpType) /\ QueueInv' /\ TowerInv'
  BY <1>7, <1>8, Zenon
<1>10. Types'
  <2>1. frozen' \subseteq Slots /\ ledger' \subseteq Slots /\ active' \subseteq Slots
    BY <1>1 DEF Types, handle_votable_bank
  <2> QED BY <1>1, <1>4, <1>5, <1>9, <2>1, Zenon DEF Types
<1>11. SentInv'
  BY <1>1, <1>5 DEF SentInv
<1> QED BY <1>9, <1>10, <1>11 DEF SavedInv

LEMMA RefreshSaved ==
    ASSUME SavedInv, NEW h \in Slots, refresh_last_vote(h)
    PROVE  SavedInv'
<1> DEFINE op == VoteOp(tower, FALSE)
<1>1. Types /\ QueueInv /\ TowerInv /\ SentInv
  BY DEF SavedInv
<1>2. tower.votes # <<>>
  <2>1. tower.last_vote \in Slots
    BY <1>1 DEF Types, refresh_last_vote
  <2>2. tower.last_vote # None
    BY <2>1, TowerAssumption DEF None
  <2> QED BY <1>1, <2>2 DEF TowerInv
<1>3. /\ queue' = Append(queue, op)
      /\ UNCHANGED <<saved, tower, sending, lastSent, lastSigned, ledger, frozen, active>>
  BY DEF refresh_last_vote, disk, memory, observed
<1>4. op \in VoteOpType /\ op.tower = tower /\ ~op.push
  BY <1>1 DEF VoteOp, VoteOpType, Types
<1> HIDE DEF op
<1>5. /\ queue' \in Seq(VoteOpType) /\ QueueInv'
      /\ Newest' = tower.last_vote /\ NewestSigned' = tower.signed
  <2>1. Newest <= op.tower.last_vote
    BY <1>1, <1>2, <1>4 DEF TowerInv
  <2>2. Last_Is(op.tower) /\ op.tower.votes # <<>> /\ Signed(op, Newest, NewestSigned)
    BY <1>1, <1>2, <1>4, Zenon DEF TowerInv, Signed
  <2>3. /\ queue' \in Seq(VoteOpType) /\ QueueInv'
        /\ Newest' = op.tower.last_vote /\ NewestSigned' = op.tower.signed
    BY <1>1, <1>3, <1>4, <2>1, <2>2, AppendQueue
  <2> QED BY <1>4, <2>3
<1>6. Types'
  BY <1>1, <1>3, <1>5, Zenon DEF Types
<1>7. TowerInv'
  <2>1. tower.last_vote <= tower.last_vote
    BY <1>1 DEF Types, TowerType
  <2> QED BY <1>1, <1>2, <1>3, <1>5, <2>1, Zenon DEF TowerInv, Last_Is
<1>8. SentInv'
  BY <1>1, <1>3 DEF SentInv
<1> QED BY <1>5, <1>6, <1>7, <1>8 DEF SavedInv

(* Storing the head of the queue: a pushed tower becomes the saved one; a  *)
(* refreshed vote is the saved one's already if it was signed.             *)
LEMMA StoreSaved ==
    ASSUME SavedInv, store
    PROVE  SavedInv'
<1>1. Types /\ QueueInv /\ TowerInv /\ SentInv
  BY DEF SavedInv
<1>2. PICK op : op = queue[1]
  OBVIOUS
<1>3. /\ queue # <<>> /\ Len(queue) \in Nat /\ 1 \in 1..Len(queue)
      /\ queue \in Seq(VoteOpType)
  BY <1>1, EmptySeq DEF store, Types
<1>4. /\ op \in VoteOpType /\ op.tower \in TowerType /\ op.push \in BOOLEAN
      /\ saved.last_vote <= op.tower.last_vote
      /\ op.push => op.tower.signed
      /\ ~op.push /\ op.tower.signed => op.tower.last_vote = saved.last_vote
      /\ op.tower.votes # <<>> /\ Last_Is(op.tower)
  <2>1. op \in VoteOpType
    BY <1>2, <1>3, ElementOfSeq
  <2>2. Before(1) = saved.last_vote
    BY DEF Before
  <2> QED BY <1>1, <1>2, <1>3, <2>1, <2>2 DEF QueueInv, VoteOpType, Signed
<1>5. /\ saved' \in TowerType /\ saved'.signed
      /\ saved.last_vote <= saved'.last_vote /\ saved'.last_vote <= op.tower.last_vote
      /\ op.tower.signed => saved'.last_vote = op.tower.last_vote
      /\ saved' = NoTower \/ (saved'.votes # <<>> /\ Last_Is(saved'))
  <2>1. CASE op.push
    <3>1. saved' = [op.tower EXCEPT !.stray = None]
      BY <1>2, <2>1 DEF store
    <3>2. /\ saved' \in TowerType /\ saved'.votes = op.tower.votes
          /\ saved'.last_vote = op.tower.last_vote /\ saved'.signed = op.tower.signed
      BY <1>4, <3>1 DEF TowerType, None
    <3>3. op.tower.last_vote <= op.tower.last_vote
      BY <1>4 DEF TowerType
    <3> QED BY <1>4, <2>1, <3>2, <3>3, Zenon DEF Last_Is
  <2>2. CASE ~op.push
    <3>1. saved' = saved
      BY <1>2, <2>2 DEF store
    <3>2. saved.last_vote <= saved.last_vote
      BY <1>1 DEF Types, TowerType
    <3> QED BY <1>1, <1>4, <2>2, <3>1, <3>2, Zenon DEF Types, TowerInv
  <2> QED BY <2>1, <2>2
<1>6. /\ queue' \in Seq(VoteOpType) /\ Len(queue') = Len(queue) - 1
      /\ \A i \in 1..Len(queue') : queue'[i] = queue[i + 1]
      /\ sending' = op
  BY <1>2, <1>3, HeadTailProperties DEF store
<1>7. ASSUME NEW i \in 1..Len(queue')
      PROVE  /\ i + 1 \in 1..Len(queue) /\ BeforeSigned(i)' = BeforeSigned(i + 1)
             /\ Before(i)' <= Before(i + 1)
             /\ BeforeSigned(i + 1) => Before(i)' = Before(i + 1)
  <2>1. i \in Nat /\ i + 1 \in 1..Len(queue) /\ i + 1 # 1 /\ (i + 1) - 1 = i /\ i \in 1..Len(queue)
    BY <1>3, <1>6
  <2>2. Before(i + 1) = queue[i].tower.last_vote /\ BeforeSigned(i + 1) = queue[i].tower.signed
    BY <2>1 DEF Before, BeforeSigned
  <2>3. CASE i = 1
    <3>1. Before(i)' = saved'.last_vote /\ BeforeSigned(i)' = op.tower.signed
      BY <1>6, <2>3 DEF Before, BeforeSigned
    <3> QED BY <1>2, <1>5, <2>1, <2>2, <2>3, <3>1, Zenon
  <2>4. CASE i # 1
    <3>1. i - 1 \in 1..Len(queue') /\ (i - 1) + 1 = i
      BY <1>3, <1>6, <2>4
    <3>2. queue'[i - 1] = queue[i]
      BY <1>6, <3>1
    <3>3. Before(i)' = queue'[i - 1].tower.last_vote /\ BeforeSigned(i)' = queue'[i - 1].tower.signed
      BY <2>4, Zenon DEF Before, BeforeSigned
    <3>4. queue[i] \in VoteOpType
      BY <1>3, <2>1, ElementOfSeq, Zenon
    <3>5. queue[i].tower.last_vote <= queue[i].tower.last_vote
      BY <3>4 DEF VoteOpType, TowerType
    <3> QED BY <2>1, <2>2, <3>2, <3>3, <3>5
  <2> QED BY <2>3, <2>4
<1>8. QueueInv'
  <2> SUFFICES ASSUME NEW i \in 1..Len(queue')
               PROVE  (/\ Before(i) <= queue[i].tower.last_vote
                       /\ Signed(queue[i], Before(i), BeforeSigned(i))
                       /\ queue[i].tower.votes # <<>> /\ Last_Is(queue[i].tower))'
    BY DEF QueueInv
  <2>1. /\ queue'[i] = queue[i + 1] /\ i + 1 \in 1..Len(queue) /\ BeforeSigned(i)' = BeforeSigned(i + 1)
        /\ Before(i)' <= Before(i + 1)
        /\ BeforeSigned(i + 1) => Before(i)' = Before(i + 1)
    BY <1>6, <1>7
  <2>2. /\ Before(i + 1) <= queue[i + 1].tower.last_vote
        /\ Signed(queue[i + 1], Before(i + 1), BeforeSigned(i + 1))
        /\ queue[i + 1].tower.votes # <<>> /\ Last_Is(queue[i + 1].tower)
    BY <1>1, <2>1, Zenon DEF QueueInv
  <2>3. Signed(queue[i + 1], Before(i)', BeforeSigned(i)')
    BY <2>1, <2>2, Zenon DEF Signed
  <2>4. Before(i)' \in Int /\ Before(i + 1) \in Int /\ queue[i + 1].tower.last_vote \in Int
    <3> \A o \in VoteOpType : o.tower.last_vote \in Int
      BY DEF VoteOpType, TowerType
    <3>1. \A j \in 1..Len(queue) : queue[j].tower.last_vote \in Int
      BY <1>3, ElementOfSeq, Zenon
    <3>2. \A j \in 1..Len(queue') : queue'[j].tower.last_vote \in Int
      BY <1>6, ElementOfSeq, Zenon
    <3>3. saved'.last_vote \in Int /\ saved.last_vote \in Int
      BY <1>1, <1>5, Zenon DEF Types, TowerType
    <3>4. /\ i # 1 => i - 1 \in 1..Len(queue')
          /\ i + 1 # 1 /\ (i + 1) - 1 \in 1..Len(queue)
      BY <1>3, <1>6
    <3>5. Before(i)' \in Int
      BY <3>2, <3>3, <3>4, Zenon DEF Before
    <3>6. Before(i + 1) \in Int
      BY <3>1, <3>4, Zenon DEF Before
    <3> QED BY <2>1, <3>1, <3>5, <3>6, Zenon
  <2>5. Before(i)' <= queue[i + 1].tower.last_vote
    BY <2>1, <2>2, <2>4
  <2>6. Last_Is(queue[i].tower)'
    BY <2>1, <2>2, Zenon DEF Last_Is
  <2>7. Signed(queue[i], Before(i), BeforeSigned(i))'
    BY <2>1, <2>3, Zenon DEF Signed
  <2> QED BY <2>1, <2>2, <2>5, <2>6, <2>7, Zenon
<1>9. /\ Newest' \in Int /\ Newest' <= Newest /\ NewestSigned' = NewestSigned
      /\ NewestSigned => Newest' = Newest
  <2>1. Newest = queue[Len(queue)].tower.last_vote /\ NewestSigned = queue[Len(queue)].tower.signed
    BY <1>3 DEF Newest, NewestSigned
  <2>2. CASE queue' = <<>>
    <3>1. Len(queue) = 1
      BY <1>3, <1>6, <2>2, EmptySeq
    <3>2. Newest' = saved'.last_vote /\ NewestSigned' = op.tower.signed
      BY <1>6, <2>2 DEF Newest, NewestSigned
    <3>3. saved'.last_vote \in Int
      BY <1>5, Zenon DEF TowerType
    <3> QED BY <1>2, <1>5, <2>1, <3>1, <3>2, <3>3, Zenon
  <2>3. CASE queue' # <<>>
    <3>1. Len(queue') \in 1..Len(queue') /\ Len(queue') + 1 = Len(queue)
      BY <1>3, <1>6, <2>3, EmptySeq
    <3>2. queue'[Len(queue')] = queue[Len(queue)]
      BY <1>6, <3>1
    <3>3. Newest \in Int
      BY <1>1, NewestInt, Zenon
    <3>4. Newest <= Newest
      BY <3>3
    <3> QED BY <2>1, <2>3, <3>2, <3>3, <3>4, Zenon DEF Newest, NewestSigned
  <2> QED BY <2>2, <2>3
<1>10. Types'
  BY <1>1, <1>2, <1>4, <1>5, <1>6, Zenon DEF Types, store, memory, observed
<1>11. TowerInv'
  <2>1. tower' = tower
    BY DEF store, memory
  <2>2. Newest \in Int /\ Newest' \in Int /\ tower.last_vote \in Int /\ tower.root_slot \in Int
    BY <1>1, <1>9, NewestInt, Zenon DEF Types, TowerType
  <2>3. /\ tower.votes # <<>> => Newest' <= tower.last_vote
        /\ tower.votes = <<>> => Newest' <= tower.root_slot
    BY <1>1, <1>9, <2>2 DEF TowerInv
  <2> QED BY <1>1, <1>5, <1>9, <2>1, <2>3, Zenon DEF TowerInv, Last_Is
<1>12. SentInv'
  <2>1. sending' = op /\ lastSent' = lastSent /\ lastSigned' = lastSigned
    BY <1>2 DEF store, observed
  <2>2. saved.last_vote \in Int /\ saved'.last_vote \in Int /\ lastSent \in Int /\ op.tower.last_vote \in Int
    BY <1>1, <1>4, <1>5, Zenon DEF Types, TowerType
  <2>3. lastSigned => lastSent <= saved'.last_vote
    BY <1>1, <1>5, <2>2 DEF SentInv
  <2> QED BY <1>5, <2>1, <2>2, <2>3 DEF SentInv
<1> QED BY <1>8, <1>10, <1>11, <1>12 DEF SavedInv

(* Before the first vote is stored the file has none; then it has a slot.  *)
LEMMA SavedLast ==
    ASSUME Types, TowerInv
    PROVE  saved.last_vote \in Int /\ -1 <= saved.last_vote
<1>1. CASE saved = NoTower
  BY <1>1 DEF NoTower, NewTower, None
<1>2. CASE saved # NoTower
  <2>1. saved.votes \in Seq(Vote) /\ saved.votes # <<>>
    BY <1>2 DEF Types, TowerType, TowerInv
  <2>2. Len(saved.votes) \in 1..Len(saved.votes)
    BY <2>1, EmptySeq
  <2>3. saved.votes[Len(saved.votes)] \in Vote
    BY <2>1, <2>2, ElementOfSeq
  <2>4. saved.last_vote \in Nat
    BY <1>2, <2>1, <2>3, VoteSlot DEF TowerInv, Last_Is
  <2> QED BY <2>4
<1> QED BY <1>1, <1>2

LEMMA SendSaved ==
    ASSUME SavedInv, send_transaction
    PROVE  SavedInv'
<1>1. Types /\ QueueInv /\ TowerInv /\ SentInv
  BY DEF SavedInv
<1>2. /\ UNCHANGED <<saved, tower, queue, ledger, frozen, active>>
      /\ sending' = NoOp /\ lastSent' = sending.tower.last_vote /\ lastSigned' = sending.tower.signed
  BY DEF send_transaction, disk, memory
<1>3. Types'
  BY <1>1, <1>2, NoOpType, Zenon DEF Types, VoteOpType, TowerType
<1>4. sending'.tower.last_vote = -1 /\ sending'.tower.signed
  BY <1>2 DEF NoOp, VoteOp, NoTower, NewTower, None
<1>5. QueueInv'
  <2> SUFFICES ASSUME NEW i \in 1..Len(queue)
               PROVE  (/\ Before(i) <= queue[i].tower.last_vote
                       /\ Signed(queue[i], Before(i), BeforeSigned(i))
                       /\ queue[i].tower.votes # <<>> /\ Last_Is(queue[i].tower))'
    BY <1>2, Zenon DEF QueueInv
  <2>1. Before(i)' = Before(i) /\ (BeforeSigned(i) => BeforeSigned(i)')
    BY <1>2, <1>4, Zenon DEF Before, BeforeSigned
  <2> QED BY <1>1, <1>2, <2>1, Zenon DEF QueueInv, Signed, Last_Is
<1>6. TowerInv'
  <2>1. Newest' = Newest /\ (NewestSigned => NewestSigned')
    BY <1>2, <1>4, Zenon DEF Newest, NewestSigned
  <2> QED BY <1>1, <1>2, <2>1, Zenon DEF TowerInv, Last_Is
<1>7. SentInv'
  <2>1. -1 <= saved.last_vote
    BY <1>1, SavedLast
  <2> QED BY <1>1, <1>2, <1>4, <2>1 DEF SentInv
<1> QED BY <1>3, <1>5, <1>6, <1>7 DEF SavedInv

(* The replayed root is a slot of the ledger's chains.                     *)
LEMMA ReplayedRootSlot ==
    ASSUME NEW kept \in Slots, NEW own \in Slots, own <= kept,
           NEW blocks \in SUBSET Slots, \A b \in blocks : b <= kept
    PROVE  /\ ReplayedRoot(blocks, own) \in Slots
           /\ ReplayedRoot(blocks, own) = own \/ ReplayedRoot(blocks, own) \in Supermajority
<1> DEFINE S == {own} \cup {ClusterRoot[b] : b \in {c \in blocks : own \in Above[c]}}
<1>1. Slots \subseteq Nat /\ \A s \in Slots : Above[s] \subseteq {t \in Slots : t < s}
  BY TowerAssumption, AboveBelow
<1>2. ASSUME NEW b \in blocks, own \in Above[b]
      PROVE  ClusterRoot[b] \in Slots /\ ClusterRoot[b] <= kept
  <2>1. b \in Slots /\ b <= kept /\ own < b /\ own \in Nat /\ b \in Nat /\ kept \in Nat
    BY <1>1, <1>2
  <2>2. b # 0
    BY <2>1
  <2>3. ClusterRoot[b] \in Above[b]
    BY <2>1, <2>2, TowerAssumption
  <2>4. ClusterRoot[b] \in Slots /\ ClusterRoot[b] < b
    BY <1>1, <2>1, <2>3
  <2>5. ClusterRoot[b] \in Nat
    BY <1>1, <2>4, Zenon
  <2> QED BY <2>1, <2>4, <2>5
<1>3. S \subseteq Slots /\ \A x \in S : x <= kept /\ (x = own \/ x \in Supermajority)
  <2>1. \A b \in blocks : ClusterRoot[b] \in Supermajority
    BY TowerAssumption
  <2> QED BY <1>2, <2>1
<1>4. S \in SUBSET (0..kept) /\ S # {} /\ kept \in Nat
  <2>1. kept \in Nat
    BY <1>1
  <2> HIDE DEF S
  <2>2. \A x \in S : x \in 0..kept
    BY <1>1, <1>3, <2>1
  <2> QED BY <2>1, <2>2, Zenon DEF S
<1> HIDE DEF S
<1>5. Max(S) \in S
  BY <1>4, MaxBounded, Zenon
<1> QED BY <1>3, <1>5 DEF ReplayedRoot, S

(* What adjust_lockouts_after_replay makes of a saved tower.               *)
LEMMA AdjustAfterReplay ==
    ASSUME NEW t \in TowerType, t.votes # <<>>, Last_Is(t), NEW replayed \in Slots
    PROVE  LET a == adjust_lockouts_after_replay(t, replayed).tower
           IN /\ a \in TowerType /\ Last_Is(a) /\ a.signed = t.signed
              /\ a.votes # <<>> => a.last_vote = t.last_vote
              /\ a.votes = <<>> => a.last_vote = None /\ t.last_vote <= a.root_slot
<1> DEFINE history == {replayed} \cup Above[replayed]
           a == adjust_lockouts_after_replay(t, replayed).tower
<1>1. /\ replayed \in Nat /\ t.root_slot \in Int
      /\ history \in SUBSET (0..replayed) /\ history # {}
  <2>1. Slots \subseteq Nat /\ Above[replayed] \subseteq {s \in Slots : s < replayed}
    BY TowerAssumption, AboveBelow
  <2>2. ASSUME NEW x \in Above[replayed] PROVE x \in 0..replayed
    <3>1. x \in Nat /\ replayed \in Nat /\ x < replayed
      BY <2>1, Zenon
    <3> QED BY <3>1
  <2> QED BY <2>1, <2>2 DEF TowerType
<1> HIDE DEF history
<1>2. CASE t.root_slot <= replayed
  <2> DEFINE b == adjust_lockouts_with_slot_history(t, history).tower
  <2>1. /\ b \in TowerType /\ Last_Is(b) /\ b.signed = t.signed
        /\ b.votes # <<>> => b.last_vote = t.last_vote
        /\ b.votes = <<>> => b.last_vote = None /\ t.last_vote <= replayed
    BY <1>1, AdjustKeepsLast
  <2>2. a = [b EXCEPT !.root_slot = replayed]
    BY <1>2 DEF adjust_lockouts_after_replay, history
  <2> HIDE DEF b, a
  <2>3. /\ a \in TowerType /\ a.votes = b.votes /\ a.last_vote = b.last_vote
        /\ a.root_slot = replayed /\ a.signed = b.signed
    BY <1>1, <2>1, <2>2, SMTT(60) DEF TowerType
  <2>4. Last_Is(a)
    BY <2>1, <2>3, Zenon DEF Last_Is
  <2> QED BY <2>1, <2>3, <2>4 DEF a
<1>3. CASE ~(t.root_slot <= replayed)
  <2> DEFINE above == history \cup {t.root_slot}
             b == adjust_lockouts_with_slot_history(t, above)
  <2>1. t.root_slot \in Nat /\ above \in SUBSET (0..t.root_slot) /\ above # {}
    <3>1. t.root_slot \in Nat /\ replayed < t.root_slot
      BY <1>1, <1>3
    <3>2. ASSUME NEW x \in history PROVE x \in 0..t.root_slot
      <4>1. x \in 0..replayed
        BY <1>1
      <4> QED BY <1>1, <3>1, <4>1
    <3>3. t.root_slot \in 0..t.root_slot
      BY <3>1, SMTT(60)
    <3> QED BY <3>1, <3>2, <3>3
  <2> HIDE DEF above
  <2>2. /\ b.tower \in TowerType /\ Last_Is(b.tower) /\ b.tower.root_slot = t.root_slot
        /\ b.tower.signed = t.signed
        /\ b.tower.votes # <<>> => b.tower.last_vote = t.last_vote
        /\ b.tower.votes = <<>> => b.tower.last_vote = None /\ t.last_vote <= t.root_slot
    BY <2>1, AdjustKeepsLast
  <2>3. a = b.tower
    BY <1>3, Zenon DEF adjust_lockouts_after_replay, adjust_lockouts_with_slot_history, history, above
  <2> HIDE DEF b, a
  <2> QED BY <2>2, <2>3 DEF a
<1> QED BY <1>2, <1>3

LEMMA RestartSaved ==
    ASSUME SavedInv, NEW kept \in ledger, NEW keptRoot \in roots, restart(kept, keptRoot)
    PROVE  SavedInv'
<1> DEFINE blocks == {s \in ledger : s <= kept}
           own == Max({r \in roots : r <= keptRoot})
           replayed == ReplayedRoot(blocks, own)
<1>1. Types /\ TowerInv /\ SentInv
  BY DEF SavedInv
<1>2. replayed \in Slots
  <2>1. own \in blocks /\ kept \in Slots /\ blocks \in SUBSET Slots /\ \A b \in blocks : b <= kept
    BY <1>1, Zenon DEF restart, Types
  <2> HIDE DEF own, blocks
  <2> QED BY <2>1, ReplayedRootSlot, Zenon
<1>3. /\ ledger' = blocks /\ frozen' \subseteq blocks /\ active' = {}
      /\ queue' = <<>> /\ sending' = NoOp /\ UNCHANGED <<saved, lastSent, lastSigned>>
      /\ tower' = IF saved = NoTower THEN NewTower(replayed)
                  ELSE adjust_lockouts_after_replay(saved, replayed).tower
  BY DEF restart
<1> HIDE DEF replayed
<1>4. Newest' = saved.last_vote /\ NewestSigned'
  BY <1>3 DEF Newest, NewestSigned, NoOp, VoteOp, NoTower, NewTower
<1>5. saved.last_vote \in Int /\ -1 <= saved.last_vote
  BY <1>1, SavedLast, Zenon
<1>6. /\ tower' \in TowerType /\ Last_Is(tower)'
      /\ tower'.votes # <<>> => tower'.last_vote = saved.last_vote
      /\ tower'.votes = <<>> => tower'.last_vote = None /\ saved.last_vote <= tower'.root_slot
  <2>1. CASE saved = NoTower
    <3>1. replayed \in Nat
      BY <1>2, TowerAssumption
    <3>2. tower' = NewTower(replayed)
      BY <1>3, <2>1
    <3>3. tower'.votes = <<>> /\ tower'.last_vote = None /\ tower'.root_slot = replayed
      BY <3>2 DEF NewTower
    <3>4. saved.last_vote = -1
      BY <2>1 DEF NoTower, NewTower, None
    <3>5. saved.last_vote <= tower'.root_slot
      BY <3>1, <3>3, <3>4
    <3>6. tower' \in TowerType
      BY <3>1, <3>2, NewTowerType, SMTT(60)
    <3> QED BY <3>3, <3>5, <3>6 DEF Last_Is
  <2>2. CASE saved # NoTower
    <3>1. saved \in TowerType /\ saved.votes # <<>> /\ Last_Is(saved)
      BY <1>1, <2>2 DEF Types, TowerInv
    <3>2. tower' = adjust_lockouts_after_replay(saved, replayed).tower
      BY <1>3, <2>2, Zenon
    <3> QED BY <1>2, <3>1, <3>2, AdjustAfterReplay, Zenon DEF Last_Is
  <2> QED BY <2>1, <2>2, Zenon
<1>7. Types'
  BY <1>1, <1>3, <1>6, NoOpType, EmptySeq, Zenon DEF Types
<1>8. QueueInv'
  <2>1. Len(queue') = 0
    BY <1>3, Zenon
  <2> QED BY <2>1 DEF QueueInv
<1>9. TowerInv'
  <2>1. saved.last_vote <= saved.last_vote
    BY <1>5
  <2> QED BY <1>1, <1>3, <1>4, <1>6, <2>1, Zenon DEF TowerInv, Last_Is
<1>10. SentInv'
  <2>1. sending'.tower.last_vote = -1
    BY <1>3 DEF NoOp, VoteOp, NoTower, NewTower, None
  <2> QED BY <1>1, <1>3, <1>5, <2>1, ZenonT(60) DEF SentInv
<1> QED BY <1>7, <1>8, <1>9, <1>10 DEF SavedInv

-----------------------------------------------------------------------------
(* No vote that was signed when it was recorded reaches the cluster before *)
(* the tower file has it, however votes are signed, declined, queued,      *)
(* refreshed, stored and sent and wherever the process dies, for every     *)
(* ledger and tower depth: VotingService stores the tower before it sends, *)
(* a vote that generate_vote_tx declined is never counted as signed by a   *)
(* later refresh, and a restored tower is never older than the last vote.  *)
THEOREM SentVotesAreSaved == Spec => []VotesAreSaved
<1>1. SavedInv /\ [Next]_vars => SavedInv'
  <2> SUFFICES ASSUME SavedInv, [Next]_vars PROVE SavedInv'
    BY ZenonT(60)
  <2>1. CASE UNCHANGED vars
    BY <2>1, SameSaved, Zenon DEF vars, SavedInv, Types
  <2>2. CASE Next
    BY <2>2, BanksSaved, VoteSaved, RefreshSaved, StoreSaved, SendSaved, RestartSaved, ZenonT(60) DEF Next
  <2> QED BY <2>1, <2>2
<1>2. SavedInv => VotesAreSaved
  BY DEF SavedInv, SentInv, VotesAreSaved
<1> QED BY InitSaved, <1>1, <1>2, PTL DEF Spec

-----------------------------------------------------------------------------
(* Roots are confirmed.                                                    *)

(* The lockout of a vote is a number, and grows with its confirmations.    *)
LEMMA LockoutInt == \A v \in Vote : last_locked_out_slot(v) \in Int
<1> SUFFICES ASSUME NEW v \in Vote PROVE last_locked_out_slot(v) \in Int
  OBVIOUS
<1>1. v.slot \in Int /\ v.confirmation_count \in Nat
  BY VoteSlot DEF Vote
<1>2. \A c \in Nat : 2 ^ c \in Int
  OBVIOUS
<1>3. 2 ^ v.confirmation_count \in Int
  BY <1>1, <1>2, Zenon
<1> QED BY <1>1, <1>3 DEF last_locked_out_slot

(* process_next_vote_slot in closed form: the first k votes stay, the      *)
(* oldest of them (d = 1) becomes the root when the tower is full.         *)
VoteMade(t, after, s, k, d) ==
    /\ k \in 0..Len(t.votes)
    /\ d = IF k = MAX_LOCKOUT_HISTORY THEN 1 ELSE 0
    /\ after.root_slot = IF k = MAX_LOCKOUT_HISTORY THEN t.votes[1].slot ELSE t.root_slot
    /\ after.votes \in Seq(Vote) /\ Len(after.votes) = k - d + 1
    /\ after.votes[k - d + 1].slot = s /\ after.votes[k - d + 1].confirmation_count = 1
    /\ \A i \in 1..(k - d) :
          /\ after.votes[i].slot = t.votes[i + d].slot
          /\ after.votes[i].confirmation_count =
                IF k - d + 1 > (i - 1) + t.votes[i + d].confirmation_count
                THEN t.votes[i + d].confirmation_count + 1 ELSE t.votes[i + d].confirmation_count
    /\ \A i \in (k + 1)..Len(t.votes) : last_locked_out_slot(t.votes[i]) < s

LEMMA PopShape ==
    ASSUME NEW votes \in Seq(Vote), NEW s \in Slots
    PROVE  \E k \in 0..Len(votes) :
              /\ pop_expired_votes(votes, s) = SubSeq(votes, 1, k)
              /\ Len(pop_expired_votes(votes, s)) = k
              /\ \A i \in 1..k : pop_expired_votes(votes, s)[i] = votes[i]
              /\ \A i \in (k + 1)..Len(votes) : last_locked_out_slot(votes[i]) < s
<1> DEFINE S == {0} \cup {i \in DOMAIN votes : last_locked_out_slot(votes[i]) >= s}
<1>1. Len(votes) \in Nat /\ DOMAIN votes = 1..Len(votes) /\ \A i \in 1..Len(votes) : votes[i] \in Vote
  BY LenProperties, ElementOfSeq
<1>2. S \in SUBSET (0..Len(votes)) /\ S # {}
  BY <1>1
<1> HIDE DEF S
<1>3. Max(S) \in 0..Len(votes) /\ \A y \in S : y <= Max(S)
  BY <1>1, <1>2, MaxBounded, Zenon
<1>4. PICK k \in 0..Len(votes) : k = Max(S)
  BY <1>3
<1>5. pop_expired_votes(votes, s) = SubSeq(votes, 1, k)
  BY <1>4 DEF pop_expired_votes, S
<1>6. Len(SubSeq(votes, 1, k)) = k /\ \A i \in 1..k : SubSeq(votes, 1, k)[i] = votes[i]
  <2>1. 1 \in 1..(Len(votes) + 1) /\ k \in (1 - 1)..Len(votes) /\ k \in Nat
    BY <1>1
  <2>2. \A i \in 1..k : votes[i] \in Vote
    BY <1>1
  <2>3. /\ Len(SubSeq(votes, 1, k)) = IF 1 <= k THEN k - 1 + 1 ELSE 0
        /\ \A i \in 1..(k - 1 + 1) : SubSeq(votes, 1, k)[i] = votes[1 + i - 1]
    BY <2>1, <2>2, SubSeqProperties
  <2>4. k - 1 + 1 = k /\ (~(1 <= k) => k = 0) /\ \A i \in 1..k : 1 + i - 1 = i
    BY <2>1
  <2> QED BY <2>1, <2>3, <2>4
<1>7. ASSUME NEW i \in (k + 1)..Len(votes) PROVE last_locked_out_slot(votes[i]) < s
  <2>1. i \in 1..Len(votes) /\ ~(i <= k)
    BY <1>1
  <2>2. i \notin S
    BY <1>3, <1>4, <2>1, Zenon
  <2>3. ~(last_locked_out_slot(votes[i]) >= s)
    BY <1>1, <2>1, <2>2, Zenon DEF S
  <2>4. last_locked_out_slot(votes[i]) \in Int /\ s \in Int
    BY <1>1, <2>1, LockoutInt, TowerAssumption, SMTT(60)
  <2> QED BY <2>3, <2>4
<1> QED BY <1>5, <1>6, <1>7

LEMMA NextVoteShape ==
    ASSUME NEW t \in TowerType, NEW s \in Slots, last_voted_slot(t.votes) < s
    PROVE  LET after == process_next_vote_slot(t, s)
           IN /\ after.last_vote = t.last_vote /\ after.stray = t.stray
              /\ \E k, d \in Nat : VoteMade(t, after, s, k, d)
<1> DEFINE kept == pop_expired_votes(t.votes, s)
           full == Len(kept) = MAX_LOCKOUT_HISTORY
           rest == IF full THEN Tail(kept) ELSE kept
           pushed == Append(rest, Lockout(s))
           after == process_next_vote_slot(t, s)
<1>1. /\ t.votes \in Seq(Vote) /\ Len(t.votes) \in Nat /\ t.root_slot \in Int
      /\ \A i \in 1..Len(t.votes) : t.votes[i] \in Vote
  BY LenProperties, ElementOfSeq, Zenon DEF TowerType
<1>2. PICK k \in 0..Len(t.votes) :
          /\ Len(kept) = k
          /\ \A i \in 1..k : kept[i] = t.votes[i]
          /\ \A i \in (k + 1)..Len(t.votes) : last_locked_out_slot(t.votes[i]) < s
  BY <1>1, PopShape, Zenon
<1>3. kept \in Seq(Vote)
  BY <1>1, PopTypes
<1>4. PICK d \in Nat : d = IF k = MAX_LOCKOUT_HISTORY THEN 1 ELSE 0
  OBVIOUS
<1>5. k \in Nat /\ d \in 0..1 /\ k - d \in Nat /\ (full <=> k = MAX_LOCKOUT_HISTORY) /\ (full => k >= 1)
  BY <1>1, <1>2, <1>4, TowerAssumption, SMTT(60)
<1> HIDE DEF kept
<1>6. rest \in Seq(Vote) /\ Len(rest) = k - d /\ \A i \in 1..(k - d) : rest[i] = t.votes[i + d]
  <2>1. CASE full
    <3>1. kept # <<>> /\ k >= 1 /\ d = 1
      BY <1>2, <1>4, <1>5, <2>1, EmptySeq
    <3>2. /\ Tail(kept) \in Seq(Vote) /\ Len(Tail(kept)) = k - 1
          /\ \A i \in 1..(k - 1) : Tail(kept)[i] = kept[i + 1]
      BY <1>2, <1>3, <3>1, HeadTailProperties
    <3>3. \A i \in 1..(k - 1) : i + 1 \in 1..k
      BY <1>5
    <3> QED BY <1>2, <2>1, <3>1, <3>2, <3>3
  <2>2. CASE ~full
    <3>1. d = 0 /\ k - d = k /\ \A i \in 1..k : i + d = i
      BY <1>4, <1>5, <2>2
    <3> QED BY <1>2, <1>3, <2>2, <3>1, Zenon
  <2> QED BY <2>1, <2>2, Zenon
<1>7. Lockout(s) \in Vote
  BY DEF Lockout, Vote
<1> HIDE DEF rest
<1>8. /\ pushed \in Seq(Vote) /\ Len(pushed) = k - d + 1
      /\ pushed[k - d + 1] = Lockout(s)
      /\ \A i \in 1..(k - d) : pushed[i] = t.votes[i + d]
  <2>1. /\ pushed \in Seq(Vote) /\ Len(pushed) = Len(rest) + 1
        /\ pushed[Len(rest) + 1] = Lockout(s)
        /\ \A i \in 1..Len(rest) : pushed[i] = rest[i]
    BY <1>6, <1>7, AppendProperties
  <2> QED BY <1>6, <2>1
<1> HIDE DEF pushed
<1>9. ASSUME NEW i \in 1..(k - d + 1)
      PROVE  double_lockouts(pushed)[i] =
                IF k - d + 1 > (i - 1) + pushed[i].confirmation_count
                THEN [pushed[i] EXCEPT !.confirmation_count = @ + 1] ELSE pushed[i]
  <2>1. DOMAIN pushed = 1..(k - d + 1)
    BY <1>8, LenProperties
  <2> QED BY <1>8, <2>1 DEF double_lockouts
<1>10. double_lockouts(pushed) \in Seq(Vote) /\ Len(double_lockouts(pushed)) = k - d + 1
  BY <1>8, DoubleKeepsSlots
<1>11. after = [t EXCEPT !.votes = double_lockouts(pushed),
                         !.root_slot = IF full THEN kept[1].slot ELSE @]
  <2>1. last_voted_slot(t.votes) \in Int
    <3>1. CASE t.votes = <<>>
      BY <3>1 DEF last_voted_slot, None
    <3>2. CASE t.votes # <<>>
      <4>1. Len(t.votes) \in 1..Len(t.votes)
        BY <1>1, <3>2, EmptySeq, SMTT(60)
      <4> QED BY <1>1, <3>2, <4>1, VoteSlot DEF last_voted_slot
    <3> QED BY <3>1, <3>2
  <2>2. ~(s <= last_voted_slot(t.votes))
    BY <2>1, TowerAssumption
  <2> QED BY <2>2 DEF process_next_vote_slot, pushed, rest, kept
<1> HIDE DEF after
<1>12. /\ after.votes = double_lockouts(pushed)
       /\ after.root_slot = IF full THEN kept[1].slot ELSE t.root_slot
       /\ after.last_vote = t.last_vote /\ after.stray = t.stray
  BY <1>11 DEF TowerType
<1>13. full => kept[1] = t.votes[1]
  BY <1>2, <1>5
<1>14. ASSUME NEW i \in 1..(k - d)
       PROVE  /\ after.votes[i].slot = t.votes[i + d].slot
              /\ after.votes[i].confirmation_count =
                    IF k - d + 1 > (i - 1) + t.votes[i + d].confirmation_count
                    THEN t.votes[i + d].confirmation_count + 1 ELSE t.votes[i + d].confirmation_count
  <2>1. i \in 1..(k - d + 1) /\ i + d \in 1..Len(t.votes)
    BY <1>1, <1>2, <1>5, SMTT(60)
  <2>2. t.votes[i + d] \in Vote /\ pushed[i] = t.votes[i + d]
    BY <1>1, <1>8, <2>1
  <2>3. after.votes[i] = IF k - d + 1 > (i - 1) + t.votes[i + d].confirmation_count
                         THEN [t.votes[i + d] EXCEPT !.confirmation_count = @ + 1] ELSE t.votes[i + d]
    BY <1>9, <1>12, <2>1, <2>2, Zenon
  <2> QED BY <2>2, <2>3 DEF Vote
<1>15. after.votes[k - d + 1].slot = s /\ after.votes[k - d + 1].confirmation_count = 1
  <2>1. PICK n \in 1..(k - d + 1) : n = k - d + 1
    BY <1>5
  <2>2. pushed[n].confirmation_count = 1 /\ pushed[n].slot = s
    BY <1>8, <2>1 DEF Lockout
  <2>3. ~(k - d + 1 > (n - 1) + pushed[n].confirmation_count)
    BY <1>5, <2>1, <2>2
  <2>4. double_lockouts(pushed)[n] = pushed[n]
    BY <1>9, <2>3, ZenonT(60)
  <2> QED BY <1>12, <2>1, <2>2, <2>4
<1>16. VoteMade(t, after, s, k, d)
  BY <1>2, <1>4, <1>5, <1>10, <1>12, <1>13, <1>14, <1>15, Zenon DEF VoteMade
<1> QED BY <1>5, <1>12, <1>16 DEF after

-----------------------------------------------------------------------------
(* What is rooted is confirmed.                                            *)

\* A vote that is VOTE_THRESHOLD_DEPTH deep, or was, is on the supermajority's
\* chain, and so is the root.
Sound(t) ==
    /\ t.root_slot \in Supermajority
    /\ Len(t.votes) <= MAX_LOCKOUT_HISTORY
    /\ \A i \in 1..Len(t.votes) :
          /\ t.votes[i].confirmation_count \in 1..MAX_LOCKOUT_HISTORY
          /\ \/ i <= Len(t.votes) - VOTE_THRESHOLD_DEPTH
             \/ t.votes[i].confirmation_count > VOTE_THRESHOLD_DEPTH
             => t.votes[i].slot \in Supermajority

\* A tower that may be in the tower file.
Stored(t) == t.votes # <<>> /\ Last_Is(t) /\ Sound(t)

RootInv ==
    /\ Types
    /\ roots \subseteq Supermajority /\ root \in Supermajority
    /\ Last_Is(tower) /\ Sound(tower)
    /\ saved = NoTower \/ Stored(saved)
    /\ \A i \in 1..Len(queue) :
          Sound(queue[i].tower) /\ (queue[i].push => Stored(queue[i].tower))

(* A vote that passes check_vote_stake_threshold leaves a sound tower.     *)
LEMMA SoundVote ==
    ASSUME NEW t \in TowerType, Sound(t), NEW after, NEW s \in Slots,
           NEW k \in Nat, NEW d \in Nat, VoteMade(t, after, s, k, d),
           LET votes == after.votes
           IN Len(votes) > VOTE_THRESHOLD_DEPTH =>
                 LET v == votes[Len(votes) - VOTE_THRESHOLD_DEPTH]
                 IN \/ v.slot \in Supermajority
                    \/ v.confirmation_count > VOTE_THRESHOLD_DEPTH /\ v \in Range(t.votes)
    PROVE  Sound(after)
<1>1. /\ t.votes \in Seq(Vote) /\ Len(t.votes) \in Nat /\ DOMAIN t.votes = 1..Len(t.votes)
      /\ \A i \in 1..Len(t.votes) : t.votes[i] \in Vote /\ t.votes[i].confirmation_count \in Nat
  <2>1. /\ t.votes \in Seq(Vote) /\ Len(t.votes) \in Nat /\ DOMAIN t.votes = 1..Len(t.votes)
        /\ \A i \in 1..Len(t.votes) : t.votes[i] \in Vote
    BY LenProperties, ElementOfSeq, Zenon DEF TowerType
  <2>2. \A v \in Vote : v.confirmation_count \in Nat
    BY DEF Vote
  <2> QED BY <2>1, <2>2, Zenon
<1>2. PICK n \in Nat : n = k - d + 1
  <2>1. d \in 0..1 /\ (d = 1 => k = MAX_LOCKOUT_HISTORY) /\ MAX_LOCKOUT_HISTORY \in Nat \ {0}
    BY TowerAssumption DEF VoteMade
  <2>2. k - d + 1 \in Nat
    BY <2>1, SMTT(60)
  <2> QED BY <2>2, ZenonT(60)
<1>3. /\ k \in 0..Len(t.votes) /\ d \in 0..1 /\ k <= MAX_LOCKOUT_HISTORY /\ n <= MAX_LOCKOUT_HISTORY
      /\ d = 1 <=> k = MAX_LOCKOUT_HISTORY
      /\ Len(after.votes) = n /\ n >= 1
  <2>1. MAX_LOCKOUT_HISTORY \in Nat \ {0} /\ Len(t.votes) <= MAX_LOCKOUT_HISTORY
    BY TowerAssumption, Zenon DEF Sound
  <2>2. /\ k \in 0..Len(t.votes) /\ d = IF k = MAX_LOCKOUT_HISTORY THEN 1 ELSE 0
        /\ Len(after.votes) = k - d + 1
    BY Zenon DEF VoteMade
  <2> QED BY <1>1, <1>2, <2>1, <2>2
<1>4. MAX_LOCKOUT_HISTORY \in Nat /\ VOTE_THRESHOLD_DEPTH \in 1..MAX_LOCKOUT_HISTORY - 1
  BY TowerAssumption
<1>5. after.root_slot \in Supermajority
  <2>1. CASE d = 1
    <3>1. 1 \in 1..Len(t.votes) /\ 1 <= Len(t.votes) - VOTE_THRESHOLD_DEPTH
      BY <1>1, <1>3, <1>4, <2>1, SMTT(60)
    <3> QED BY <1>3, <2>1, <3>1, Zenon DEF VoteMade, Sound
  <2>2. CASE d # 1
    BY <1>3, <2>2, Zenon DEF VoteMade, Sound
  <2> QED BY <2>1, <2>2, Zenon
<1>6. ASSUME NEW i \in 1..(k - d)
      PROVE  i + d \in 1..Len(t.votes) /\ i \in Nat /\ i <= n - 1 /\ i + d <= k /\ i >= 1
  BY <1>1, <1>2, <1>3, SMTT(60)
<1>7. ASSUME NEW i \in 1..(k - d), i <= n - VOTE_THRESHOLD_DEPTH
      PROVE  after.votes[i].slot \in Supermajority
  <2>1. CASE i = n - VOTE_THRESHOLD_DEPTH
    <3>1. /\ Len(after.votes) > VOTE_THRESHOLD_DEPTH
          /\ i = Len(after.votes) - VOTE_THRESHOLD_DEPTH
      BY <1>3, <1>4, <1>6, <2>1, SMTT(60)
    <3>2. \/ after.votes[i].slot \in Supermajority
          \/ after.votes[i].confirmation_count > VOTE_THRESHOLD_DEPTH /\ after.votes[i] \in Range(t.votes)
      BY <3>1, Zenon
    <3>3. ASSUME after.votes[i].confirmation_count > VOTE_THRESHOLD_DEPTH, after.votes[i] \in Range(t.votes)
          PROVE  after.votes[i].slot \in Supermajority
      <4>1. PICK j \in 1..Len(t.votes) : after.votes[i] = t.votes[j]
        BY <1>1, <3>3, Zenon DEF Range
      <4> QED BY <3>3, <4>1, Zenon DEF Sound
    <3> QED BY <3>2, <3>3, Zenon
  <2>2. CASE i # n - VOTE_THRESHOLD_DEPTH
    <3>1. i + d <= Len(t.votes) - VOTE_THRESHOLD_DEPTH
      BY <1>1, <1>2, <1>3, <1>4, <1>6, <1>7, <2>2, SMTT(60)
    <3>2. t.votes[i + d].slot \in Supermajority
      BY <1>6, <3>1, Zenon DEF Sound
    <3> QED BY <3>2, Zenon DEF VoteMade
  <2> QED BY <2>1, <2>2, Zenon
<1>8. ASSUME NEW i \in 1..n
      PROVE  /\ after.votes[i].confirmation_count \in 1..MAX_LOCKOUT_HISTORY
             /\ \/ i <= n - VOTE_THRESHOLD_DEPTH
                \/ after.votes[i].confirmation_count > VOTE_THRESHOLD_DEPTH
                => after.votes[i].slot \in Supermajority
  <2>1. CASE i = n
    <3>1. after.votes[i].confirmation_count = 1
      BY <1>2, <2>1, Zenon DEF VoteMade
    <3> QED BY <1>3, <1>4, <2>1, <3>1, SMTT(60)
  <2>2. CASE i # n
    <3>1. i \in 1..(k - d)
      BY <1>2, <1>3, <2>2, SMTT(60)
    <3>2. PICK c \in Nat : c = t.votes[i + d].confirmation_count
      BY <1>1, <1>6, <3>1, Zenon
    <3>3. /\ c \in 1..MAX_LOCKOUT_HISTORY
          /\ c > VOTE_THRESHOLD_DEPTH => t.votes[i + d].slot \in Supermajority
      BY <1>6, <3>1, <3>2, Zenon DEF Sound
    <3>4. /\ after.votes[i].confirmation_count = IF n > (i - 1) + c THEN c + 1 ELSE c
          /\ after.votes[i].slot = t.votes[i + d].slot
      BY <1>2, <3>1, <3>2, Zenon DEF VoteMade
    <3>5. CASE n > (i - 1) + c
      <4>1. c + 1 \in 1..MAX_LOCKOUT_HISTORY /\ (c + 1 > VOTE_THRESHOLD_DEPTH => i <= n - VOTE_THRESHOLD_DEPTH)
        BY <1>3, <1>4, <3>3, <3>5
      <4> QED BY <1>7, <3>1, <3>4, <3>5, <4>1, Zenon
    <3>6. CASE ~(n > (i - 1) + c)
      BY <1>7, <3>1, <3>3, <3>4, <3>6, Zenon
    <3> QED BY <3>5, <3>6, Zenon
  <2> QED BY <2>1, <2>2, Zenon
<1> QED BY <1>3, <1>5, <1>8, Zenon DEF Sound

(* A restart keeps the votes from the m-th on; when the tower and the      *)
(* history are consistent, the votes before it and the root are in the     *)
(* history, and the votes kept are not.                                    *)
Suffix(t, votes, m) ==
    /\ m \in 1..(Len(t.votes) + 1)
    /\ votes \in Seq(Vote) /\ Len(votes) = Len(t.votes) - m + 1
    /\ \A i \in 1..Len(votes) : votes[i] = t.votes[m + i - 1]

Matches(t, history, m) ==
    /\ t.root_slot \in history
    /\ \A i \in 1..(m - 1) : t.votes[i].slot \in history
    /\ \A i \in m..Len(t.votes) : t.votes[i].slot \notin history
    /\ \A i \in 1..Len(t.votes) : t.root_slot <= t.votes[i].slot

LEMMA AdjustShape ==
    ASSUME NEW t \in TowerType, t.votes # <<>>,
           NEW top \in Nat, NEW history \in SUBSET (0..top), history # {}
    PROVE  LET a == adjust_lockouts_with_slot_history(t, history)
           IN \E m \in Nat : Suffix(t, a.tower.votes, m) /\ (a.ok => Matches(t, history, m))
<1> DEFINE n == Len(t.votes)
           voted == [i \in DOMAIN t.votes |-> t.votes[i].slot]
           slots == <<t.root_slot>> \o voted
           found == {i \in DOMAIN slots : Check(history, slots[i]) = "Found"}
           votes == SubSeq(t.votes, Max(found), Len(t.votes))
           ok == Consistent(slots, found, history)
           a == adjust_lockouts_with_slot_history(t, history)
<1>1. /\ t.votes \in Seq(Vote) /\ n \in Nat \ {0} /\ DOMAIN t.votes = 1..n
      /\ \A i \in 1..n : t.votes[i] \in Vote
  BY EmptySeq, LenProperties, ElementOfSeq, Zenon DEF TowerType
<1>2. voted \in Seq(Int) /\ Len(voted) = n
  <2>1. \A i \in 1..n : t.votes[i].slot \in Int
    BY <1>1, VoteSlot, SMTT(60)
  <2>2. voted \in [1..n -> Int]
    BY <1>1, <2>1
  <2> QED BY <1>1, <2>2, FunctionIsSeq, Zenon
<1>3. /\ <<t.root_slot>> \in Seq(Int) /\ Len(<<t.root_slot>>) = 1
      /\ <<t.root_slot>>[1] = t.root_slot
  BY SMTT(60) DEF TowerType
<1>4. /\ DOMAIN slots = 1..(n + 1) /\ slots[1] = t.root_slot
      /\ \A i \in 1..n : slots[i + 1] = t.votes[i].slot
      /\ \A i \in 1..(n + 1) : slots[i] \in Int
  <2> HIDE DEF voted
  <2>1. /\ slots \in Seq(Int) /\ Len(slots) = 1 + n
        /\ \A i \in 1..1 : slots[i] = <<t.root_slot>>[i]
        /\ \A i \in 1..n : slots[1 + i] = voted[i]
    BY <1>1, <1>2, <1>3, ConcatProperties, SMTT(60)
  <2>2. DOMAIN slots = 1..(n + 1) /\ \A i \in 1..(n + 1) : slots[i] \in Int
    BY <1>1, <2>1, LenProperties, ElementOfSeq, SMTT(60)
  <2>3. \A i \in 1..n : voted[i] = t.votes[i].slot
    BY <1>1 DEF voted
  <2>4. 1 \in 1..1 /\ \A i \in 1..n : i + 1 = 1 + i
    BY <1>1
  <2>5. slots[1] = t.root_slot
    BY <1>3, <2>1, <2>4
  <2> HIDE DEF slots
  <2> QED BY <2>1, <2>2, <2>3, <2>4, <2>5, Zenon
<1> HIDE DEF slots, n
<1>5. a = [ok |-> ok,
           tower |-> IF ~ok THEN t
                     ELSE IF votes = <<>> THEN [t EXCEPT !.votes = <<>>, !.last_vote = None]
                     ELSE [t EXCEPT !.votes = votes, !.stray = t.last_vote]]
  BY Zenon DEF adjust_lockouts_with_slot_history, slots
<1>6. CASE ~ok
  <2> HIDE DEF ok, votes, a
  <2>1. a.tower = t /\ ~a.ok
    BY <1>5, <1>6, Zenon
  <2>2. /\ 1 \in Nat /\ 1 \in 1..(Len(t.votes) + 1) /\ Len(t.votes) = Len(t.votes) - 1 + 1
        /\ \A i \in 1..Len(t.votes) : 1 + i - 1 = i
    BY <1>1, SMTT(60) DEF n
  <2>3. Suffix(t, a.tower.votes, 1)
    BY <1>1, <2>1, <2>2, Zenon DEF Suffix
  <2> QED BY <2>1, <2>2, <2>3 DEF a
<1>7. CASE ok
  <2>1. PICK m \in 1..(n + 1) : m = Max(found) /\ m \in found /\ \A y \in found : y <= m
    <3>1. found # {}
      BY <1>7, Zenon DEF Consistent
    <3>2. found \in SUBSET (0..(n + 1)) /\ n + 1 \in Nat
      BY <1>1, <1>4
    <3>3. \A i \in found : i \in 1..(n + 1)
      BY <1>4
    <3> HIDE DEF found, ok
    <3>4. Max(found) \in found /\ \A y \in found : y <= Max(found)
      BY <3>1, <3>2, MaxBounded, Zenon
    <3> QED BY <3>3, <3>4, Zenon
  <2>2. m \in Nat /\ n \in Nat /\ 1 <= m /\ m <= n + 1 /\ m \in 1..(n + 1)
    <3> HIDE DEF found
    <3> QED BY <1>1, <2>1
  <2>3. Suffix(t, votes, m)
    <3>1. \A i \in m..n : t.votes[i] \in Vote
      BY <1>1, <2>1
    <3>2. /\ SubSeq(t.votes, m, n) \in Seq(Vote)
          /\ Len(SubSeq(t.votes, m, n)) = IF m <= n THEN n - m + 1 ELSE 0
          /\ \A i \in 1..(n - m + 1) : SubSeq(t.votes, m, n)[i] = t.votes[m + i - 1]
      BY <2>2, <3>1, SubSeqProperties
    <3>3. Len(SubSeq(t.votes, m, n)) = n - m + 1
      BY <2>2, <3>2
    <3>4. votes = SubSeq(t.votes, m, n)
      BY <2>1 DEF n
    <3> HIDE DEF votes
    <3> QED BY <2>1, <3>2, <3>3, <3>4, Zenon DEF Suffix, n
  <2>4. a.tower.votes = votes /\ a.ok
    <3> HIDE DEF ok, votes, a
    <3> QED BY <1>5, <1>7 DEF TowerType
  <2>5. ASSUME NEW i \in 1..m PROVE slots[i] \in history
    <3>1. Check(history, slots[m]) = "Found"
      BY <2>1, Zenon
    <3>2. i \in DOMAIN slots /\ m \in DOMAIN slots /\ (i # m => i < m)
      BY <1>4, <2>1, <2>2, SMTT(60)
    <3>3. Check(history, slots[i]) # "NotFound"
      BY <1>7, <2>1, Zenon DEF Consistent
    <3>4. i < m => (Check(history, slots[i]) = "Future" => Check(history, slots[m]) = "Future")
      BY <1>7, <3>2, Zenon DEF Consistent
    <3>5. Check(history, slots[i]) # "Future"
      BY <3>1, <3>2, <3>4, Zenon
    <3> QED BY <3>3, <3>5 DEF Check
  <2>6. ASSUME NEW i \in 1..n PROVE t.root_slot <= t.votes[i].slot
    <3>1. 1 \in DOMAIN slots /\ i + 1 \in DOMAIN slots /\ 1 < i + 1
      BY <1>1, <1>4, SMTT(60)
    <3>2. slots[1] < slots[i + 1] \/ slots[1] = slots[i + 1]
      BY <1>7, <3>1, Zenon DEF Consistent
    <3>3. slots[1] \in Int /\ slots[i + 1] \in Int
      BY <1>4, <3>1, Zenon
    <3>4. slots[1] <= slots[i + 1]
      BY <3>2, <3>3, SMTT(60)
    <3> QED BY <1>4, <3>4, Zenon
  <2>7. ASSUME NEW i \in m..n PROVE t.votes[i].slot \notin history
    <3>1. i \in 1..n /\ i + 1 \in 1..(n + 1) /\ ~(i + 1 <= m)
      BY <1>1, <2>2
    <3>2. i + 1 \notin found
      BY <2>1, <3>1, Zenon
    <3>3. Check(history, slots[i + 1]) # "Found"
      BY <1>4, <3>1, <3>2, Zenon
    <3>4. /\ Max(history) \in history /\ \A y \in history : y <= Max(history)
          /\ slots[i + 1] \in Int /\ slots[i + 1] = t.votes[i].slot
      BY <1>4, <3>1, MaxBounded, Zenon
    <3>5. Max(history) \in 0..top
      BY <3>4, Zenon
    <3>6. slots[i + 1] \in history => ~(slots[i + 1] > Max(history))
      BY <3>4, <3>5, SMTT(60)
    <3> QED BY <3>3, <3>4, <3>6, Zenon DEF Check
  <2>8. Matches(t, history, m)
    <3>1. 1 \in 1..m /\ \A i \in 1..(m - 1) : i + 1 \in 1..m /\ i \in 1..n
      BY <2>2
    <3>2. t.root_slot \in history
      BY <1>4, <2>5, <3>1, Zenon
    <3>3. \A i \in 1..(m - 1) : t.votes[i].slot \in history
      BY <1>4, <2>5, <3>1, ZenonT(60)
    <3> QED BY <2>6, <2>7, <3>2, <3>3, Zenon DEF Matches, n
  <2> HIDE DEF votes, a, ok
  <2> QED BY <2>2, <2>3, <2>4, <2>8, Zenon DEF a
<1> QED BY <1>6, <1>7, Zenon

LEMMA AfterReplayShape ==
    ASSUME NEW t \in TowerType, t.votes # <<>>, NEW replayed \in Slots
    PROVE  LET a == adjust_lockouts_after_replay(t, replayed)
           IN /\ a.tower.root_slot = IF t.root_slot <= replayed THEN replayed ELSE t.root_slot
              /\ \E m \in Nat : /\ Suffix(t, a.tower.votes, m)
                                /\ a.ok => Matches(t, Chain(replayed) \cup {a.tower.root_slot}, m)
<1> DEFINE history == {replayed} \cup Above[replayed]
           a == adjust_lockouts_after_replay(t, replayed)
<1>1. /\ replayed \in Nat /\ t.root_slot \in Int /\ history = Chain(replayed)
      /\ history \in SUBSET (0..replayed) /\ history # {}
  <2>1. replayed \in Nat /\ t.root_slot \in Int /\ Slots \subseteq Nat
    BY TowerAssumption DEF TowerType
  <2>2. history = Chain(replayed)
    BY DEF Chain
  <2>3. ASSUME NEW x \in history PROVE x \in 0..replayed
    <3>1. x \in Nat /\ x <= replayed
      BY <2>1, <2>2, ChainSlots
    <3> QED BY <2>1, <3>1
  <2> QED BY <2>1, <2>2, <2>3, Zenon
<1> HIDE DEF history
<1>2. CASE t.root_slot <= replayed
  <2> DEFINE b == adjust_lockouts_with_slot_history(t, history)
  <2>1. PICK m \in Nat : Suffix(t, b.tower.votes, m) /\ (b.ok => Matches(t, history, m))
    BY <1>1, AdjustShape, Zenon
  <2>2. /\ a.ok => b.ok
        /\ a.tower = [b.tower EXCEPT !.root_slot = replayed]
    BY <1>2, Zenon DEF adjust_lockouts_after_replay, history
  <2>3. a.tower.votes = b.tower.votes /\ a.tower.root_slot = replayed
    <3>1. b.tower = t \/ b.tower = [t EXCEPT !.votes = <<>>, !.last_vote = None]
                      \/ \E w : b.tower = [t EXCEPT !.votes = w, !.stray = t.last_vote]
      BY Zenon DEF adjust_lockouts_with_slot_history
    <3> HIDE DEF a, b
    <3> QED BY <2>2, <3>1, Zenon DEF TowerType
  <2>4. history \cup {replayed} = history
    BY Zenon DEF history
  <2> HIDE DEF a, b
  <2> QED BY <1>1, <1>2, <2>1, <2>2, <2>3, <2>4, ZenonT(60) DEF a
<1>3. CASE ~(t.root_slot <= replayed)
  <2> DEFINE above == history \cup {t.root_slot}
             b == adjust_lockouts_with_slot_history(t, above)
  <2>1. t.root_slot \in Nat /\ above \in SUBSET (0..t.root_slot) /\ above # {}
    <3>1. t.root_slot \in Nat /\ replayed < t.root_slot
      BY <1>1, <1>3
    <3>2. ASSUME NEW x \in history PROVE x \in 0..t.root_slot
      <4>1. x \in 0..replayed
        BY <1>1
      <4> QED BY <1>1, <3>1, <4>1
    <3>3. t.root_slot \in 0..t.root_slot
      BY <3>1, SMTT(60)
    <3> QED BY <3>1, <3>2, <3>3
  <2> HIDE DEF above
  <2>2. PICK m \in Nat : Suffix(t, b.tower.votes, m) /\ (b.ok => Matches(t, above, m))
    BY <2>1, AdjustShape, Zenon
  <2>3. (a.ok => b.ok) /\ a.tower = b.tower
    BY <1>3, Zenon DEF adjust_lockouts_after_replay, adjust_lockouts_with_slot_history, history, above
  <2>4. b.tower.root_slot = t.root_slot
    BY DEF adjust_lockouts_with_slot_history, TowerType
  <2> HIDE DEF a, b
  <2> QED BY <1>1, <1>3, <2>2, <2>3, <2>4, Zenon DEF a, above
<1> QED BY <1>2, <1>3, Zenon

(* A sound tower stays sound when its oldest votes go and its root moves   *)
(* along the supermajority's chain.                                        *)
LEMMA SoundSuffix ==
    ASSUME NEW t \in TowerType, Sound(t), NEW u, NEW m \in Nat,
           Suffix(t, u.votes, m), u.root_slot \in Supermajority
    PROVE  Sound(u)
<1>1. Len(t.votes) \in Nat
  BY LenProperties DEF TowerType
<1>2. m \in 1..(Len(t.votes) + 1) /\ Len(u.votes) = Len(t.votes) - m + 1 /\ MAX_LOCKOUT_HISTORY \in Nat
  BY TowerAssumption DEF Suffix
<1>3. Len(u.votes) <= MAX_LOCKOUT_HISTORY
  BY <1>1, <1>2, SMTT(60) DEF Sound
<1>4. ASSUME NEW i \in 1..Len(u.votes)
      PROVE  /\ u.votes[i].confirmation_count \in 1..MAX_LOCKOUT_HISTORY
             /\ \/ i <= Len(u.votes) - VOTE_THRESHOLD_DEPTH
                \/ u.votes[i].confirmation_count > VOTE_THRESHOLD_DEPTH
                => u.votes[i].slot \in Supermajority
  <2>1. PICK j \in Nat : j = m + i - 1
    BY <1>2, SMTT(60)
  <2>2. /\ j \in 1..Len(t.votes)
        /\ i <= Len(u.votes) - VOTE_THRESHOLD_DEPTH => j <= Len(t.votes) - VOTE_THRESHOLD_DEPTH
    BY <1>1, <1>2, <2>1, TowerAssumption, SMTT(60)
  <2>3. u.votes[i] = t.votes[j]
    BY <2>1 DEF Suffix
  <2> QED BY <2>2, <2>3 DEF Sound
<1> QED BY <1>3, <1>4 DEF Sound

\* What RootInv says of the queue.
Queued(q) ==
    \A i \in 1..Len(q) : Sound(q[i].tower) /\ (q[i].push => Stored(q[i].tower))

LEMMA SameRoot ==
    ASSUME RootInv, Types', UNCHANGED <<roots, root, tower, saved, queue>>
    PROVE  RootInv'
<1>1. (Last_Is(tower) /\ Sound(tower))'
  BY DEF RootInv, Last_Is, Sound
<1>2. (saved = NoTower \/ Stored(saved))'
  BY Zenon DEF RootInv, Stored, Sound, Last_Is
<1>3. (\A i \in 1..Len(queue) : Sound(queue[i].tower) /\ (queue[i].push => Stored(queue[i].tower)))'
  BY ZenonT(60) DEF RootInv, Stored, Sound, Last_Is
<1>4. (roots \subseteq Supermajority /\ root \in Supermajority)'
  BY DEF RootInv
<1> QED BY <1>1, <1>2, <1>3, <1>4, Zenon DEF RootInv

LEMMA InitRoot == Init => RootInv
<1> SUFFICES ASSUME Init PROVE RootInv
  OBVIOUS
<1>1. Types
  BY InitSaved DEF SavedInv
<1>2. /\ roots = {0} /\ root = 0 /\ saved = NoTower /\ queue = <<>> /\ Len(queue) = 0
      /\ tower.votes = <<>> /\ tower.root_slot = 0 /\ Len(tower.votes) = 0
  BY EmptySeq DEF Init, NewTower
<1>3. 0 \in Supermajority /\ 0 <= MAX_LOCKOUT_HISTORY
  BY TowerAssumption, SMTT(60)
<1> QED BY <1>1, <1>2, <1>3 DEF RootInv, Sound, Last_Is

LEMMA QueuedAppend ==
    ASSUME NEW q \in Seq(VoteOpType), Queued(q), NEW op \in VoteOpType,
           Sound(op.tower), op.push => Stored(op.tower)
    PROVE  Append(q, op) \in Seq(VoteOpType) /\ Queued(Append(q, op))
<1> DEFINE a == Append(q, op)
<1>1. /\ a \in Seq(VoteOpType) /\ Len(a) = Len(q) + 1
      /\ \A i \in 1..Len(q) : a[i] = q[i]
      /\ a[Len(q) + 1] = op
  BY AppendProperties
<1>2. Len(q) \in Nat
  BY LenProperties, Zenon
<1> HIDE DEF a
<1>3. ASSUME NEW i \in 1..Len(a) PROVE Sound(a[i].tower) /\ (a[i].push => Stored(a[i].tower))
  <2>1. CASE i \in 1..Len(q)
    BY <1>1, <2>1, Zenon DEF Queued
  <2>2. CASE i = Len(q) + 1
    BY <1>1, <2>2, Zenon
  <2> QED BY <1>1, <1>2, <2>1, <2>2, SMTT(60)
<1> QED BY <1>1, <1>3, Zenon DEF Queued, a

(* A newer vote than the last of the tower.                                *)
LEMMA RecentVote ==
    ASSUME tower \in TowerType, NEW s \in Slots, is_recent(s)
    PROVE  last_voted_slot(tower.votes) < s
<1>1. CASE tower.votes = <<>>
  <2>1. last_voted_slot(tower.votes) = -1 /\ s \in Nat
    BY <1>1, TowerAssumption DEF last_voted_slot, None
  <2> QED BY <2>1
<1>2. CASE tower.votes # <<>>
  <2>1. Len(tower.votes) \in 1..Len(tower.votes) /\ tower.votes \in Seq(Vote)
    BY <1>2, EmptySeq DEF TowerType
  <2>2. tower.votes[Len(tower.votes)] \in Vote
    BY <2>1, ElementOfSeq, Zenon
  <2>3. last_voted_slot(tower.votes) \in Int /\ s \in Int
    BY <1>2, <2>2, VoteSlot, TowerAssumption DEF last_voted_slot
  <2> QED BY <1>2, <2>3 DEF is_recent
<1> QED BY <1>1, <1>2

LEMMA VoteRoot ==
    ASSUME RootInv, NEW s \in Slots, NEW signed \in BOOLEAN, handle_votable_bank(s, signed)
    PROVE  RootInv'
<1> DEFINE after == process_next_vote_slot(tower, s)
           voted == [after EXCEPT !.last_vote = s, !.signed = signed]
           op == VoteOp(voted, TRUE)
<1>1. Types /\ tower \in TowerType /\ Sound(tower) /\ Queued(queue) /\ queue \in Seq(VoteOpType)
  BY DEF RootInv, Types, Queued
<1>2. is_recent(s) /\ check_vote_stake_threshold(s)
  BY DEF handle_votable_bank, is_locked_out
<1>3. after \in TowerType /\ after.votes # <<>> /\ after.votes[Len(after.votes)].slot = s
  BY <1>1, <1>2, RecentVote, NextVote
<1>4. PICK k \in Nat, d \in Nat : VoteMade(tower, after, s, k, d)
  BY <1>1, <1>2, RecentVote, NextVoteShape, ZenonT(60)
<1>5. LET votes == after.votes
      IN Len(votes) > VOTE_THRESHOLD_DEPTH =>
            LET v == votes[Len(votes) - VOTE_THRESHOLD_DEPTH]
            IN \/ v.slot \in Supermajority
               \/ v.confirmation_count > VOTE_THRESHOLD_DEPTH /\ v \in Range(tower.votes)
  BY <1>2 DEF check_vote_stake_threshold
<1>6. /\ tower' = voted
      /\ roots' = IF after.root_slot # tower.root_slot
                  THEN roots \cup {after.root_slot} \cup Above[after.root_slot] ELSE roots
      /\ root' = IF after.root_slot # tower.root_slot THEN after.root_slot ELSE root
      /\ queue' = IF signed THEN Append(queue, op) ELSE queue
      /\ UNCHANGED <<ledger, saved, sending, lastSent, lastSigned>>
      /\ frozen' \subseteq frozen /\ active' \subseteq active
  BY Zenon DEF handle_votable_bank, observed
<1> HIDE DEF after
<1>7. Sound(after)
  BY <1>1, <1>4, <1>5, SoundVote
<1>8. /\ voted \in TowerType /\ voted.votes = after.votes /\ voted.root_slot = after.root_slot
      /\ voted.last_vote = s
  <2>1. s \in Int
    BY TowerAssumption, SMTT(60)
  <2> QED BY <1>3, <2>1, Zenon DEF TowerType
<1> HIDE DEF voted
<1>9. Sound(voted) /\ Last_Is(voted) /\ Stored(voted)
  BY <1>3, <1>7, <1>8, Zenon DEF Sound, Last_Is, Stored
<1>10. op \in VoteOpType /\ op.tower = voted
  BY <1>8, Zenon DEF VoteOp, VoteOpType
<1> HIDE DEF op
<1>11. queue' \in Seq(VoteOpType) /\ Queued(queue')
  BY <1>1, <1>6, <1>9, <1>10, QueuedAppend, Zenon
<1>12. Types'
  BY <1>1, <1>6, <1>8, <1>11, Zenon DEF Types
<1>13. roots' \subseteq Supermajority /\ root' \in Supermajority
  <2>1. after.root_slot \in Supermajority /\ Above[after.root_slot] \subseteq Supermajority
    BY <1>7, TowerAssumption, Zenon DEF Sound
  <2> QED BY <1>6, <2>1, Zenon DEF RootInv
<1> QED BY <1>6, <1>9, <1>11, <1>12, <1>13, ZenonT(60) DEF RootInv, Queued, Stored, Sound, Last_Is

LEMMA RefreshRoot ==
    ASSUME RootInv, NEW h \in Slots, refresh_last_vote(h)
    PROVE  RootInv'
<1> DEFINE op == VoteOp(tower, FALSE)
<1>1. Types /\ Queued(queue) /\ Sound(tower) /\ tower \in TowerType /\ queue \in Seq(VoteOpType)
  BY DEF RootInv, Types, Queued
<1>2. queue' = Append(queue, op) /\ UNCHANGED <<disk, memory, sending, lastSent, lastSigned>>
  BY DEF refresh_last_vote, observed
<1>3. op \in VoteOpType /\ op.tower = tower /\ ~op.push
  BY <1>1 DEF VoteOp, VoteOpType
<1> HIDE DEF op
<1>4. queue' \in Seq(VoteOpType) /\ Queued(queue')
  BY <1>1, <1>2, <1>3, QueuedAppend, Zenon
<1>5. Types'
  BY <1>1, <1>2, <1>4, ZenonT(60) DEF Types, disk, memory
<1> QED BY <1>2, <1>4, <1>5, Zenon DEF RootInv, Queued, Stored, Sound, Last_Is, disk, memory

LEMMA StoreRoot ==
    ASSUME RootInv, store
    PROVE  RootInv'
<1>1. Types /\ Queued(queue) /\ queue \in Seq(VoteOpType) /\ queue # <<>>
  BY DEF RootInv, Types, Queued, store
<1>2. PICK op : op = queue[1]
  OBVIOUS
<1>3. 1 \in 1..Len(queue) /\ Len(queue) \in Nat
  BY <1>1, EmptySeq
<1>4. op \in VoteOpType /\ op.tower \in TowerType /\ (op.push => Stored(op.tower))
  <2>1. op \in VoteOpType
    BY <1>1, <1>2, <1>3, ElementOfSeq, Zenon
  <2>2. op.push => Stored(op.tower)
    BY <1>1, <1>2, <1>3 DEF Queued
  <2> QED BY <2>1, <2>2 DEF VoteOpType
<1>5. saved' \in TowerType /\ (saved' = NoTower \/ Stored(saved'))
  <2>1. CASE op.push
    <3>1. saved' = [op.tower EXCEPT !.stray = None]
      BY <1>2, <2>1 DEF store
    <3>2. /\ saved' \in TowerType /\ saved'.votes = op.tower.votes
          /\ saved'.last_vote = op.tower.last_vote /\ saved'.root_slot = op.tower.root_slot
      BY <1>4, <3>1 DEF TowerType, None
    <3> QED BY <1>4, <2>1, <3>2 DEF Stored, Sound, Last_Is
  <2>2. CASE ~op.push
    BY <1>1, <1>2, <2>2 DEF store, RootInv, Types
  <2> QED BY <2>1, <2>2, ZenonT(60)
<1>6. /\ queue' \in Seq(VoteOpType) /\ Len(queue') = Len(queue) - 1
      /\ \A i \in 1..Len(queue') : queue'[i] = queue[i + 1]
  BY <1>1, HeadTailProperties DEF store
<1>7. Queued(queue')
  <2>1. \A i \in 1..Len(queue') : i + 1 \in 1..Len(queue)
    BY <1>3, <1>6
  <2> QED BY <1>1, <1>6, <2>1, Zenon DEF Queued
<1>8. Types'
  BY <1>1, <1>2, <1>4, <1>5, <1>6, Zenon DEF Types, store, memory, observed
<1>9. UNCHANGED <<roots, root, tower>>
  BY DEF store, memory
<1> QED BY <1>5, <1>7, <1>8, <1>9, Zenon DEF RootInv, Queued, Sound, Last_Is, Stored

LEMMA BanksRoot ==
    ASSUME RootInv, NEW s \in Slots,
           \/ generate_new_bank_forks(s) \/ replay_active_banks(s) \/ select_vote_and_reset_forks(s)
    PROVE  RootInv'
<1>1. UNCHANGED <<roots, root, tower, saved, queue, sending, lastSent, lastSigned>>
  BY Zenon DEF generate_new_bank_forks, replay_active_banks, select_vote_and_reset_forks,
               disk, memory, observed
<1>2. ledger' \cup frozen' \cup active' \subseteq Slots
  BY DEF RootInv, Types, generate_new_bank_forks, replay_active_banks, select_vote_and_reset_forks,
         disk, memory
<1>3. Types'
  BY <1>1, <1>2, Zenon DEF RootInv, Types
<1> QED BY <1>1, <1>3, SameRoot, Zenon

LEMMA SendRoot ==
    ASSUME RootInv, send_transaction
    PROVE  RootInv'
<1>1. UNCHANGED <<ledger, frozen, active, roots, root, tower, saved, queue>> /\ sending' = NoOp
      /\ lastSent' = sending.tower.last_vote /\ lastSigned' = sending.tower.signed
  BY DEF send_transaction, disk, memory
<1>2. Types'
  BY <1>1, NoOpType, ZenonT(60) DEF RootInv, Types, VoteOpType, TowerType
<1> QED BY <1>1, <1>2, SameRoot

(* The root a restart replays up to.                                       *)
LEMMA RestartReplays ==
    ASSUME RootInv, NEW kept \in ledger, NEW keptRoot \in roots, restart(kept, keptRoot)
    PROVE  \E replayed \in Supermajority :
              /\ root' = replayed
              /\ ledger' = {s \in ledger : s <= kept} /\ ledger' \subseteq ledger
              /\ frozen' = {b \in ledger' : b = replayed \/ replayed \in Above[b]} /\ active' = {}
              /\ tower' = IF saved = NoTower THEN NewTower(replayed)
                          ELSE adjust_lockouts_after_replay(saved, replayed).tower
              /\ panicked' = IF saved # NoTower /\ ~adjust_lockouts_after_replay(saved, replayed).ok
                             THEN "restore" ELSE "no"
              /\ roots' \subseteq roots \cup Chain(replayed) \cup
                             (IF saved = NoTower THEN {} ELSE Chain(saved.root_slot))
              /\ queue' = <<>> /\ sending' = NoOp /\ promised' = durable
              /\ UNCHANGED <<saved, durable, lastSent, lastSigned>>
<1> DEFINE blocks == {s \in ledger : s <= kept}
           rooted == {r \in roots : r <= keptRoot}
           own == Max(rooted)
           replayed == ReplayedRoot(blocks, own)
           newRoots == rooted \cup {a \in Above[replayed] \cup {replayed} : a > own}
           result == adjust_lockouts_after_replay(saved, replayed)
<1>1. ledger \subseteq Slots /\ roots \subseteq Supermajority /\ Supermajority \subseteq Slots /\ Slots \subseteq Nat
  BY TowerAssumption DEF RootInv, Types
<1>2. own \in Supermajority
  <2>1. keptRoot \in Nat /\ rooted \in SUBSET (0..keptRoot) /\ rooted # {}
    <3>1. keptRoot \in Nat /\ keptRoot \in rooted
      BY <1>1
    <3>2. ASSUME NEW r \in rooted PROVE r \in 0..keptRoot
      <4>1. r \in Nat /\ r <= keptRoot
        BY <1>1
      <4> QED BY <3>1, <4>1
    <3> QED BY <3>1, <3>2, Zenon
  <2> HIDE DEF rooted
  <2>2. own \in rooted
    BY <2>1, MaxBounded, Zenon
  <2> QED BY <1>1, <2>2, Zenon DEF rooted
<1>3. replayed \in Supermajority
  <2>1. own \in blocks /\ kept \in Slots /\ blocks \in SUBSET Slots /\ \A b \in blocks : b <= kept
    BY <1>1, Zenon DEF restart
  <2>2. own <= kept
    BY <2>1
  <2> HIDE DEF own, blocks
  <2> QED BY <1>1, <1>2, <2>1, <2>2, ReplayedRootSlot
<1>4. /\ root' = replayed /\ ledger' = blocks
      /\ frozen' = {b \in blocks : b = replayed \/ replayed \in Above[b]} /\ active' = {}
      /\ saved = NoTower => tower' = NewTower(replayed) /\ roots' = newRoots /\ panicked' = "no"
      /\ saved # NoTower =>
            /\ tower' = result.tower
            /\ roots' = reconcile_blockstore_roots_with_tower(saved, blocks, newRoots)
            /\ panicked' = IF result.ok /\ (Max(newRoots) < saved.root_slot =>
                                               Max(newRoots) \in Above[saved.root_slot])
                           THEN "no" ELSE "restore"
      /\ queue' = <<>> /\ sending' = NoOp /\ promised' = durable
      /\ UNCHANGED <<saved, durable, lastSent, lastSigned>>
  BY Zenon DEF restart
<1>5. newRoots \subseteq roots \cup Chain(replayed)
  BY ZenonT(60) DEF Chain
<1>6. reconcile_blockstore_roots_with_tower(saved, blocks, newRoots)
         \subseteq newRoots \cup Chain(saved.root_slot)
  BY DEF reconcile_blockstore_roots_with_tower, Chain
<1>7. Max(newRoots) \in Supermajority
  <2>1. newRoots \subseteq Supermajority
    BY <1>1, <1>3, <1>5, SupermajorityChain, Zenon
  <2>2. keptRoot \in newRoots /\ \A a \in newRoots : a <= keptRoot \/ a <= replayed
    <3>1. keptRoot \in rooted /\ \A a \in rooted : a <= keptRoot
      BY <1>1, SMTT(60)
    <3>2. replayed \in Slots /\ \A a \in Above[replayed] \cup {replayed} : a <= replayed
      BY <1>1, <1>3, ChainSlots, Zenon DEF Chain
    <3> HIDE DEF rooted, replayed
    <3> QED BY <3>1, <3>2, Zenon
  <2> HIDE DEF newRoots, replayed
  <2>3. PICK n \in Nat : keptRoot <= n /\ replayed <= n
    <3>1. keptRoot \in Nat /\ replayed \in Nat
      BY <1>1, <1>3
    <3> QED BY <3>1
  <2>4. ASSUME NEW a \in newRoots PROVE a \in 0..n
    <3>1. a \in Nat /\ keptRoot \in Nat /\ replayed \in Nat
      BY <1>1, <1>3, <2>1
    <3> QED BY <2>2, <2>3, <3>1, SMTT(60)
  <2>5. newRoots \in SUBSET (0..n) /\ newRoots # {}
    BY <2>2, <2>4, Zenon
  <2> QED BY <2>1, <2>5, MaxBounded, Zenon
<1>8. ledger' \subseteq ledger
  BY <1>4, Zenon
<1> HIDE DEF replayed, newRoots, result
<1>9. saved # NoTower /\ Max(newRoots) < saved.root_slot => Max(newRoots) \in Above[saved.root_slot]
  <2> SUFFICES ASSUME saved # NoTower, Max(newRoots) < saved.root_slot
               PROVE  Max(newRoots) \in Above[saved.root_slot]
    BY ZenonT(60)
  <2>1. saved.root_slot \in Supermajority
    BY Zenon DEF RootInv, Stored, Sound
  <2>2. Max(newRoots) <= saved.root_slot /\ Max(newRoots) # saved.root_slot
    <3>1. PICK a \in Nat : a = Max(newRoots)
      BY <1>1, <1>7, Zenon
    <3>2. PICK b \in Nat : b = saved.root_slot
      BY <1>1, <2>1, Zenon
    <3> QED BY <3>1, <3>2
  <2>3. Max(newRoots) \in Chain(saved.root_slot)
    BY <1>7, <2>1, <2>2, SupermajorityChain
  <2> QED BY <2>2, <2>3, Zenon DEF Chain
<1>10. panicked' = IF saved # NoTower /\ ~result.ok THEN "restore" ELSE "no"
  BY <1>4, <1>9, Zenon
<1>11. ledger' = {s \in ledger : s <= kept}
  BY <1>4
<1> HIDE DEF blocks
<1> QED BY <1>3, <1>4, <1>5, <1>6, <1>8, <1>10, <1>11, ZenonT(60) DEF result

LEMMA RestartRoot ==
    ASSUME RootInv, NEW kept \in ledger, NEW keptRoot \in roots, restart(kept, keptRoot)
    PROVE  RootInv'
<1>1. Types /\ saved \in TowerType /\ lastSent \in Int /\ lastSigned \in BOOLEAN /\ ledger \subseteq Slots
  BY Zenon DEF RootInv, Types
<1>2. PICK replayed \in Supermajority :
              /\ root' = replayed
              /\ ledger' \subseteq ledger
              /\ frozen' = {b \in ledger' : b = replayed \/ replayed \in Above[b]} /\ active' = {}
              /\ tower' = IF saved = NoTower THEN NewTower(replayed)
                          ELSE adjust_lockouts_after_replay(saved, replayed).tower
              /\ roots' \subseteq roots \cup Chain(replayed) \cup
                             (IF saved = NoTower THEN {} ELSE Chain(saved.root_slot))
              /\ queue' = <<>> /\ sending' = NoOp /\ UNCHANGED <<saved, lastSent, lastSigned>>
  BY RestartReplays, Zenon
<1>3. replayed \in Slots /\ replayed \in Int
  <2>1. replayed \in Slots
    BY <1>2, SlotFacts, Zenon
  <2> QED  BY <2>1, SlotFacts
<1>4. tower' \in TowerType /\ Last_Is(tower') /\ Sound(tower')
  <2>1. CASE saved = NoTower
    <3>1. tower' = NewTower(replayed)
      BY <1>2, <2>1, ZenonT(60)
    <3>2. tower'.votes = <<>> /\ tower'.root_slot = replayed
      BY <3>1, Zenon DEF NewTower
    <3>3. Len(tower'.votes) = 0 /\ 0 <= MAX_LOCKOUT_HISTORY
      BY <3>2, EmptySeq, TowerAssumption, SMTT(60)
    <3>4. Sound(tower')
      BY <3>2, <3>3, SMTT(60) DEF Sound
    <3> QED BY <1>3, <3>1, <3>4, NewTowerType, ZenonT(60)
  <2>2. CASE saved # NoTower
    <3>1. saved.votes # <<>> /\ Last_Is(saved) /\ Sound(saved)
      BY <2>2, Zenon DEF RootInv, Stored
    <3>2. tower' = adjust_lockouts_after_replay(saved, replayed).tower
      BY <1>2, <2>2, Zenon
    <3>3. tower' \in TowerType /\ Last_Is(tower')
      BY <1>1, <1>3, <3>1, <3>2, AdjustAfterReplay, Zenon
    <3>4. /\ tower'.root_slot = IF saved.root_slot <= replayed THEN replayed ELSE saved.root_slot
          /\ \E m \in Nat : Suffix(saved, tower'.votes, m)
      BY <1>1, <1>3, <3>1, <3>2, AfterReplayShape, ZenonT(60)
    <3>5. tower'.root_slot \in Supermajority
      BY <3>1, <3>4, Zenon DEF Sound
    <3>6. Sound(tower')
      BY <1>1, <3>1, <3>4, <3>5, SoundSuffix, ZenonT(60)
    <3> QED BY <3>3, <3>6, Zenon
  <2> QED BY <2>1, <2>2, Zenon
<1>5. Types'
  BY <1>1, <1>2, <1>4, NoOpType, EmptySeq, Zenon DEF Types
<1>6. roots' \subseteq Supermajority
  <2>1. saved # NoTower => saved.root_slot \in Supermajority
    BY Zenon DEF RootInv, Stored, Sound
  <2>2. Chain(replayed) \subseteq Supermajority /\ (saved # NoTower => Chain(saved.root_slot) \subseteq Supermajority)
    BY <2>1, SupermajorityChain, Zenon
  <2>3. roots \subseteq Supermajority
    BY Zenon DEF RootInv
  <2> QED BY <1>2, <2>2, <2>3, ZenonT(60)
<1>7. Len(queue') = 0
  BY <1>2, EmptySeq, Zenon
<1>8. (saved = NoTower \/ Stored(saved))'
  BY <1>2, ZenonT(60) DEF RootInv, Stored, Sound, Last_Is
<1>9. (Last_Is(tower) /\ Sound(tower))'
  BY <1>4, Zenon DEF Last_Is, Sound
<1>10. (\A i \in 1..Len(queue) : Sound(queue[i].tower) /\ (queue[i].push => Stored(queue[i].tower)))'
  BY <1>7, SMTT(60)
<1>11. root' \in Supermajority
  BY <1>2
<1> QED BY <1>5, <1>6, <1>8, <1>9, <1>10, <1>11 DEF RootInv

(* What the validator roots is on the supermajority's chain, for every     *)
(* ledger, tower depth, threshold depth and number of crashes, and whether *)
(* or not its votes can be signed: check_vote_stake_threshold stops a vote *)
(* that would bury an unconfirmed one VOTE_THRESHOLD_DEPTH deep, and the   *)
(* root is buried deeper.  A restart moves the root along the same chain.  *)
THEOREM RootsAreConfirmed == Spec => []RootIsConfirmed
<1>1. RootInv /\ [Next]_vars => RootInv'
  <2> SUFFICES ASSUME RootInv, [Next]_vars PROVE RootInv'
    OBVIOUS
  <2>1. CASE UNCHANGED vars
    <3>1. Types' /\ UNCHANGED <<roots, root, tower, saved, queue>>
      BY <2>1, Zenon DEF vars, RootInv, Types
    <3> QED BY <3>1, SameRoot, Zenon
  <2>2. CASE Next
    BY <2>2, BanksRoot, VoteRoot, RefreshRoot, StoreRoot, SendRoot, RestartRoot, ZenonT(60) DEF Next
  <2> QED BY <2>1, <2>2
<1>2. RootInv => RootIsConfirmed
  BY DEF RootInv, Sound, RootIsConfirmed
<1> QED BY InitRoot, <1>1, <1>2, PTL DEF Spec

=============================================================================
