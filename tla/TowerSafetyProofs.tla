------------------------- MODULE TowerSafetyProofs --------------------------
(***************************************************************************)
(* The validator keeps its lockouts through crashes, and only a restored   *)
(* tower whose root or last vote the banks do not have yet can fail an     *)
(* assertion, for every ledger, tower depth, threshold depth, queue and    *)
(* number of crashes.  Both rest on what a tower promises: the towers in   *)
(* the file, on the way to it and in memory are ordered by Keeps, each     *)
(* covering what the ones before it promised.                              *)
(***************************************************************************)
EXTENDS TowerProofs

-----------------------------------------------------------------------------
(* Lockouts are kept.                                                      *)

\* What may not be voted against: a tower's last vote, or its root.
LastOf(t) == IF t.votes = <<>> THEN t.root_slot ELSE t.last_vote

\* A promise not to leave x before p is past, is made by a vote of t again, or
\* is about an ancestor of its root.
Covered(t, x, p) ==
    \/ p < LastOf(t)
    \/ \E v \in Range(t.votes) : v.slot = x /\ p <= last_locked_out_slot(v)
    \/ t.root_slot \in Slots /\ x \in Chain(t.root_slot)

\* Tower b, the later one, keeps the promises of a.
Keeps(a, b) ==
    /\ LastOf(a) <= LastOf(b)
    /\ a.root_slot \in Slots => a.root_slot \in Chain(b.root_slot)
    /\ \A v \in Range(a.votes) : Covered(b, v.slot, last_locked_out_slot(v))

\* The votes and the root are all ancestors of the last vote.
OneChain(t) ==
    /\ t.last_vote \in Slots /\ t.root_slot \in Chain(t.last_vote)
    /\ \A v \in Range(t.votes) : v.slot \in Chain(t.last_vote)

\* What promises the tower t covers.
Covers(t, p) == \A x \in Slots : p[x] # None => Covered(t, x, p[x])

\* The file is the oldest tower, then comes what is being sent, then the queue in
\* its order, and the tower in memory is the newest: each keeps the promises of
\* all the older ones.
Order(file, mem, q, op) ==
    /\ Keeps(file, mem)
    /\ \A i \in 1..Len(q) : Keeps(file, q[i].tower) /\ Keeps(q[i].tower, mem)
    /\ \A i, j \in 1..Len(q) : i < j => Keeps(q[i].tower, q[j].tower)
    /\ op # NoOp => Keeps(op.tower, mem) /\ \A i \in 1..Len(q) : Keeps(op.tower, q[i].tower)

\* A refreshed vote that was signed when recorded promises nothing that the vote
\* before it did not; every other tower is a chain.
Shape(op, before) ==
    /\ op.tower.votes # <<>>
    /\ IF op.push \/ ~op.tower.signed THEN OneChain(op.tower)
       ELSE Range(op.tower.votes) \subseteq Range(before.votes)

TowerBefore(file, q, i) == IF i = 1 THEN file ELSE q[i - 1].tower
NewestTower(file, q) == IF q = <<>> THEN file ELSE q[Len(q)].tower

Shapes(file, mem, q, op) ==
    /\ file = NoTower \/ OneChain(file)
    /\ IF mem.signed THEN Range(mem.votes) \subseteq Range(NewestTower(file, q).votes) ELSE OneChain(mem)
    /\ \A i \in 1..Len(q) : Shape(q[i], TowerBefore(file, q, i))
    /\ op # NoOp => /\ op.tower.votes # <<>> /\ Sound(op.tower)
                    /\ IF op.tower.signed
                       THEN /\ op.tower.last_vote = file.last_vote
                            /\ Range(op.tower.votes) \subseteq Range(file.votes)
                       ELSE OneChain(op.tower)

\* The next vote to be sent or refreshed repeats that of the file.
Repeats(mem, q, op) ==
    \/ op # NoOp /\ op.tower.signed
    \/ q # <<>> /\ ~q[1].push /\ q[1].tower.signed
    \/ q = <<>> /\ mem.votes # <<>> /\ mem.signed

\* The promises made are covered by every tower that may still be sent, the
\* durable ones by the file.
Promises(file, mem, q, op, p, d) ==
    /\ p \in [Slots -> Int] /\ d \in [Slots -> Int]
    /\ Covers(file, d) /\ Covers(mem, p)
    /\ \A i \in 1..Len(q) : Covers(q[i].tower, p)
    /\ op # NoOp => Covers(op.tower, p)
    /\ Repeats(mem, q, op) => Covers(file, p)

\* The banks descend from the root of BankForks. The tower's root is that root
\* or, after a crash, one that the votes descend from.
ForksInv ==
    /\ \A b \in frozen \cup active : root \in Chain(b)
    /\ \/ tower.root_slot = root
       \/ /\ root <= tower.root_slot
          /\ \A v \in Range(tower.votes) : tower.root_slot \in Chain(v.slot)

KeptInv ==
    /\ Order(saved, tower, queue, sending)
    /\ Shapes(saved, tower, queue, sending)
    /\ Promises(saved, tower, queue, sending, promised, durable)
    /\ ForksInv

\* A validator that panicked takes no further step.
LockInv == SavedInv /\ RootInv /\ (panicked # "no" \/ KeptInv)

LEMMA RangeVotes ==
    ASSUME NEW t \in TowerType
    PROVE  /\ Range(t.votes) = {t.votes[i] : i \in 1..Len(t.votes)}
           /\ \A v \in Range(t.votes) : v \in Vote /\ v.slot \in Slots /\ last_locked_out_slot(v) \in Int
<1>1. t.votes \in Seq(Vote) /\ DOMAIN t.votes = 1..Len(t.votes)
  BY LenProperties DEF TowerType
<1>2. Range(t.votes) = {t.votes[i] : i \in 1..Len(t.votes)}
  BY <1>1 DEF Range
<1>3. \A i \in 1..Len(t.votes) : t.votes[i] \in Vote
  BY <1>1, ElementOfSeq
<1>4. \A v \in Vote : v.slot \in Slots
  BY DEF Vote
<1> QED BY <1>2, <1>3, <1>4, LockoutInt

LEMMA LastOfInt == \A t \in TowerType : LastOf(t) \in Int
BY DEF LastOf, TowerType

(* Keeping promises is reflexive and transitive.                           *)
LEMMA KeepsItself ==
    ASSUME NEW a \in TowerType
    PROVE  Keeps(a, a)
<1>1. LastOf(a) <= LastOf(a)
  BY LastOfInt
<1>2. a.root_slot \in Slots => a.root_slot \in Chain(a.root_slot)
  BY DEF Chain
<1>3. ASSUME NEW v \in Range(a.votes) PROVE Covered(a, v.slot, last_locked_out_slot(v))
  <2>1. last_locked_out_slot(v) <= last_locked_out_slot(v)
    BY RangeVotes
  <2> QED BY <2>1 DEF Covered
<1> QED BY <1>1, <1>2, <1>3 DEF Keeps

LEMMA CoveredLess ==
    ASSUME NEW t \in TowerType, NEW x, NEW p \in Int, NEW q \in Int, p <= q, Covered(t, x, q)
    PROVE  Covered(t, x, p)
<1>1. CASE q < LastOf(t)
  <2>1. p < LastOf(t)
    BY <1>1, LastOfInt
  <2> QED BY <2>1 DEF Covered
<1>2. ASSUME NEW v \in Range(t.votes), v.slot = x, q <= last_locked_out_slot(v) PROVE Covered(t, x, p)
  <2>1. p <= last_locked_out_slot(v)
    BY <1>2, RangeVotes
  <2> QED BY <1>2, <2>1 DEF Covered
<1> QED BY <1>1, <1>2 DEF Covered

LEMMA KeepsCovered ==
    ASSUME NEW a \in TowerType, NEW b \in TowerType, Keeps(a, b), b.root_slot \in Slots,
           NEW x, NEW p \in Int, Covered(a, x, p)
    PROVE  Covered(b, x, p)
<1>1. CASE p < LastOf(a)
  <2>1. p < LastOf(b)
    <3>1. LastOf(a) \in Int /\ LastOf(b) \in Int /\ LastOf(a) <= LastOf(b)
      BY LastOfInt DEF Keeps
    <3> QED BY <1>1, <3>1
  <2> QED BY <2>1 DEF Covered
<1>2. ASSUME NEW v \in Range(a.votes), v.slot = x, p <= last_locked_out_slot(v)
      PROVE  Covered(b, x, p)
  <2>1. Covered(b, x, last_locked_out_slot(v)) /\ last_locked_out_slot(v) \in Int
    BY <1>2, RangeVotes DEF Keeps
  <2> QED BY <1>2, <2>1, CoveredLess
<1>3. CASE a.root_slot \in Slots /\ x \in Chain(a.root_slot)
  <2>1. x \in Chain(b.root_slot)
    BY <1>3, ChainTransitive DEF Keeps
  <2> QED BY <2>1 DEF Covered
<1> QED BY <1>1, <1>2, <1>3 DEF Covered

LEMMA KeepsTransitive ==
    ASSUME NEW a \in TowerType, NEW b \in TowerType, NEW c \in TowerType,
           Keeps(a, b), Keeps(b, c), b.root_slot \in Slots, c.root_slot \in Slots
    PROVE  Keeps(a, c)
<1>1. LastOf(a) <= LastOf(c)
  <2>1. /\ LastOf(a) \in Int /\ LastOf(b) \in Int /\ LastOf(c) \in Int
        /\ LastOf(a) <= LastOf(b) /\ LastOf(b) <= LastOf(c)
    BY LastOfInt DEF Keeps
  <2> QED BY <2>1
<1>2. a.root_slot \in Slots => a.root_slot \in Chain(c.root_slot)
  BY ChainTransitive DEF Keeps
<1>3. ASSUME NEW v \in Range(a.votes) PROVE Covered(c, v.slot, last_locked_out_slot(v))
  <2>1. Covered(b, v.slot, last_locked_out_slot(v)) /\ last_locked_out_slot(v) \in Int
    BY RangeVotes DEF Keeps
  <2> QED BY <2>1, KeepsCovered
<1> QED BY <1>1, <1>2, <1>3 DEF Keeps

(* A later vote keeps what the votes before it promised: a vote is popped  *)
(* when its lockout is over, becomes the root, or stays with no less       *)
(* confirmation.                                                           *)
LEMMA VoteKeeps ==
    ASSUME NEW t \in TowerType, Sound(t), NEW u \in TowerType, Sound(u), NEW s \in Slots,
           NEW k \in Nat, NEW d \in Nat, VoteMade(t, u, s, k, d),
           u.votes # <<>>, u.last_vote = s, LastOf(t) < s,
           t.root_slot \in Chain(u.root_slot)
    PROVE  Keeps(t, u)
<1>1. LastOf(u) = s /\ s \in Int /\ u.root_slot \in Slots
  <2>1. LastOf(u) = s
    BY DEF LastOf
  <2>2. u.root_slot \in Supermajority
    BY DEF Sound
  <2>3. Supermajority \subseteq Slots /\ s \in Int
    BY TowerAssumption
  <2> QED BY <2>1, <2>2, <2>3, Zenon
<1>2. LastOf(t) <= LastOf(u)
  BY <1>1, LastOfInt
<1>3. ASSUME NEW v \in Range(t.votes) PROVE Covered(u, v.slot, last_locked_out_slot(v))
  <2>1. PICK i \in 1..Len(t.votes) : v = t.votes[i]
    BY RangeVotes, Zenon
  <2>2. /\ Len(t.votes) \in Nat /\ Len(u.votes) = k - d + 1 /\ k \in 0..Len(t.votes) /\ d \in 0..1
        /\ d = 1 <=> k = MAX_LOCKOUT_HISTORY
    BY LenProperties DEF TowerType, VoteMade
  <2>3. CASE i > k
    <3>1. i \in (k + 1)..Len(t.votes)
      BY <2>2, <2>3
    <3>2. last_locked_out_slot(v) < LastOf(u)
      BY <1>1, <2>1, <3>1 DEF VoteMade
    <3> QED BY <3>2 DEF Covered
  <2>4. CASE ~(i > k) /\ ~(i > d)
    <3>1. i = 1 /\ k = MAX_LOCKOUT_HISTORY
      BY <2>2, <2>4
    <3>2. u.root_slot = v.slot
      BY <2>1, <3>1 DEF VoteMade
    <3> QED BY <1>1, <3>2 DEF Covered, Chain
  <2>5. CASE ~(i > k) /\ i > d
    <3>1. PICK j \in Nat : j = i - d
      BY <2>2, <2>5
    <3>2. j \in 1..(k - d) /\ j + d = i /\ j \in 1..Len(u.votes)
      BY <2>2, <2>5, <3>1
    <3>3. PICK w : w = u.votes[j]
      OBVIOUS
    <3>4. w \in Range(u.votes) /\ w \in Vote /\ v \in Vote
      BY <3>2, <3>3, RangeVotes, Zenon
    <3>5. /\ w.slot = v.slot
          /\ w.confirmation_count = v.confirmation_count \/ w.confirmation_count = v.confirmation_count + 1
      BY <2>1, <3>2, <3>3, Zenon DEF VoteMade
    <3>6. w.confirmation_count \in 1..MAX_LOCKOUT_HISTORY /\ v.confirmation_count \in 1..MAX_LOCKOUT_HISTORY
      BY <2>1, <3>2, <3>3 DEF Sound
    <3>7. PICK c, e \in 0..MAX_LOCKOUT_HISTORY : c = v.confirmation_count /\ e = w.confirmation_count /\ c <= e
      BY <3>5, <3>6, TowerAssumption, SMTT(60)
    <3>8. 2 ^ c <= 2 ^ e
      BY <3>7, PowerAssumption
    <3>9. v.slot \in Int /\ 2 ^ c \in Int /\ 2 ^ e \in Int
      <4>1. \A n \in Nat : 2 ^ n \in Int
        OBVIOUS
      <4>2. c \in Nat /\ e \in Nat
        BY <3>7, TowerAssumption
      <4> QED BY <3>4, <4>1, <4>2, VoteSlot, SMTT(60)
    <3>10. last_locked_out_slot(v) = v.slot + 2 ^ c /\ last_locked_out_slot(w) = v.slot + 2 ^ e
      BY <3>5, <3>7 DEF last_locked_out_slot
    <3>11. last_locked_out_slot(v) <= last_locked_out_slot(w)
      BY <3>8, <3>9, <3>10, SMTT(60)
    <3> QED BY <3>4, <3>5, <3>11 DEF Covered
  <2> QED BY <2>3, <2>4, <2>5
<1> QED BY <1>2, <1>3 DEF Keeps

(* What a vote does to the tower, and what handle_votable_bank checked.    *)
LEMMA VoteFacts ==
    ASSUME RootInv,
           NEW s \in Slots, NEW signed \in BOOLEAN, handle_votable_bank(s, signed)
    PROVE  /\ s \in frozen /\ \A c \in frozen \ {0} : Parent[c] # s
           /\ last_voted_slot(tower.votes) < s /\ LastOf(tower) < s
           /\ tower' \in TowerType /\ Sound(tower') /\ tower'.votes # <<>>
           /\ tower'.last_vote = s /\ tower'.stray = tower.stray /\ tower'.signed = signed
           /\ tower'.root_slot \in Chain(s)
           /\ tower'.root_slot = s \/ tower'.root_slot >= root
           /\ \A i \in 1..Len(tower'.votes) :
                 /\ tower'.votes[i].slot \in Chain(s)
                 /\ tower'.votes[i].slot = s \/ tower'.votes[i].slot >= root
           /\ root' = IF tower'.root_slot # tower.root_slot THEN tower'.root_slot ELSE root
           /\ frozen' = IF tower'.root_slot # tower.root_slot
                        THEN {b \in frozen : b = tower'.root_slot \/ tower'.root_slot \in Above[b]}
                        ELSE frozen
           /\ active' = IF tower'.root_slot # tower.root_slot
                        THEN {b \in active : tower'.root_slot \in Above[b]} ELSE active
           /\ panicked' = IF tower'.root_slot # tower.root_slot /\ tower'.root_slot \notin frozen
                          THEN "root_bank" ELSE "no"
           /\ \E k, d \in Nat : VoteMade(tower, tower', s, k, d)
<1> DEFINE after == process_next_vote_slot(tower, s)
           voted == [after EXCEPT !.last_vote = s, !.signed = signed]
<1>1. /\ tower \in TowerType /\ Sound(tower) /\ Last_Is(tower) /\ frozen \subseteq Slots
      /\ root \in Slots /\ s \in Nat /\ tower.root_slot \in Slots /\ Slots \subseteq Nat
  BY TowerAssumption DEF RootInv, Types, Sound
<1>2. is_recent(s) /\ ~is_locked_out(s) /\ s \in frozen /\ StatsComputed
  BY DEF handle_votable_bank, is_locked_out, Leaf
<1>3. last_voted_slot(tower.votes) < s
  BY <1>1, <1>2, RecentVote, Zenon
<1>4. after \in TowerType /\ after.votes # <<>>
  BY <1>1, <1>3, NextVote, Zenon
<1>5. after.stray = tower.stray
  BY <1>1, <1>3, NextVoteShape, Zenon
<1>6. after.root_slot \in Chain(s) /\ (after.root_slot = s \/ after.root_slot >= root)
  BY <1>1, <1>2, Zenon DEF StatsComputed, RootAsserted, ancestors, Chain
<1>7. \A i \in 1..Len(after.votes) :
         after.votes[i].slot \in Chain(s) /\ (after.votes[i].slot = s \/ after.votes[i].slot >= root)
  <2>1. VotedSlots(after) \ {s} \subseteq ancestors(s)
    BY <1>2 DEF is_locked_out, VotesUnder
  <2>2. VotedSlots(after) = {after.votes[i].slot : i \in 1..Len(after.votes)}
    BY <1>4, LenProperties DEF VotedSlots, TowerType
  <2> HIDE DEF after
  <2> QED BY <2>1, <2>2 DEF ancestors, Chain
<1>8. /\ tower' = voted
      /\ root' = IF after.root_slot # tower.root_slot THEN after.root_slot ELSE root
      /\ frozen' = IF after.root_slot # tower.root_slot
                   THEN {b \in frozen : b = after.root_slot \/ after.root_slot \in Above[b]} ELSE frozen
      /\ active' = IF after.root_slot # tower.root_slot
                   THEN {b \in active : after.root_slot \in Above[b]} ELSE active
      /\ panicked' = IF after.root_slot # tower.root_slot /\ after.root_slot \notin frozen
                     THEN "root_bank" ELSE "no"
      /\ \A c \in frozen \ {0} : Parent[c] # s
  BY Zenon DEF handle_votable_bank, Leaf
<1>9. Sound(tower')
  BY VoteRoot, Zenon DEF RootInv, Sound
<1> HIDE DEF after
<1>10. /\ tower' \in TowerType /\ tower'.votes = after.votes /\ tower'.root_slot = after.root_slot
       /\ tower'.last_vote = s /\ tower'.stray = tower.stray /\ tower'.signed = signed
  <2>1. s \in Int
    BY <1>1
  <2> QED BY <1>4, <1>5, <1>8, <2>1, Zenon DEF TowerType
<1> HIDE DEF voted
<1>11. \E k, d \in Nat : VoteMade(tower, tower', s, k, d)
  <2>1. PICK k \in Nat, d \in Nat : VoteMade(tower, after, s, k, d)
    BY <1>1, <1>3, NextVoteShape, Zenon DEF after
  <2>2. VoteMade(tower, tower', s, k, d)
    BY <1>10, <2>1 DEF VoteMade
  <2> QED BY <2>2
<1>12. LastOf(tower) < s
  <2>1. CASE tower.votes = <<>>
    BY <1>1, <1>2, <2>1, Zenon DEF LastOf, is_recent
  <2>2. CASE tower.votes # <<>>
    BY <1>1, <1>3, <2>2, Zenon DEF LastOf, Last_Is, last_voted_slot
  <2> QED BY <2>1, <2>2
<1> QED BY <1>2, <1>3, <1>4, <1>6, <1>7, <1>8, <1>9, <1>10, <1>11, <1>12, Zenon

LEMMA VoteEffect ==
    ASSUME RootInv, ForksInv,
           NEW s \in Slots, NEW signed \in BOOLEAN, handle_votable_bank(s, signed)
    PROVE  OneChain(tower') /\ Keeps(tower, tower') /\ ForksInv'
<1>1. /\ tower \in TowerType /\ Sound(tower) /\ root \in Slots /\ tower.root_slot \in Slots
      /\ s \in Nat /\ Slots \subseteq Nat
  BY TowerAssumption, Zenon DEF RootInv, Types, Sound
<1>2. /\ s \in frozen /\ LastOf(tower) < s
      /\ tower' \in TowerType /\ Sound(tower') /\ tower'.votes # <<>> /\ tower'.last_vote = s
      /\ tower'.root_slot \in Chain(s) /\ (tower'.root_slot = s \/ tower'.root_slot >= root)
      /\ \A i \in 1..Len(tower'.votes) : tower'.votes[i].slot \in Chain(s)
      /\ root' = IF tower'.root_slot # tower.root_slot THEN tower'.root_slot ELSE root
      /\ frozen' = IF tower'.root_slot # tower.root_slot
                   THEN {b \in frozen : b = tower'.root_slot \/ tower'.root_slot \in Above[b]}
                   ELSE frozen
      /\ active' = IF tower'.root_slot # tower.root_slot
                   THEN {b \in active : tower'.root_slot \in Above[b]} ELSE active
  BY VoteFacts, Zenon
<1>3. PICK k \in Nat, d \in Nat : VoteMade(tower, tower', s, k, d)
  BY VoteFacts, Zenon
<1>11. root \in Chain(s) /\ root <= s
  BY <1>1, <1>2, ChainSlots DEF ForksInv
<1>13. tower.root_slot \in Chain(tower'.root_slot)
  <2>1. CASE tower'.root_slot = tower.root_slot
    BY <2>1 DEF Chain
  <2>2. CASE tower'.root_slot # tower.root_slot
    <3>1. k = MAX_LOCKOUT_HISTORY /\ tower'.root_slot = tower.votes[1].slot
      BY <1>3, <2>2 DEF VoteMade
    <3>2. tower.votes[1] \in Range(tower.votes)
      <4>1. 1 \in 1..Len(tower.votes)
        BY <1>1, <1>3, <3>1, LenProperties, TowerAssumption DEF VoteMade, TowerType
      <4> QED BY <1>1, <4>1, RangeVotes, Zenon
    <3>3. CASE tower.root_slot = root
      <4>1. tower'.root_slot \in Chain(s) /\ root <= tower'.root_slot
        <5>1. tower'.root_slot \in Chain(s) /\ tower'.root_slot \in Nat
          BY <1>1, <1>2, ChainSlots, Zenon
        <5> QED BY <1>1, <1>2, <1>11, <5>1
      <4> QED BY <1>11, <3>3, <4>1, ChainLinear
    <3>4. CASE \A v \in Range(tower.votes) : tower.root_slot \in Chain(v.slot)
      BY <3>1, <3>2, <3>4
    <3> QED BY <3>3, <3>4 DEF ForksInv
  <2> QED BY <2>1, <2>2
<1>15. Keeps(tower, tower')
  BY <1>1, <1>2, <1>3, <1>13, VoteKeeps
<1>16. OneChain(tower')
  <2>1. \A v \in Range(tower'.votes) : v.slot \in Chain(s)
    BY <1>2, RangeVotes, Zenon
  <2> QED BY <1>2, <2>1 DEF OneChain
<1>17. ForksInv'
  <2>1. CASE tower'.root_slot # tower.root_slot
    <3>1. root' = tower'.root_slot /\ \A b \in frozen' \cup active' : root' = b \/ root' \in Above[b]
      BY <1>2, <2>1
    <3> QED BY <3>1 DEF ForksInv, Chain
  <2>2. CASE tower'.root_slot = tower.root_slot
    <3>1. root' = root /\ frozen' = frozen /\ active' = active
      BY <1>2, <2>2
    <3>2. \A b \in frozen' \cup active' : root' \in Chain(b)
      BY <3>1 DEF ForksInv
    <3>3. CASE tower.root_slot = root
      BY <2>2, <3>1, <3>2, <3>3, ZenonT(60) DEF ForksInv, Chain
    <3>4. CASE root <= tower.root_slot /\ \A v \in Range(tower.votes) : tower.root_slot \in Chain(v.slot)
      <4>1. ASSUME NEW w \in Range(tower'.votes) PROVE tower'.root_slot \in Chain(w.slot)
        <5>1. PICK i \in 1..Len(tower'.votes) : w = tower'.votes[i]
          BY <1>2, RangeVotes, Zenon
        <5>2. CASE w.slot = s
          BY <1>2, <5>2, Zenon
        <5>3. CASE w.slot # s
          <6>1. i \in 1..(k - d) /\ i + d \in 1..Len(tower.votes)
            <7>1. /\ Len(tower'.votes) = k - d + 1 /\ d \in 0..1 /\ k \in 0..Len(tower.votes)
                  /\ tower'.votes[k - d + 1].slot = s /\ Len(tower.votes) \in Nat
              BY <1>1, <1>3, LenProperties, SMTT(60) DEF VoteMade, TowerType
            <7>2. i # k - d + 1
              BY <5>1, <5>3, <7>1, Zenon
            <7> QED BY <7>1, <7>2, SMTT(60)
          <6>2. w.slot = tower.votes[i + d].slot /\ tower.votes[i + d] \in Range(tower.votes)
            BY <1>1, <1>3, <5>1, <6>1, RangeVotes, ZenonT(60) DEF VoteMade
          <6> QED BY <2>2, <3>4, <6>2, ZenonT(60)
        <5> QED BY <5>2, <5>3, Zenon
      <4> QED BY <2>2, <3>1, <3>2, <3>4, <4>1, ZenonT(60) DEF ForksInv, Chain
    <3> QED BY <3>3, <3>4 DEF ForksInv
  <2> QED BY <2>1, <2>2
<1> QED BY <1>15, <1>16, <1>17, Zenon

(* The towers that are in the file, queued, being sent and in memory.      *)
Towers(file, mem, q, op) ==
    /\ file \in TowerType /\ op.tower \in TowerType
    /\ mem \in TowerType /\ mem.root_slot \in Slots
    /\ q \in Seq(VoteOpType) /\ Len(q) \in Nat /\ (q = <<>> <=> Len(q) = 0)
    /\ \A i \in 1..Len(q) :
          q[i] \in VoteOpType /\ q[i].tower \in TowerType /\ q[i].tower.root_slot \in Slots

LEMMA TowersTyped ==
    ASSUME RootInv
    PROVE  /\ Towers(saved, tower, queue, sending) /\ Sound(tower)
           /\ saved # NoTower => saved.root_slot \in Slots
<1>1. /\ queue \in Seq(VoteOpType) /\ Len(queue) \in Nat /\ (queue = <<>> <=> Len(queue) = 0)
      /\ \A i \in 1..Len(queue) : queue[i] \in VoteOpType
  BY LenProperties, EmptySeq, ElementOfSeq, Zenon DEF RootInv, Types
<1>2. \A i \in 1..Len(queue) : queue[i].tower \in TowerType
  BY <1>1, Zenon DEF VoteOpType
<1>3. \A i \in 1..Len(queue) : queue[i].tower.root_slot \in Slots
  BY TowerAssumption, Zenon DEF RootInv, Sound
<1>4. /\ saved \in TowerType /\ (saved # NoTower => saved.root_slot \in Slots)
      /\ tower \in TowerType /\ tower.root_slot \in Slots /\ Sound(tower)
      /\ sending.tower \in TowerType
  BY TowerAssumption, Zenon DEF RootInv, Types, Stored, Sound, VoteOpType
<1> QED BY <1>1, <1>2, <1>3, <1>4, Zenon DEF Towers

(* A queue with one more at its end.                                       *)
LEMMA AppendFacts ==
    ASSUME NEW q \in Seq(VoteOpType), NEW op \in VoteOpType, NEW r, r = Append(q, op)
    PROVE  /\ Len(q) \in Nat /\ Len(r) = Len(q) + 1 /\ r # <<>>
           /\ \A i \in 1..Len(q) : r[i] = q[i]
           /\ r[Len(q) + 1] = op /\ r[Len(r)] = op
           /\ \A i \in 1..Len(r) : i \in 1..Len(q) \/ i = Len(q) + 1
           /\ q = <<>> => r[1] = op
           /\ q # <<>> => r[1] = q[1]
<1>1. /\ Len(r) = Len(q) + 1 /\ r # <<>>
      /\ \A i \in 1..Len(q) : r[i] = q[i]
      /\ r[Len(q) + 1] = op
  BY AppendProperties
<1>2. Len(q) \in Nat /\ (q = <<>> <=> Len(q) = 0)
  BY LenProperties, EmptySeq
<1>3. /\ \A i \in 1..Len(r) : i \in 1..Len(q) \/ i = Len(q) + 1
      /\ Len(q) = 0 => Len(q) + 1 = 1
      /\ Len(q) # 0 => 1 \in 1..Len(q)
  BY <1>1, <1>2
<1> QED BY <1>1, <1>2, <1>3, Zenon

(* A newer tower in memory, and the same one queued.                       *)
LEMMA OrderLater ==
    ASSUME NEW file, NEW mem, NEW q, NEW sent, Towers(file, mem, q, sent), Order(file, mem, q, sent),
           NEW later \in TowerType, later.root_slot \in Slots, Keeps(mem, later)
    PROVE  Order(file, later, q, sent)
<1>1. \A a \in TowerType : Keeps(a, mem) => Keeps(a, later)
  BY KeepsTransitive, Zenon DEF Towers
<1> QED BY <1>1, Zenon DEF Order, Towers

LEMMA OrderAppend ==
    ASSUME NEW file, NEW mem, NEW q, NEW sent, Towers(file, mem, q, sent), Order(file, mem, q, sent),
           NEW op \in VoteOpType, op.tower = mem, NEW r, r = Append(q, op)
    PROVE  Order(file, mem, r, sent)
<1>1. /\ \A i \in 1..Len(q) : r[i] = q[i]
      /\ r[Len(q) + 1] = op /\ Len(q) \in Nat
      /\ \A i \in 1..Len(r) : i \in 1..Len(q) \/ i = Len(q) + 1
  <2>1. q \in Seq(VoteOpType)
    BY Zenon DEF Towers
  <2> QED BY <2>1, AppendFacts
<1>2. Keeps(mem, mem)
  BY KeepsItself, Zenon DEF Towers
<1>3. ASSUME NEW i \in 1..Len(r)
      PROVE  /\ Keeps(file, r[i].tower) /\ Keeps(r[i].tower, mem)
             /\ sent # NoOp => Keeps(sent.tower, r[i].tower)
  BY <1>1, <1>2, Zenon DEF Order
<1>4. ASSUME NEW i \in 1..Len(r), NEW j \in 1..Len(r), i < j
      PROVE  Keeps(r[i].tower, r[j].tower)
  <2>1. i \in 1..Len(q)
    BY <1>1, <1>4
  <2>2. CASE j \in 1..Len(q)
    BY <1>1, <1>4, <2>1, <2>2, Zenon DEF Order
  <2>3. CASE j = Len(q) + 1
    BY <1>1, <2>1, <2>3, Zenon DEF Order
  <2> QED BY <1>1, <2>2, <2>3, Zenon
<1> QED BY <1>3, <1>4, Zenon DEF Order

LEMMA CoversLater ==
    ASSUME NEW a \in TowerType, NEW b \in TowerType, Keeps(a, b), b.root_slot \in Slots,
           NEW p \in [Slots -> Int], Covers(a, p)
    PROVE  Covers(b, p)
<1> SUFFICES ASSUME NEW x \in Slots, p[x] # None PROVE Covered(b, x, p[x])
  BY Zenon DEF Covers
<1>1. p[x] \in Int /\ Covered(a, x, p[x])
  BY Zenon DEF Covers
<1> QED BY <1>1, KeepsCovered, Zenon

LEMMA ShapesAppend ==
    ASSUME NEW file, NEW mem, NEW q, NEW sent, Towers(file, mem, q, sent),
           \A i \in 1..Len(q) : Shape(q[i], TowerBefore(file, q, i)),
           NEW op \in VoteOpType, Shape(op, NewestTower(file, q)), NEW r, r = Append(q, op)
    PROVE  /\ \A i \in 1..Len(r) : Shape(r[i], TowerBefore(file, r, i))
           /\ NewestTower(file, r) = op.tower
<1>1. /\ Len(q) \in Nat /\ (q = <<>> <=> Len(q) = 0) /\ r # <<>>
      /\ \A i \in 1..Len(q) : r[i] = q[i]
      /\ r[Len(q) + 1] = op /\ r[Len(r)] = op
      /\ \A i \in 1..Len(r) : i \in 1..Len(q) \/ i = Len(q) + 1
  <2>1. q \in Seq(VoteOpType) /\ (q = <<>> <=> Len(q) = 0)
    BY Zenon DEF Towers
  <2> QED BY <2>1, AppendFacts
<1>2. ASSUME NEW i \in 1..Len(q) PROVE TowerBefore(file, r, i) = TowerBefore(file, q, i)
  <2>1. i # 1 => i - 1 \in 1..Len(q)
    BY <1>1
  <2> QED BY <1>1, <2>1, Zenon DEF TowerBefore
<1>3. TowerBefore(file, r, Len(q) + 1) = NewestTower(file, q)
  <2>1. CASE Len(q) = 0
    BY <1>1, <2>1 DEF TowerBefore, NewestTower
  <2>2. CASE Len(q) # 0
    <3>1. Len(q) + 1 # 1 /\ (Len(q) + 1) - 1 = Len(q) /\ Len(q) \in 1..Len(q)
      BY <1>1, <2>2
    <3> QED BY <1>1, <2>2, <3>1, Zenon DEF TowerBefore, NewestTower
  <2> QED BY <2>1, <2>2
<1> QED BY <1>1, <1>2, <1>3, Zenon DEF NewestTower

(* The invariant of the next state, from the parts of it.                  *)
LEMMA KeptNext ==
    ASSUME Order(saved', tower', queue', sending'), Shapes(saved', tower', queue', sending'),
           Promises(saved', tower', queue', sending', promised', durable'), ForksInv'
    PROVE  KeptInv'
<1>1. Order(saved, tower, queue, sending)'
  BY Zenon DEF Order, Keeps, Covered, LastOf, last_locked_out_slot, Chain, NoOp, VoteOp, NoTower, NewTower, None
<1>2. Shapes(saved, tower, queue, sending)'
  BY Zenon DEF Shapes, Shape, Sound, TowerBefore, NewestTower, OneChain, Chain, NoOp, VoteOp, NoTower, NewTower, None
<1>3. Promises(saved, tower, queue, sending, promised, durable)'
  BY Zenon DEF Promises, Repeats, Covers, Covered, LastOf, last_locked_out_slot, Chain,
               NoOp, VoteOp, NoTower, NewTower, None
<1> QED BY <1>1, <1>2, <1>3, Zenon DEF KeptInv

LEMMA SameKept ==
    ASSUME KeptInv, ForksInv', UNCHANGED <<saved, tower, queue, sending, promised, durable>>
    PROVE  KeptInv'
<1>1. Order(saved', tower', queue', sending') /\ Shapes(saved', tower', queue', sending')
  BY Zenon DEF KeptInv
<1>2. Promises(saved', tower', queue', sending', promised', durable')
  BY Zenon DEF KeptInv
<1> QED BY <1>1, <1>2, KeptNext, Zenon

LEMMA VoteLock ==
    ASSUME SavedInv, RootInv, KeptInv,
           NEW s \in Slots, NEW signed \in BOOLEAN, handle_votable_bank(s, signed)
    PROVE  KeptInv'
<1> DEFINE op == VoteOp(tower', TRUE)
<1>1. /\ tower' \in TowerType /\ Sound(tower') /\ OneChain(tower') /\ Keeps(tower, tower')
      /\ tower'.signed = signed /\ tower'.votes # <<>> /\ ForksInv'
  BY VoteFacts, VoteEffect, Zenon DEF KeptInv
<1>2. /\ queue' = IF signed THEN Append(queue, op) ELSE queue
      /\ UNCHANGED <<saved, sending, promised, durable>>
  BY Zenon DEF handle_votable_bank, observed
<1>3. op \in VoteOpType /\ op.tower = tower' /\ op.push
  BY <1>1, Zenon DEF VoteOp, VoteOpType
<1> HIDE DEF op
<1>4. /\ tower'.root_slot \in Slots
      /\ Towers(saved, tower, queue, sending) /\ Towers(saved, tower', queue, sending)
  <2>1. tower'.root_slot \in Slots
    BY <1>1, TowerAssumption, Zenon DEF Sound
  <2> QED BY <1>1, <2>1, TowersTyped, Zenon DEF Towers
<1>5. Order(saved, tower', queue, sending)
  BY <1>1, <1>4, OrderLater, Zenon DEF KeptInv
<1>6. Covers(tower', promised) /\ promised \in [Slots -> Int]
  <2>1. Covers(tower, promised) /\ promised \in [Slots -> Int] /\ tower \in TowerType
    BY <1>4, Zenon DEF KeptInv, Promises, Towers
  <2> QED BY <1>1, <1>4, <2>1, CoversLater, Zenon
<1>7. CASE ~signed
  <2>1. queue' = queue
    BY <1>2, <1>7, Zenon
  <2>2. Shapes(saved, tower', queue, sending)
    BY <1>1, <1>7, Zenon DEF KeptInv, Shapes
  <2>3. Repeats(tower', queue, sending) => Repeats(tower, queue, sending)
    BY <1>1, <1>7, Zenon DEF Repeats
  <2>4. Promises(saved, tower', queue, sending, promised, durable)
    BY <1>6, <2>3, Zenon DEF KeptInv, Promises
  <2> QED BY <1>1, <1>2, <1>5, <2>1, <2>2, <2>4, KeptNext, Zenon
<1>8. CASE signed
  <2>1. queue' = Append(queue, op)
    BY <1>2, <1>8, Zenon
  <2>2. Order(saved, tower', queue', sending)
    BY <1>3, <1>4, <1>5, <2>1, OrderAppend, Zenon
  <2>3. Shape(op, NewestTower(saved, queue))
    BY <1>1, <1>3, Zenon DEF Shape
  <2>4. /\ \A i \in 1..Len(queue') : Shape(queue'[i], TowerBefore(saved, queue', i))
        /\ NewestTower(saved, queue') = tower'
    BY <1>3, <1>4, <2>1, <2>3, ShapesAppend, Zenon DEF KeptInv, Shapes
  <2>5. Shapes(saved, tower', queue', sending)
    BY <1>1, <1>8, <2>4, Zenon DEF KeptInv, Shapes
  <2>6. /\ queue' # <<>> /\ \A i \in 1..Len(queue') : i \in 1..Len(queue) \/ i = Len(queue) + 1
        /\ \A i \in 1..Len(queue) : queue'[i] = queue[i]
        /\ queue'[Len(queue) + 1] = op
        /\ queue = <<>> => queue'[1] = op
        /\ queue # <<>> => queue'[1] = queue[1]
    <3>1. queue \in Seq(VoteOpType)
      BY <1>4, Zenon DEF Towers
    <3> QED BY <1>3, <2>1, <3>1, AppendFacts
  <2>7. Repeats(tower', queue', sending) => Repeats(tower, queue, sending)
    BY <1>3, <2>6, Zenon DEF Repeats
  <2>8. \A i \in 1..Len(queue') : Covers(queue'[i].tower, promised)
    BY <1>3, <1>6, <2>6, Zenon DEF KeptInv, Promises
  <2>9. Promises(saved, tower', queue', sending, promised, durable)
    BY <1>6, <2>7, <2>8, Zenon DEF KeptInv, Promises
  <2> QED BY <1>1, <1>2, <2>2, <2>5, <2>9, KeptNext, Zenon
<1> QED BY <1>7, <1>8, Zenon

LEMMA RefreshLock ==
    ASSUME SavedInv, RootInv, KeptInv, NEW h \in Slots, refresh_last_vote(h)
    PROVE  KeptInv'
<1> DEFINE op == VoteOp(tower, FALSE)
<1>1. queue' = Append(queue, op) /\ UNCHANGED <<saved, tower, frozen, active, root, sending, promised, durable>>
  BY Zenon DEF refresh_last_vote, disk, memory, observed
<1>2. /\ op \in VoteOpType /\ op.tower = tower /\ ~op.push
      /\ Towers(saved, tower, queue, sending)
  BY TowersTyped, Zenon DEF VoteOp, VoteOpType, Towers
<1> HIDE DEF op
<1>3. tower.votes # <<>>
  <2>1. tower.last_vote \in Slots
    BY Zenon DEF RootInv, Types, refresh_last_vote
  <2>2. tower.last_vote # None
    BY <2>1, TowerAssumption DEF None
  <2> QED BY <2>2, Zenon DEF SavedInv, TowerInv
<1>4. Order(saved, tower, queue', sending)
  BY <1>1, <1>2, OrderAppend, Zenon DEF KeptInv
<1>5. Shape(op, NewestTower(saved, queue))
  BY <1>2, <1>3, Zenon DEF KeptInv, Shapes, Shape
<1>6. /\ \A i \in 1..Len(queue') : Shape(queue'[i], TowerBefore(saved, queue', i))
      /\ NewestTower(saved, queue') = tower
  BY <1>1, <1>2, <1>5, ShapesAppend, Zenon DEF KeptInv, Shapes
<1>7. Shapes(saved, tower, queue', sending)
  BY <1>6, Zenon DEF KeptInv, Shapes
<1>8. /\ queue' # <<>> /\ \A i \in 1..Len(queue') : i \in 1..Len(queue) \/ i = Len(queue) + 1
      /\ \A i \in 1..Len(queue) : queue'[i] = queue[i]
      /\ queue'[Len(queue) + 1] = op
      /\ queue = <<>> => queue'[1] = op
      /\ queue # <<>> => queue'[1] = queue[1]
  <2>1. queue \in Seq(VoteOpType)
    BY <1>2, Zenon DEF Towers
  <2> QED BY <1>1, <1>2, <2>1, AppendFacts
<1>9. Repeats(tower, queue', sending) => Repeats(tower, queue, sending)
  BY <1>2, <1>3, <1>8, Zenon DEF Repeats
<1>10. \A i \in 1..Len(queue') : Covers(queue'[i].tower, promised)
  BY <1>2, <1>8, Zenon DEF KeptInv, Promises
<1>11. Promises(saved, tower, queue', sending, promised, durable)
  BY <1>9, <1>10, Zenon DEF KeptInv, Promises
<1>12. ForksInv'
  BY <1>1, Zenon DEF KeptInv, ForksInv, Chain
<1> QED BY <1>1, <1>4, <1>7, <1>11, <1>12, KeptNext, Zenon

(* The stray slot plays no part in what a tower promises.                  *)
LEMMA SamePromises ==
    ASSUME NEW a, NEW b, a.votes = b.votes, a.root_slot = b.root_slot, a.last_vote = b.last_vote
    PROVE  /\ \A c : Keeps(a, c) <=> Keeps(b, c)
           /\ OneChain(a) <=> OneChain(b)
           /\ \A x, p : Covered(a, x, p) <=> Covered(b, x, p)
BY Zenon DEF Keeps, OneChain, Covered, LastOf

LEMMA StoreLock ==
    ASSUME SavedInv, RootInv, KeptInv, store
    PROVE  KeptInv'
<1>1. PICK op : op = queue[1]
  BY Zenon
<1>2. Towers(saved, tower, queue, sending)
  BY TowersTyped, Zenon
<1>3. /\ queue # <<>> /\ Len(queue) \in Nat /\ 1 \in 1..Len(queue) /\ queue \in Seq(VoteOpType)
      /\ op \in VoteOpType /\ op.tower \in TowerType /\ op.tower.root_slot \in Slots
      /\ saved \in TowerType /\ tower \in TowerType /\ tower.root_slot \in Slots
  <2>1. queue # <<>> /\ Len(queue) \in Nat /\ Len(queue) # 0
    BY <1>2, Zenon DEF store, Towers
  <2>2. 1 \in 1..Len(queue)
    BY <2>1
  <2> QED BY <1>1, <1>2, <2>1, <2>2, Zenon DEF Towers
<1>4. /\ saved' = IF op.push THEN [op.tower EXCEPT !.stray = None] ELSE saved
      /\ sending' = op /\ queue' = Tail(queue)
      /\ UNCHANGED <<frozen, active, root, tower, promised, durable>>
  BY <1>1, Zenon DEF store, memory, observed
<1>5. op.push => /\ saved'.votes = op.tower.votes /\ saved'.root_slot = op.tower.root_slot
                 /\ saved'.last_vote = op.tower.last_vote
  BY <1>3, <1>4, Zenon DEF TowerType
<1>6. /\ op.push => op.tower.signed
      /\ ~op.push /\ op.tower.signed => op.tower.last_vote = saved.last_vote
  BY <1>1, <1>3, Zenon DEF SavedInv, QueueInv, Before, Signed
<1>7. /\ Len(queue') = Len(queue) - 1 /\ queue' \in Seq(VoteOpType)
      /\ \A i \in 1..Len(queue') : queue'[i] = queue[i + 1]
  BY <1>3, <1>4, HeadTailProperties, Zenon
<1>8. ASSUME NEW i \in 1..Len(queue')
      PROVE  /\ i \in Nat /\ i \in 1..Len(queue) /\ i + 1 \in 1..Len(queue) /\ i + 1 # 1 /\ (i + 1) - 1 = i
             /\ 1 < i + 1 /\ (i # 1 => i - 1 \in 1..Len(queue') /\ (i - 1) + 1 = i)
  BY <1>3, <1>7
\* The promises of the file are those of op, or the same as before.
<1>9. /\ \A c : Keeps(saved', c) <=> IF op.push THEN Keeps(op.tower, c) ELSE Keeps(saved, c)
      /\ \A d : Covers(saved', d) <=> IF op.push THEN Covers(op.tower, d) ELSE Covers(saved, d)
  <2>1. CASE op.push
    BY <1>5, <2>1, SamePromises, Zenon DEF Covers
  <2>2. CASE ~op.push
    BY <1>4, <2>2, Zenon
  <2> QED BY <2>1, <2>2, Zenon
<1>10. Order(saved', tower', queue', sending')
  <2>1. /\ Keeps(op.tower, tower) /\ Keeps(saved, tower)
        /\ \A i \in 1..Len(queue) : Keeps(saved, queue[i].tower) /\ Keeps(queue[i].tower, tower)
        /\ \A i, j \in 1..Len(queue) : i < j => Keeps(queue[i].tower, queue[j].tower)
    BY <1>1, <1>3, Zenon DEF KeptInv, Order
  <2>2. ASSUME NEW i \in 1..Len(queue')
        PROVE  /\ Keeps(saved', queue'[i].tower) /\ Keeps(queue'[i].tower, tower)
               /\ Keeps(op.tower, queue'[i].tower)
    <3>1. queue'[i] = queue[i + 1] /\ i + 1 \in 1..Len(queue) /\ 1 < i + 1
      BY <1>7, <1>8, Zenon
    <3>2. Keeps(op.tower, queue[i + 1].tower)
      BY <1>1, <1>3, <2>1, <3>1, Zenon
    <3> QED BY <1>9, <2>1, <3>1, <3>2, Zenon
  <2>3. ASSUME NEW i \in 1..Len(queue'), NEW j \in 1..Len(queue'), i < j
        PROVE  Keeps(queue'[i].tower, queue'[j].tower)
    <3>1. i + 1 \in 1..Len(queue) /\ j + 1 \in 1..Len(queue) /\ i + 1 < j + 1
      BY <1>3, <1>7, <2>3
    <3> QED BY <1>7, <2>1, <3>1, Zenon
  <2>4. Keeps(saved', tower)
    BY <1>9, <2>1, Zenon
  <2> QED BY <1>4, <2>1, <2>2, <2>3, <2>4, Zenon DEF Order
<1>11. op.tower.signed => Range(op.tower.votes) \subseteq Range(saved'.votes)
  <2>1. Shape(op, saved)
    BY <1>1, <1>3, Zenon DEF KeptInv, Shapes, TowerBefore
  <2> QED BY <1>4, <1>5, <2>1, Zenon DEF Shape
<1>12. saved' = NoTower \/ OneChain(saved')
  <2>1. CASE op.push
    <3>1. OneChain(op.tower)
      BY <1>1, <1>3, <2>1, Zenon DEF KeptInv, Shapes, Shape
    <3> QED BY <1>5, <2>1, <3>1, SamePromises, Zenon
  <2>2. CASE ~op.push
    BY <1>4, <2>2, Zenon DEF KeptInv, Shapes
  <2> QED BY <2>1, <2>2, Zenon
<1>13. ASSUME NEW i \in 1..Len(queue') PROVE Shape(queue'[i], TowerBefore(saved', queue', i))
  <2>1. /\ queue'[i] = queue[i + 1] /\ i + 1 \in 1..Len(queue)
        /\ Shape(queue[i + 1], queue[i].tower)
    <3>1. Shape(queue[i + 1], TowerBefore(saved, queue, i + 1))
      BY <1>8, Zenon DEF KeptInv, Shapes
    <3> QED BY <1>7, <1>8, <3>1, Zenon DEF TowerBefore
  <2>2. CASE i = 1
    <3>1. TowerBefore(saved', queue', i) = saved' /\ queue[i].tower = op.tower
      BY <1>1, <2>2, Zenon DEF TowerBefore
    <3>2. ~queue[i + 1].push /\ queue[i + 1].tower.signed => op.tower.signed
      <4>1. Signed(queue[i + 1], Before(i + 1), BeforeSigned(i + 1))
        BY <2>1, Zenon DEF SavedInv, QueueInv
      <4>2. BeforeSigned(i + 1) = queue[i].tower.signed
        BY <1>8, Zenon DEF BeforeSigned
      <4> QED BY <3>1, <4>1, <4>2, Zenon DEF Signed
    <3> QED BY <1>11, <2>1, <3>1, <3>2, Zenon DEF Shape
  <2>3. CASE i # 1
    <3>1. queue'[i - 1] = queue[i]
      BY <1>7, <1>8, <2>3, Zenon
    <3>2. TowerBefore(saved', queue', i) = queue[i].tower
      BY <2>3, <3>1, Zenon DEF TowerBefore
    <3> QED BY <2>1, <3>2, Zenon
  <2> QED BY <2>2, <2>3, Zenon
\* The newest tower outside memory is the same, or was op and is the file now.
<1>14. /\ NewestTower(saved, queue) = queue[Len(queue)].tower
       /\ queue' # <<>> => NewestTower(saved', queue') = NewestTower(saved, queue)
       /\ queue' = <<>> => NewestTower(saved', queue') = saved' /\ NewestTower(saved, queue) = op.tower
  <2>1. NewestTower(saved, queue) = queue[Len(queue)].tower
    BY <1>3, Zenon DEF NewestTower
  <2>2. ASSUME queue' = <<>>
        PROVE  NewestTower(saved', queue') = saved' /\ NewestTower(saved, queue) = op.tower
    <3>1. Len(queue) = 1
      BY <1>3, <1>7, <2>2, EmptySeq
    <3> QED BY <1>1, <2>1, <2>2, <3>1, Zenon DEF NewestTower
  <2>3. ASSUME queue' # <<>> PROVE NewestTower(saved', queue') = NewestTower(saved, queue)
    <3>1. Len(queue') \in 1..Len(queue') /\ Len(queue') + 1 = Len(queue)
      BY <1>3, <1>7, <2>3, EmptySeq
    <3>2. queue'[Len(queue')] = queue[Len(queue)]
      BY <1>7, <3>1, Zenon
    <3> QED BY <2>1, <2>3, <3>2, Zenon DEF NewestTower
  <2> QED BY <2>1, <2>2, <2>3, Zenon
<1>15. tower.votes # <<>> /\ tower.signed /\ queue' = <<>> => op.tower.signed
  <2>1. tower.votes # <<>> /\ tower.signed => NewestSigned
    BY Zenon DEF SavedInv, TowerInv
  <2>2. NewestSigned = queue[Len(queue)].tower.signed
    BY <1>3, Zenon DEF NewestSigned
  <2>3. queue' = <<>> => queue[Len(queue)].tower = op.tower
    BY <1>14, Zenon
  <2> QED BY <2>1, <2>2, <2>3, Zenon
<1>16. IF tower.signed THEN Range(tower.votes) \subseteq Range(NewestTower(saved', queue').votes) ELSE OneChain(tower)
  <2>1. IF tower.signed THEN Range(tower.votes) \subseteq Range(NewestTower(saved, queue).votes) ELSE OneChain(tower)
    BY Zenon DEF KeptInv, Shapes
  <2>2. tower.votes = <<>> => Range(tower.votes) = {}
    BY DEF Range
  <2> QED BY <1>11, <1>14, <1>15, <2>1, <2>2, Zenon
<1>17. Shapes(saved', tower', queue', sending')
  <2>1. IF op.tower.signed
        THEN op.tower.last_vote = saved'.last_vote /\ Range(op.tower.votes) \subseteq Range(saved'.votes)
        ELSE OneChain(op.tower)
    <3>1. CASE op.tower.signed
      BY <1>4, <1>5, <1>6, <1>11, <3>1, Zenon
    <3>2. CASE ~op.tower.signed
      BY <1>1, <1>3, <3>2, Zenon DEF KeptInv, Shapes, Shape
    <3> QED BY <3>1, <3>2, Zenon
  <2>2. op.tower.votes # <<>> /\ Sound(op.tower)
    BY <1>1, <1>3, Zenon DEF KeptInv, Shapes, Shape, RootInv
  <2> QED BY <1>4, <1>12, <1>13, <1>16, <2>1, <2>2, Zenon DEF Shapes
<1>18. op.tower.signed => Covers(saved', promised)
  <2>1. ~op.push /\ op.tower.signed => Repeats(tower, queue, sending)
    BY <1>1, <1>3, Zenon DEF Repeats
  <2> QED BY <1>1, <1>3, <1>9, <2>1, Zenon DEF KeptInv, Promises
<1>19. Repeats(tower, queue', op) => op.tower.signed
  <2>1. ASSUME queue' # <<>>, ~queue'[1].push, queue'[1].tower.signed PROVE op.tower.signed
    <3>1. 1 \in 1..Len(queue') /\ 1 + 1 \in 1..Len(queue) /\ 1 + 1 # 1 /\ (1 + 1) - 1 = 1
      BY <1>3, <1>7, <2>1, EmptySeq
    <3>2. queue'[1] = queue[1 + 1]
      BY <1>7, <3>1, Zenon
    <3>3. Signed(queue[1 + 1], Before(1 + 1), BeforeSigned(1 + 1))
      BY <3>1, Zenon DEF SavedInv, QueueInv
    <3>4. BeforeSigned(1 + 1) = queue[1].tower.signed
      BY <3>1, Zenon DEF BeforeSigned
    <3> QED BY <1>1, <2>1, <3>2, <3>3, <3>4, Zenon DEF Signed
  <2> QED BY <1>15, <2>1, Zenon DEF Repeats
<1>20. Promises(saved', tower', queue', sending', promised', durable')
  <2>1. Covers(saved', durable)
    <3>1. Covers(saved, durable) /\ durable \in [Slots -> Int]
      BY Zenon DEF KeptInv, Promises
    <3>2. Keeps(saved, op.tower)
      BY <1>1, <1>3, Zenon DEF KeptInv, Order
    <3>3. Covers(op.tower, durable)
      BY <1>3, <3>1, <3>2, CoversLater, Zenon
    <3> QED BY <1>9, <3>1, <3>3, Zenon
  <2>2. \A i \in 1..Len(queue') : Covers(queue'[i].tower, promised)
    BY <1>7, <1>8, Zenon DEF KeptInv, Promises
  <2>3. Covers(op.tower, promised)
    BY <1>1, <1>3, Zenon DEF KeptInv, Promises
  <2>4. Repeats(tower, queue', op) => Covers(saved', promised)
    BY <1>18, <1>19, Zenon
  <2> QED BY <1>4, <2>1, <2>2, <2>3, <2>4, Zenon DEF KeptInv, Promises
<1>21. ForksInv'
  BY <1>4, Zenon DEF KeptInv, ForksInv, Chain
<1> QED BY <1>10, <1>17, <1>20, <1>21, KeptNext, Zenon

(* A promise is an earlier one or the lockout of a vote that is sent.      *)
LEMMA PromiseOf ==
    ASSUME NEW t \in TowerType, NEW p \in [Slots -> Int],
           \A v \in Range(t.votes) : v.confirmation_count \in 1..MAX_LOCKOUT_HISTORY,
           NEW s \in Slots
    PROVE  LET q == Promise(p, t)[s]
           IN /\ q \in Int
              /\ \/ q = p[s]
                 \/ q \in Nat /\ \E v \in Range(t.votes) : v.slot = s /\ q = last_locked_out_slot(v)
<1> DEFINE V == {v \in Range(t.votes) : v.slot = s}
           S == {p[s]} \cup {last_locked_out_slot(v) : v \in V}
           top == s + 2 ^ MAX_LOCKOUT_HISTORY
           lo == IF p[s] < 0 THEN p[s] ELSE 0
           hi == IF p[s] < top THEN top ELSE p[s]
<1>1. s \in Nat /\ p[s] \in Int /\ MAX_LOCKOUT_HISTORY \in Nat
  BY TowerAssumption
<1>2. \A n \in Nat : 2 ^ n \in Int
  OBVIOUS
<1>3. top \in Int /\ 0 <= top
  <2>1. 0 \in 0..MAX_LOCKOUT_HISTORY /\ MAX_LOCKOUT_HISTORY \in 0..MAX_LOCKOUT_HISTORY /\ 0 <= MAX_LOCKOUT_HISTORY
    BY <1>1
  <2>2. 2 ^ 0 <= 2 ^ MAX_LOCKOUT_HISTORY
    BY <2>1, PowerAssumption, Zenon
  <2>3. 2 ^ 0 = 1 /\ 2 ^ MAX_LOCKOUT_HISTORY \in Int
    BY <1>1, <1>2
  <2> QED BY <1>1, <2>2, <2>3
<1>4. ASSUME NEW v \in V PROVE last_locked_out_slot(v) \in 0..top
  <2>1. PICK c \in 0..MAX_LOCKOUT_HISTORY : c = v.confirmation_count
    BY <1>1
  <2>2. 0 \in 0..MAX_LOCKOUT_HISTORY /\ MAX_LOCKOUT_HISTORY \in 0..MAX_LOCKOUT_HISTORY
        /\ 0 <= c /\ c <= MAX_LOCKOUT_HISTORY /\ c \in Nat
    BY <1>1, SMTT(60)
  <2>3. 2 ^ 0 <= 2 ^ c /\ 2 ^ c <= 2 ^ MAX_LOCKOUT_HISTORY
    BY <2>2, PowerAssumption, Zenon
  <2>4. 2 ^ 0 = 1 /\ 2 ^ c \in Int /\ 2 ^ MAX_LOCKOUT_HISTORY \in Int
    BY <1>1, <1>2, <2>2
  <2>5. last_locked_out_slot(v) = s + 2 ^ c
    BY <2>1 DEF last_locked_out_slot
  <2> QED BY <1>1, <2>3, <2>4, <2>5
<1> HIDE DEF top
<1>5. lo \in Int /\ hi \in Int /\ p[s] \in lo..hi /\ \A x \in 0..top : x \in lo..hi
  BY <1>1, <1>3
<1> HIDE DEF lo, hi, V
<1>6. S \in SUBSET (lo..hi) /\ S # {}
  BY <1>4, <1>5
<1> HIDE DEF S
<1>7. Max(S) \in S
  BY <1>5, <1>6, MaxOf, Zenon
<1>8. Promise(p, t)[s] = Max(S)
  BY DEF Promise, S, V
<1>9. Max(S) \in Int
  <2>1. Max(S) \in lo..hi
    BY <1>6, <1>7, Zenon
  <2> QED BY <1>5, <2>1
<1>10. \A v \in V : last_locked_out_slot(v) \in Nat
  BY <1>3, <1>4
<1> QED BY <1>7, <1>8, <1>9, <1>10, Zenon DEF S, V

(* What covers the votes of a tower covers the promises after it is sent.  *)
LEMMA CoversSent ==
    ASSUME NEW t \in TowerType, NEW p \in [Slots -> Int],
           \A v \in Range(t.votes) : v.confirmation_count \in 1..MAX_LOCKOUT_HISTORY,
           NEW a, Covers(a, p),
           \A v \in Range(t.votes) : Covered(a, v.slot, last_locked_out_slot(v))
    PROVE  Covers(a, Promise(p, t))
<1> SUFFICES ASSUME NEW x \in Slots, Promise(p, t)[x] # None PROVE Covered(a, x, Promise(p, t)[x])
  BY Zenon DEF Covers
<1>1. \/ Promise(p, t)[x] = p[x]
      \/ \E v \in Range(t.votes) : v.slot = x /\ Promise(p, t)[x] = last_locked_out_slot(v)
  BY PromiseOf, Zenon
<1> QED BY <1>1, Zenon DEF Covers

LEMMA PromiseType ==
    ASSUME NEW t \in TowerType, NEW p \in [Slots -> Int],
           \A v \in Range(t.votes) : v.confirmation_count \in 1..MAX_LOCKOUT_HISTORY
    PROVE  Promise(p, t) \in [Slots -> Int]
<1>1. \A x \in Slots : Promise(p, t)[x] \in Int
  BY PromiseOf, Zenon
<1>2. Promise(p, t) = [x \in Slots |-> Promise(p, t)[x]]
  BY Zenon DEF Promise
<1> QED BY <1>1, <1>2, Zenon

LEMMA SoundCounts ==
    ASSUME NEW t \in TowerType, Sound(t)
    PROVE  \A v \in Range(t.votes) : v.confirmation_count \in 1..MAX_LOCKOUT_HISTORY
<1> SUFFICES ASSUME NEW v \in Range(t.votes) PROVE v.confirmation_count \in 1..MAX_LOCKOUT_HISTORY
  BY Zenon
<1>1. PICK i \in 1..Len(t.votes) : v = t.votes[i]
  BY RangeVotes, Zenon
<1> QED BY <1>1, Zenon DEF Sound

LEMMA SendLock ==
    ASSUME SavedInv, RootInv, KeptInv, send_transaction
    PROVE  KeptInv'
<1>1. /\ UNCHANGED <<saved, frozen, active, root, tower, queue>> /\ sending # NoOp /\ sending' = NoOp
      /\ promised' = Promise(promised, sending.tower)
      /\ durable' = IF sending.tower.signed THEN Promise(durable, sending.tower) ELSE durable
  BY Zenon DEF send_transaction, disk, memory
<1>2. PICK t : t = sending.tower
  BY Zenon
<1>3. /\ t \in TowerType /\ saved \in TowerType
      /\ promised \in [Slots -> Int] /\ durable \in [Slots -> Int]
      /\ \A v \in Range(t.votes) : v.confirmation_count \in 1..MAX_LOCKOUT_HISTORY
  <2>1. t \in TowerType /\ saved \in TowerType
    BY <1>2, Zenon DEF RootInv, Types, VoteOpType
  <2>2. promised \in [Slots -> Int] /\ durable \in [Slots -> Int]
    BY Zenon DEF KeptInv, Promises
  <2>3. Sound(t)
    BY <1>1, <1>2, Zenon DEF KeptInv, Shapes
  <2> QED BY <2>1, <2>2, <2>3, SoundCounts, Zenon
<1>4. ASSUME NEW a, Keeps(t, a), Covers(a, promised) PROVE Covers(a, promised')
  <2>1. \A v \in Range(t.votes) : Covered(a, v.slot, last_locked_out_slot(v))
    BY <1>4, Zenon DEF Keeps
  <2> QED BY <1>1, <1>2, <1>3, <1>4, <2>1, CoversSent, Zenon
<1>5. t.signed => \A v \in Range(t.votes) : Covered(saved, v.slot, last_locked_out_slot(v))
  <2>1. t.signed => Range(t.votes) \subseteq Range(saved.votes)
    BY <1>1, <1>2, Zenon DEF KeptInv, Shapes
  <2>2. ASSUME NEW v \in Range(saved.votes) PROVE Covered(saved, v.slot, last_locked_out_slot(v))
    BY <1>3, KeepsItself, Zenon DEF Keeps
  <2> QED BY <2>1, <2>2, Zenon
<1>6. Order(saved', tower', queue', sending') /\ Shapes(saved', tower', queue', sending')
  BY <1>1, Zenon DEF KeptInv, Order, Shapes
<1>7. promised' \in [Slots -> Int] /\ durable' \in [Slots -> Int]
  BY <1>1, <1>2, <1>3, PromiseType, Zenon
<1>8. Covers(saved, durable')
  <2>1. Covers(saved, durable)
    BY Zenon DEF KeptInv, Promises
  <2>2. t.signed => Covers(saved, Promise(durable, t))
    BY <1>3, <1>5, <2>1, CoversSent, Zenon
  <2> QED BY <1>1, <1>2, <2>1, <2>2, Zenon
<1>9. Covers(tower, promised') /\ \A i \in 1..Len(queue) : Covers(queue[i].tower, promised')
  BY <1>1, <1>2, <1>4, Zenon DEF KeptInv, Order, Promises
<1>10. Repeats(tower, queue, NoOp) => Covers(saved, promised')
  <2>1. ASSUME queue # <<>>, ~queue[1].push, queue[1].tower.signed PROVE t.signed
    <3>1. 1 \in 1..Len(queue)
      BY <2>1, EmptySeq DEF RootInv, Types
    <3>2. Signed(queue[1], Before(1), BeforeSigned(1))
      BY <3>1, Zenon DEF SavedInv, QueueInv
    <3> QED BY <1>2, <2>1, <3>2, Zenon DEF Signed, BeforeSigned
  <2>2. ASSUME queue = <<>>, tower.votes # <<>>, tower.signed PROVE t.signed
    BY <1>2, <2>2, Zenon DEF SavedInv, TowerInv, NewestSigned
  <2>3. Repeats(tower, queue, NoOp) => t.signed
    BY <2>1, <2>2, Zenon DEF Repeats
  <2>4. t.signed => Covers(saved, promised)
    BY <1>1, <1>2, Zenon DEF KeptInv, Promises, Repeats
  <2>5. t.signed => Covers(saved, Promise(promised, t))
    BY <1>3, <1>5, <2>4, CoversSent, Zenon
  <2> QED BY <1>1, <1>2, <2>3, <2>5, Zenon
<1>11. Promises(saved', tower', queue', sending', promised', durable')
  BY <1>1, <1>7, <1>8, <1>9, <1>10, Zenon DEF Promises
<1>12. ForksInv'
  BY <1>1, Zenon DEF KeptInv, ForksInv, Chain
<1> QED BY <1>6, <1>11, <1>12, KeptNext, Zenon

(* A bank is created on a frozen parent, and freezes.                      *)
LEMMA BanksForks ==
    ASSUME RootInv, ForksInv, NEW s \in Slots,
           \/ generate_new_bank_forks(s) \/ replay_active_banks(s) \/ select_vote_and_reset_forks(s)
    PROVE  ForksInv'
<1>1. UNCHANGED <<root, tower>> /\ root \in Slots
  BY TowerAssumption, Zenon DEF RootInv, generate_new_bank_forks, replay_active_banks,
                                select_vote_and_reset_forks, memory
<1>2. ASSUME NEW b \in frozen' \cup active' PROVE root \in Chain(b)
  <2>1. CASE generate_new_bank_forks(s)
    <3>1. frozen' = frozen /\ active' = active \cup {s} /\ s > root /\ Parent[s] \in frozen
      BY <2>1, Zenon DEF generate_new_bank_forks
    <3>2. s # 0
      <4>1. root \in Nat
        BY <1>1, TowerAssumption, Zenon
      <4> QED BY <3>1, <4>1
    <3>3. root \in Chain(s)
      BY <3>1, <3>2, ChainParent, Zenon DEF ForksInv
    <3> QED BY <1>2, <3>1, <3>3, Zenon DEF ForksInv
  <2>2. CASE replay_active_banks(s)
    <3>1. frozen' \cup active' \subseteq frozen \cup active
      BY <2>2, Zenon DEF replay_active_banks
    <3> QED BY <1>2, <3>1, Zenon DEF ForksInv
  <2>3. CASE select_vote_and_reset_forks(s)
    BY <1>2, <2>3, Zenon DEF select_vote_and_reset_forks, memory, ForksInv
  <2> QED BY <2>1, <2>2, <2>3, Zenon
<1> QED BY <1>1, <1>2, Zenon DEF ForksInv, Chain

LEMMA BanksLock ==
    ASSUME SavedInv, RootInv, KeptInv, NEW s \in Slots,
           \/ generate_new_bank_forks(s) \/ replay_active_banks(s) \/ select_vote_and_reset_forks(s)
    PROVE  KeptInv'
<1>1. UNCHANGED <<saved, tower, queue, sending, promised, durable>>
  BY Zenon DEF generate_new_bank_forks, replay_active_banks, select_vote_and_reset_forks,
               disk, memory, observed
<1>2. ForksInv'
  BY BanksForks, Zenon DEF KeptInv
<1> QED BY <1>1, <1>2, SameKept, Zenon

(* The tower a restart makes of the saved one keeps its promises: a vote   *)
(* that goes is an ancestor of the root.                                   *)
LEMMA RestoredKeeps ==
    ASSUME NEW t \in TowerType, Stored(t), OneChain(t), NEW replayed \in Supermajority,
           NEW u, u = adjust_lockouts_after_replay(t, replayed).tower,
           adjust_lockouts_after_replay(t, replayed).ok
    PROVE  /\ u \in TowerType /\ u.root_slot \in Slots /\ u.signed = t.signed
           /\ Keeps(t, u) /\ Range(u.votes) \subseteq Range(t.votes)
           /\ \/ u.root_slot = replayed
              \/ /\ replayed <= u.root_slot
                 /\ \A v \in Range(u.votes) : u.root_slot \in Chain(v.slot)
<1>1. /\ t.votes # <<>> /\ Last_Is(t) /\ Sound(t) /\ t.root_slot \in Supermajority
      /\ replayed \in Slots /\ t.root_slot \in Slots /\ Slots \subseteq Nat
  BY TowerAssumption, Zenon DEF Stored, Sound
<1>2. /\ u \in TowerType /\ u.signed = t.signed
      /\ u.votes # <<>> => u.last_vote = t.last_vote
      /\ u.votes = <<>> => t.last_vote <= u.root_slot
  BY <1>1, AdjustAfterReplay
<1>3. /\ u.root_slot = IF t.root_slot <= replayed THEN replayed ELSE t.root_slot
      /\ \E m \in Nat : Suffix(t, u.votes, m) /\ Matches(t, Chain(replayed) \cup {u.root_slot}, m)
  BY <1>1, AfterReplayShape, ZenonT(60)
<1>4. PICK m \in Nat : Suffix(t, u.votes, m) /\ Matches(t, Chain(replayed) \cup {u.root_slot}, m)
  BY <1>3, Zenon
<1>5. /\ u.root_slot \in Supermajority /\ u.root_slot \in Slots
      /\ replayed <= u.root_slot /\ t.root_slot <= u.root_slot
  <2>1. replayed \in Nat /\ t.root_slot \in Nat
    BY <1>1, Zenon
  <2>2. CASE t.root_slot <= replayed
    <3>1. u.root_slot = replayed
      BY <1>3, <2>2, Zenon
    <3> QED BY <1>1, <2>1, <2>2, <3>1, SMTT(60)
  <2>3. CASE ~(t.root_slot <= replayed)
    <3>1. u.root_slot = t.root_slot
      BY <1>3, <2>3, Zenon
    <3> QED BY <1>1, <2>1, <2>3, <3>1, SMTT(60)
  <2> QED BY <2>2, <2>3, Zenon
<1>6. t.root_slot \in Chain(u.root_slot) /\ replayed \in Chain(u.root_slot)
  BY <1>1, <1>5, SupermajorityChain, Zenon
<1>7. Chain(replayed) \cup {u.root_slot} \subseteq Chain(u.root_slot)
  BY <1>5, <1>6, ChainTransitive DEF Chain
<1>8. LastOf(t) <= LastOf(u)
  <2>1. t.last_vote \in Int
    BY Zenon DEF TowerType
  <2>2. LastOf(t) = t.last_vote
    BY <1>1, Zenon DEF LastOf
  <2>3. LastOf(u) = t.last_vote \/ (LastOf(u) = u.root_slot /\ t.last_vote <= u.root_slot)
    BY <1>2, Zenon DEF LastOf
  <2> QED BY <2>1, <2>2, <2>3, SMTT(60)
<1>9. ASSUME NEW w \in Range(u.votes) PROVE w \in Range(t.votes)
  <2>1. PICK i \in 1..Len(u.votes) : w = u.votes[i]
    BY <1>2, RangeVotes, Zenon
  <2>2. m + i - 1 \in 1..Len(t.votes)
    <3>1. m \in 1..(Len(t.votes) + 1) /\ Len(u.votes) = Len(t.votes) - m + 1 /\ Len(t.votes) \in Nat
      BY <1>4, LenProperties, Zenon DEF Suffix, TowerType
    <3> QED BY <3>1
  <2>3. w = t.votes[m + i - 1]
    BY <1>4, <2>1, Zenon DEF Suffix
  <2> QED BY <2>2, <2>3, RangeVotes, Zenon
<1>10. ASSUME NEW v \in Range(t.votes) PROVE Covered(u, v.slot, last_locked_out_slot(v))
  <2>1. PICK i \in 1..Len(t.votes) : v = t.votes[i]
    BY RangeVotes, Zenon
  <2>2. m \in 1..(Len(t.votes) + 1) /\ Len(u.votes) = Len(t.votes) - m + 1 /\ Len(t.votes) \in Nat
    BY <1>4, LenProperties DEF Suffix, TowerType
  <2>3. CASE i < m
    <3>1. i \in 1..(m - 1)
      BY <2>2, <2>3, SMTT(60)
    <3>2. v.slot \in Chain(u.root_slot)
      BY <1>4, <1>7, <2>1, <3>1, Zenon DEF Matches
    <3> QED BY <1>5, <3>2 DEF Covered
  <2>4. CASE ~(i < m)
    <3>1. PICK j \in Nat : j = i - m + 1
      BY <2>2, <2>4, SMTT(60)
    <3>2. j \in 1..Len(u.votes) /\ m + j - 1 = i
      BY <2>2, <2>4, <3>1, SMTT(60)
    <3>3. u.votes[j] = v
      BY <1>4, <2>1, <3>2, ZenonT(60) DEF Suffix
    <3>4. v \in Range(u.votes) /\ last_locked_out_slot(v) \in Int
      BY <1>2, <3>2, <3>3, RangeVotes, ZenonT(60)
    <3>5. last_locked_out_slot(v) <= last_locked_out_slot(v)
      BY <3>4
    <3> QED BY <3>4, <3>5, Zenon DEF Covered
  <2> QED BY <2>3, <2>4, Zenon
<1>11. Keeps(t, u)
  BY <1>6, <1>8, <1>10 DEF Keeps
<1>12. u.root_slot # replayed => \A v \in Range(u.votes) : u.root_slot \in Chain(v.slot)
  <2> SUFFICES ASSUME u.root_slot # replayed, NEW v \in Range(u.votes) PROVE u.root_slot \in Chain(v.slot)
    BY Zenon
  <2>1. u.root_slot = t.root_slot
    BY <1>3, ZenonT(60)
  <2>2. PICK i \in 1..Len(t.votes) : v = t.votes[i]
    BY <1>9, RangeVotes, ZenonT(60)
  <2>3. t.root_slot <= v.slot
    BY <1>4, <2>2 DEF Matches
  <2>4. t.root_slot \in Chain(t.last_vote) /\ v.slot \in Chain(t.last_vote) /\ t.last_vote \in Slots
    BY <1>9 DEF OneChain
  <2> QED BY <2>1, <2>3, <2>4, ChainLinear, Zenon
<1> QED BY <1>2, <1>5, <1>9, <1>11, <1>12, ZenonT(60)

LEMMA RestartLock ==
    ASSUME SavedInv, RootInv, KeptInv, NEW kept \in ledger, NEW keptRoot \in roots,
           restart(kept, keptRoot), panicked' = "no"
    PROVE  KeptInv'
<1>1. PICK replayed \in Supermajority :
              /\ root' = replayed
              /\ frozen' = {b \in ledger' : b = replayed \/ replayed \in Above[b]} /\ active' = {}
              /\ tower' = IF saved = NoTower THEN NewTower(replayed)
                          ELSE adjust_lockouts_after_replay(saved, replayed).tower
              /\ panicked' = IF saved # NoTower /\ ~adjust_lockouts_after_replay(saved, replayed).ok
                             THEN "restore" ELSE "no"
              /\ queue' = <<>> /\ sending' = NoOp /\ promised' = durable
              /\ UNCHANGED <<saved, durable>>
  BY RestartReplays, Zenon
<1>2. "restore" # "no"
  OBVIOUS
<1>3. /\ tower' \in TowerType /\ tower'.root_slot \in Slots /\ tower'.signed
      /\ Keeps(saved, tower') /\ Range(tower'.votes) \subseteq Range(saved.votes)
      /\ \/ tower'.root_slot = replayed
         \/ /\ replayed <= tower'.root_slot
            /\ \A v \in Range(tower'.votes) : tower'.root_slot \in Chain(v.slot)
  <2>1. CASE saved = NoTower
    <3>1. tower' = NewTower(replayed) /\ replayed \in Nat /\ replayed \in Slots
      BY <1>1, <2>1, TowerAssumption, Zenon
    <3>2. /\ tower'.votes = <<>> /\ tower'.root_slot = replayed /\ tower'.signed
          /\ saved.votes = <<>> /\ saved.root_slot = -1
      BY <2>1, <3>1 DEF NewTower, NoTower, None
    <3>3. Range(<<>>) = {} /\ -1 \notin Slots /\ replayed \in Int
      BY <3>1, TowerAssumption, SMTT(60) DEF Range
    <3>4. LastOf(saved) <= LastOf(tower')
      BY <3>1, <3>2, SMTT(60) DEF LastOf
    <3>5. tower' \in TowerType
      BY <3>1, <3>3, NewTowerType, Zenon
    <3> QED BY <3>1, <3>2, <3>3, <3>4, <3>5, Zenon DEF Keeps
  <2>2. CASE saved # NoTower
    <3>1. saved \in TowerType /\ Stored(saved) /\ OneChain(saved) /\ saved.signed
      BY <2>2, Zenon DEF RootInv, Types, KeptInv, Shapes, SavedInv, TowerInv
    <3>2. /\ tower' = adjust_lockouts_after_replay(saved, replayed).tower
          /\ adjust_lockouts_after_replay(saved, replayed).ok
      BY <1>1, <1>2, <2>2, Zenon
    <3>3. /\ tower' \in TowerType /\ tower'.root_slot \in Slots /\ tower'.signed = saved.signed
          /\ Keeps(saved, tower') /\ Range(tower'.votes) \subseteq Range(saved.votes)
          /\ \/ tower'.root_slot = replayed
             \/ /\ replayed <= tower'.root_slot
                /\ \A v \in Range(tower'.votes) : tower'.root_slot \in Chain(v.slot)
      BY <3>1, <3>2, RestoredKeeps, Zenon
    <3> QED BY <3>1, <3>3, Zenon
  <2> QED BY <2>1, <2>2, Zenon
<1>4. Len(queue') = 0 /\ 1..Len(queue') = {}
  BY <1>1, EmptySeq
<1>5. Order(saved', tower', queue', sending')
  BY <1>1, <1>3, <1>4, Zenon DEF Order
<1>6. Shapes(saved', tower', queue', sending')
  BY <1>1, <1>3, <1>4, Zenon DEF KeptInv, Shapes, NewestTower
<1>7. Promises(saved', tower', queue', sending', promised', durable')
  <2>1. Covers(saved, durable) /\ durable \in [Slots -> Int] /\ saved \in TowerType
    BY Zenon DEF KeptInv, Promises, RootInv, Types
  <2>2. Covers(tower', durable)
    BY <1>3, <2>1, CoversLater, Zenon
  <2> QED BY <1>1, <1>4, <2>1, <2>2, Zenon DEF Promises
<1>8. ForksInv'
  BY <1>1, <1>3, Zenon DEF ForksInv, Chain
<1> QED BY <1>5, <1>6, <1>7, <1>8, KeptNext, Zenon

LEMMA InitLock == Init => LockInv
<1> SUFFICES ASSUME Init PROVE LockInv
  OBVIOUS
<1>1. SavedInv /\ RootInv
  BY InitSaved, InitRoot, Zenon
<1>2. /\ queue = <<>> /\ Len(queue) = 0 /\ saved = NoTower /\ sending = NoOp
      /\ tower = NewTower(0) /\ root = 0 /\ frozen = {0} /\ active = {}
      /\ promised = [s \in Slots |-> None] /\ durable = [s \in Slots |-> None]
  BY EmptySeq, Zenon DEF Init
<1>3. 1..Len(queue) = {} /\ None \in Int
  BY <1>2, NoOpType
<1>4. /\ tower.votes = <<>> /\ tower.root_slot = 0 /\ saved.votes = <<>> /\ saved.root_slot = -1
      /\ tower.signed
  BY <1>2, Zenon DEF NewTower, NoTower, None
<1>5. Range(<<>>) = {} /\ -1 \notin Slots
  BY TowerAssumption, SMTT(60) DEF Range
<1>6. LastOf(saved) <= LastOf(tower)
  BY <1>4, SMTT(60) DEF LastOf
<1>7. Order(saved, tower, queue, sending)
  BY <1>2, <1>3, <1>4, <1>5, <1>6, Zenon DEF Order, Keeps
<1>8. Shapes(saved, tower, queue, sending)
  BY <1>2, <1>3, <1>4, <1>5, Zenon DEF Shapes
<1>9. Promises(saved, tower, queue, sending, promised, durable)
  <2>1. \A x \in Slots : promised[x] = None /\ durable[x] = None
    BY <1>2, Zenon
  <2> QED BY <1>2, <1>3, <2>1, Zenon DEF Promises, Covers
<1>10. ForksInv
  BY <1>2, Zenon DEF ForksInv, Chain, NewTower
<1> QED BY <1>1, <1>7, <1>8, <1>9, <1>10, Zenon DEF LockInv, KeptInv

LEMMA LockInvariant ==
    ASSUME LockInv, [Next]_vars
    PROVE  LockInv'
<1>1. CASE UNCHANGED vars
  <2>1. SavedInv'
    BY <1>1, SameSaved, Zenon DEF vars, LockInv, SavedInv, Types
  <2>2. RootInv'
    <3>1. RootInv /\ Types' /\ UNCHANGED <<roots, root, tower, saved, queue>>
      BY <1>1, Zenon DEF vars, LockInv, RootInv, Types
    <3> QED BY <3>1, SameRoot, Zenon
  <2>3. /\ UNCHANGED <<panicked, frozen, active, root>>
        /\ UNCHANGED <<saved, tower, queue, sending, promised, durable>>
    BY <1>1, Zenon DEF vars
  <2>4. KeptInv => ForksInv'
    BY <2>3, Zenon DEF KeptInv, ForksInv, Chain
  <2>5. KeptInv => KeptInv'
    BY <2>3, <2>4, SameKept, Zenon
  <2> QED BY <2>1, <2>2, <2>3, <2>5, Zenon DEF LockInv
<1>2. CASE Next
  <2>1. panicked = "no" /\ SavedInv /\ RootInv /\ KeptInv
    BY <1>2, Zenon DEF Next, LockInv
  <2>2. SavedInv'
    BY <1>2, <2>1, BanksSaved, VoteSaved, RefreshSaved, StoreSaved, SendSaved, RestartSaved, ZenonT(60) DEF Next
  <2>3. RootInv'
    BY <1>2, <2>1, BanksRoot, VoteRoot, RefreshRoot, StoreRoot, SendRoot, RestartRoot, ZenonT(60) DEF Next
  <2>4. panicked' # "no" \/ KeptInv'
    BY <1>2, <2>1, BanksLock, VoteLock, RefreshLock, StoreLock, SendLock, RestartLock, ZenonT(60) DEF Next
  <2> QED BY <2>2, <2>3, <2>4, Zenon DEF LockInv
<1> QED BY <1>1, <1>2, Zenon

(* The validator keeps its lockouts through crashes, for every ledger,     *)
(* tower depth, length of the queue and number of restarts: a vote it      *)
(* sends is for a descendant of every slot that an earlier vote still      *)
(* locks it out on, whichever votes generate_vote_tx declines to sign. The *)
(* tower file covers what the votes signed when recorded promised, every   *)
(* tower on the way to the file, in memory and made by a restart keeps the *)
(* promises of the ones before it, and only what was recorded unsigned and *)
(* refreshed later is lost with the process.                               *)
THEOREM LockoutsKept == Spec => LockoutsAreKept
<1>1. LockInv /\ [Next]_vars => LockInv'
  BY LockInvariant, Zenon
<1>2. ASSUME LockInv, Next, NEW s \in Slots, lastSent' = s, lastSent # s,
             NEW t \in Slots, promised[t] >= s
      PROVE  t = s \/ t \in Above[s]
  <2>1. SavedInv /\ RootInv /\ KeptInv
    BY <1>2, Zenon DEF Next, LockInv
  <2>2. send_transaction
    BY <1>2, ZenonT(60) DEF Next, generate_new_bank_forks, replay_active_banks, select_vote_and_reset_forks,
                            handle_votable_bank, refresh_last_vote, store, restart, observed
  <2>3. sending # NoOp /\ s = sending.tower.last_vote
    BY <1>2, <2>2, Zenon DEF send_transaction
  <2>4. s \in Nat /\ promised[t] # None /\ promised[t] \in Int
    <3>1. s \in Nat /\ promised[t] \in Int
      BY <2>1, TowerAssumption, Zenon DEF KeptInv, Promises
    <3>2. promised[t] # -1
      BY <1>2, <3>1, SMTT(60)
    <3> QED BY <3>1, <3>2, Zenon DEF None
  \* The tower that speaks for the vote: the file's, or the one that is sent.
  <2>5. PICK u : /\ OneChain(u) /\ Covered(u, t, promised[t]) /\ u.last_vote = s
                 /\ u.votes = <<>> => u = NoTower
    <3>1. CASE sending.tower.signed
      <4>1. saved.last_vote = s /\ Covers(saved, promised)
        BY <2>1, <2>3, <3>1, Zenon DEF KeptInv, Shapes, Promises, Repeats
      <4>2. saved # NoTower
        <5>1. NoTower.last_vote = -1
          BY Zenon DEF NoTower, NewTower, None
        <5> QED BY <2>4, <4>1, <5>1, SMTT(60)
      <4>3. OneChain(saved) /\ saved.votes # <<>>
        BY <2>1, <4>2, Zenon DEF KeptInv, Shapes, RootInv, Stored
      <4> QED BY <2>4, <4>1, <4>3, Zenon DEF Covers
    <3>2. CASE ~sending.tower.signed
      <4>1. OneChain(sending.tower) /\ Covers(sending.tower, promised)
        BY <2>1, <2>3, <3>2, Zenon DEF KeptInv, Shapes, Promises
      <4>2. sending.tower.votes # <<>>
        BY <2>1, <2>3, Zenon DEF KeptInv, Shapes
      <4> QED BY <2>3, <2>4, <4>1, <4>2, Zenon DEF Covers
    <3> QED BY <3>1, <3>2, Zenon
  <2>6. ~(promised[t] < LastOf(u))
    <3>1. LastOf(u) = s
      <4>1. u.votes # <<>>
        <5>1. NoTower.last_vote = -1
          BY Zenon DEF NoTower, NewTower, None
        <5> QED BY <2>4, <2>5, <5>1, SMTT(60)
      <4> QED BY <2>5, <4>1, Zenon DEF LastOf
    <3> QED BY <1>2, <2>4, <3>1, SMTT(60)
  <2>7. t \in Chain(s)
    <3>1. ASSUME NEW v \in Range(u.votes), v.slot = t PROVE t \in Chain(s)
      BY <2>5, <3>1, Zenon DEF OneChain
    <3>2. u.root_slot \in Slots /\ t \in Chain(u.root_slot) => t \in Chain(s)
      BY <2>5, ChainTransitive, Zenon DEF OneChain
    <3> QED BY <2>5, <2>6, <3>1, <3>2, Zenon DEF Covered
  <2> QED BY <2>7, Zenon DEF Chain
<1>3. LockInv /\ [Next]_vars =>
         [\A s \in Slots : lastSent' = s /\ lastSent # s =>
             \A t \in Slots : promised[t] >= s => t = s \/ t \in Above[s]]_vars
  BY <1>2, Zenon
<1> QED BY InitLock, <1>1, <1>3, PTL DEF Spec, LockoutsAreKept

-----------------------------------------------------------------------------
(* What panics.                                                            *)

Sorted(votes) == \A i, j \in 1..Len(votes) : i < j => votes[i].slot < votes[j].slot

\* A tower in the file: a restart finds it consistent with any history.
Storable(t) ==
    /\ OneChain(t) /\ Sorted(t.votes)
    /\ \A i \in 1..Len(t.votes) : t.root_slot <= t.votes[i].slot

\* The banks reach down to the root, the ledger to the start.
BanksInv ==
    /\ frozen \subseteq ledger
    /\ \A b \in frozen \ {root} : b # 0 => Parent[b] \in frozen
    /\ \A b \in ledger \ {0} : Parent[b] \in ledger
    /\ \A b \in active : b # 0 /\ Parent[b] \in frozen

\* The last vote is for a bank there is, or comes from the tower file.
LastVoteInv == tower.last_vote = None \/ tower.stray = tower.last_vote \/ tower.last_vote \in frozen

StorableInv ==
    /\ Sorted(tower.votes)
    /\ saved = NoTower \/ Storable(saved)
    /\ \A i \in 1..Len(queue) : queue[i].push => Storable(queue[i].tower)
    /\ sending = NoOp \/ Sound(sending.tower)

BoundsInv ==
    /\ Len(queue) <= MaxQueued
    /\ promised \in [Slots -> Nat \cup {None}] /\ durable \in [Slots -> Nat \cup {None}]

\* The votes in memory are on one fork, and none is below the tower's root.
BranchInv ==
    /\ \A i, j \in 1..Len(tower.votes) : i < j => tower.votes[i].slot \in Chain(tower.votes[j].slot)
    /\ \A i \in 1..Len(tower.votes) : tower.votes[i].slot \notin Above[tower.root_slot]

\* What the validator died of.
CauseInv ==
    /\ panicked \in {"no", "is_locked_out", "candidate"}
    /\ panicked = "is_locked_out" => tower.root_slot > root
    /\ panicked = "candidate" => is_stray_last_vote /\ tower.last_vote \in active

PanicInv ==
    /\ RootInv /\ BoundsInv /\ CauseInv
    /\ ForksInv /\ BanksInv /\ BranchInv /\ LastVoteInv /\ StorableInv

LEMMA NoCause ==
    ASSUME panicked' = "no"
    PROVE  CauseInv'
<1>1. "no" # "is_locked_out" /\ "no" # "candidate"
  OBVIOUS
<1> QED BY <1>1, Zenon DEF CauseInv

(* Between the root and a frozen bank every ancestor is frozen, and has a  *)
(* frozen child.                                                           *)
LEMMA FrozenBetween ==
    ASSUME root \in Slots, frozen \subseteq Slots, BanksInv
    PROVE  \A b \in Slots : b \in frozen =>
              \A a \in Above[b] : root <= a => a \in frozen /\ \E c \in frozen \ {0} : Parent[c] = a
<1> DEFINE P == {b \in Slots : b \in frozen =>
                    \A a \in Above[b] : root <= a => a \in frozen /\ \E c \in frozen \ {0} : Parent[c] = a}
<1>1. ASSUME NEW b \in Slots, b # 0 => Parent[b] \in P PROVE b \in P
  <2> SUFFICES ASSUME b \in frozen, NEW a \in Above[b], root <= a
               PROVE  a \in frozen /\ \E c \in frozen \ {0} : Parent[c] = a
    BY Zenon
  <2>1. b # 0 /\ Above[b] = {Parent[b]} \cup Above[Parent[b]]
    BY AboveStep, Zenon
  <2>2. a < b /\ a \in Nat /\ b \in Nat /\ root \in Nat
    BY AboveBelow, TowerAssumption
  <2>3. b # root
    BY <2>2
  <2>4. Parent[b] \in frozen
    BY <2>1, <2>3 DEF BanksInv
  <2> QED BY <1>1, <2>1, <2>4, Zenon
<1>2. P = Slots
  <2> HIDE DEF P
  <2>1. P \in SUBSET Slots
    BY DEF P
  <2> QED BY <1>1, <2>1, ParentInduction, Zenon
<1> QED BY <1>2, Zenon

(* check_switch_threshold is never asked for an ancestor of a last vote    *)
(* that is not stray.                                                      *)
LEMMA NoSwitchPanic ==
    ASSUME RootInv, BanksInv, LastVoteInv, NEW s \in Slots, Leaf(s), Suspended(s)
    PROVE  is_stray_last_vote
<1> SUFFICES ASSUME ~is_stray_last_vote PROVE FALSE
  BY Zenon
<1>1. root \in Slots /\ frozen \subseteq Slots /\ banks \subseteq Slots
  BY TowerAssumption, Zenon DEF RootInv, Types, banks
<1>2. tower.last_vote \in Slots /\ s \in Above[tower.last_vote] /\ root <= s
  <2>1. tower.last_vote \in Slots /\ s \in Above[tower.last_vote] /\ s >= root
    BY <1>1, Zenon DEF Suspended, ancestors
  <2>2. root \in Nat /\ s \in Nat
    BY <1>1, TowerAssumption, Zenon
  <2>3. root <= s
    BY <2>1, <2>2, SMTT(60)
  <2> QED BY <2>1, <2>3, Zenon
<1>3. tower.last_vote # None
  BY <1>2, TowerAssumption DEF None
<1>4. tower.last_vote \in frozen
  BY <1>3, Zenon DEF LastVoteInv, is_stray_last_vote
<1>5. \E c \in frozen \ {0} : Parent[c] = s
  BY <1>1, <1>2, <1>4, FrozenBetween, Zenon
<1> QED BY <1>5, Zenon DEF Leaf

(* A candidate among the ancestors of the last vote: its bank is not       *)
(* frozen, and so it is stray.                                             *)
LEMMA CandidateIsStray ==
    ASSUME RootInv, LastVoteInv, ~CandidatesAsserted
    PROVE  is_stray_last_vote /\ tower.last_vote \in active
<1>1. PICK c \in Candidates : c \in ancestors(tower.last_vote) /\ tower.last_vote \in banks
  BY Zenon DEF CandidatesAsserted
<1>2. tower.last_vote \notin frozen
  BY <1>1, Zenon DEF Candidates, ancestors
<1>3. tower.last_vote \in active /\ tower.last_vote \in Slots
  BY <1>1, <1>2, Zenon DEF banks, RootInv, Types
<1>4. tower.last_vote # None
  BY <1>3, TowerAssumption DEF None
<1> QED BY <1>2, <1>3, <1>4, Zenon DEF LastVoteInv, is_stray_last_vote

(* A tower that may be stored is consistent with the history of any root   *)
(* on the supermajority's chain.                                           *)
LEMMA StorableIsConsistent ==
    ASSUME NEW t \in TowerType, Stored(t), Storable(t), NEW replayed \in Supermajority
    PROVE  adjust_lockouts_after_replay(t, replayed).ok
<1> DEFINE n == Len(t.votes)
           voted == [i \in DOMAIN t.votes |-> t.votes[i].slot]
           slots == <<t.root_slot>> \o voted
           history == IF t.root_slot <= replayed THEN {replayed} \cup Above[replayed]
                      ELSE {replayed} \cup Above[replayed] \cup {t.root_slot}
           found == {i \in DOMAIN slots : Check(history, slots[i]) = "Found"}
<1>1. /\ t.votes # <<>> /\ Last_Is(t) /\ t.root_slot \in Supermajority /\ t.last_vote \in Slots
      /\ replayed \in Slots /\ t.root_slot \in Slots /\ Slots \subseteq Nat
  BY TowerAssumption, ZenonT(60) DEF Stored, Sound, Storable, OneChain
<1>2. /\ t.votes \in Seq(Vote) /\ n \in Nat \ {0} /\ DOMAIN t.votes = 1..n
      /\ \A i \in 1..n : t.votes[i] \in Vote
  BY <1>1, EmptySeq, LenProperties, ElementOfSeq DEF TowerType
<1>3. voted \in Seq(Int) /\ Len(voted) = n
  <2>1. \A i \in 1..n : t.votes[i].slot \in Int
    BY <1>2, VoteSlot, SMTT(60)
  <2>2. voted \in [1..n -> Int]
    BY <1>2, <2>1, Zenon
  <2> QED BY <1>2, <2>2, FunctionIsSeq
<1>4. /\ DOMAIN slots = 1..(n + 1) /\ slots[1] = t.root_slot
      /\ \A i \in 1..n : slots[i + 1] = t.votes[i].slot
  <2>1. /\ <<t.root_slot>> \in Seq(Int) /\ Len(<<t.root_slot>>) = 1
        /\ <<t.root_slot>>[1] = t.root_slot
    BY SMTT(60) DEF TowerType
  <2> HIDE DEF voted
  <2>2. /\ slots \in Seq(Int) /\ Len(slots) = 1 + n
        /\ \A i \in 1..1 : slots[i] = <<t.root_slot>>[i]
        /\ \A i \in 1..n : slots[1 + i] = voted[i]
    BY <1>2, <1>3, <2>1, ConcatProperties, SMTT(60)
  <2>3. DOMAIN slots = 1..(n + 1)
    BY <1>2, <2>2, LenProperties, SMTT(60)
  <2>4. \A i \in 1..n : voted[i] = t.votes[i].slot
    BY <1>2, Zenon DEF voted
  <2>5. 1 \in 1..1 /\ \A i \in 1..n : i + 1 = 1 + i
    BY <1>2, SMTT(60)
  <2>6. slots[1] = t.root_slot
    BY <2>1, <2>2, <2>5, Zenon
  <2> HIDE DEF slots
  <2> QED BY <2>2, <2>3, <2>4, <2>5, <2>6, Zenon
<1> HIDE DEF slots, n
<1>5. \A i \in 1..(n + 1) : i = 1 \/ \E j \in 1..n : i = j + 1
  <2>1. \A i \in 1..(n + 1) : i = 1 \/ (i - 1 \in 1..n /\ i = (i - 1) + 1)
    BY <1>2, SMTT(60)
  <2> QED BY <2>1, Zenon
<1>6. ASSUME NEW i \in 1..(n + 1) PROVE slots[i] \in Chain(t.last_vote) /\ slots[i] \in Nat
  <2>1. \A j \in 1..n : t.votes[j] \in Range(t.votes)
    BY RangeVotes, ZenonT(60) DEF n
  <2>2. slots[i] \in Chain(t.last_vote)
    BY <1>4, <1>5, <2>1 DEF Storable, OneChain
  <2> QED BY <1>1, <2>2, ChainSlots, Zenon
<1>7. ASSUME NEW i \in 1..(n + 1), NEW j \in 1..(n + 1), i < j
      PROVE  slots[i] < slots[j] \/ (i = 1 /\ slots[i] = slots[j])
  <2>1. PICK b \in 1..n : j = b + 1
    BY <1>2, <1>5, <1>7, SMTT(60)
  <2>2. CASE i = 1
    <3>1. slots[1] <= slots[j]
      BY <1>4, <2>1, Zenon DEF Storable, n
    <3>2. slots[i] \in Nat /\ slots[j] \in Nat
      BY <1>6, Zenon
    <3> QED BY <2>2, <3>1, <3>2, SMTT(60)
  <2>3. ASSUME NEW a \in 1..n, i = a + 1 PROVE slots[i] < slots[j]
    <3>1. a < b
      <4>1. n \in Nat
        BY <1>2, Zenon
      <4> QED BY <1>7, <2>1, <2>3, <4>1, SMTT(60)
    <3>2. t.votes[a].slot < t.votes[b].slot
      BY <3>1, Zenon DEF Storable, Sorted, n
    <3> QED BY <1>4, <2>1, <2>3, <3>2, Zenon
  <2> QED BY <1>5, <2>2, <2>3, Zenon
<1>8. PICK top \in Nat : history \in SUBSET (0..top) /\ top \in history
  <2>1. ASSUME NEW x \in Chain(replayed) PROVE x \in Nat /\ x <= replayed
    BY <1>1, ChainSlots, Zenon
  <2>2. replayed \in Nat /\ t.root_slot \in Nat
    BY <1>1, ZenonT(60)
  <2>3. CASE t.root_slot <= replayed
    <3>1. history = Chain(replayed)
      BY <2>3, Zenon DEF Chain
    <3> HIDE DEF history
    <3>2. \A x \in history : x \in 0..replayed
      BY <2>1, <2>2, <3>1, SMTT(60)
    <3> QED BY <2>2, <3>1, <3>2 DEF Chain
  <2>4. CASE ~(t.root_slot <= replayed)
    <3>1. history = Chain(replayed) \cup {t.root_slot}
      BY <2>4, Zenon DEF Chain
    <3> HIDE DEF history
    <3>2. \A x \in Chain(replayed) : x \in 0..t.root_slot
      BY <2>1, <2>2, <2>4, SMTT(60)
    <3>3. t.root_slot \in 0..t.root_slot
      BY <2>2, SMTT(60)
    <3> QED BY <2>2, <3>1, <3>2, <3>3, Zenon
  <2> QED BY <2>3, <2>4, Zenon
<1>9. t.root_slot \in history /\ Chain(replayed) \subseteq history
  <2>1. t.root_slot <= replayed => t.root_slot \in Chain(replayed)
    BY <1>1, SupermajorityChain, Zenon
  <2> QED BY <2>1, Zenon DEF Chain
<1>10. history \subseteq Chain(replayed) \cup {t.root_slot}
  BY DEF Chain
<1> HIDE DEF history
<1>11. Max(history) \in history /\ Max(history) \in Nat /\ \A y \in history : y <= Max(history)
  <2>1. Max(history) \in history /\ \A y \in history : y <= Max(history)
    BY <1>8, MaxBounded, Zenon
  <2>2. \A y \in history : y \in Nat
    BY <1>8
  <2> QED BY <2>1, <2>2
<1>12. \A x \in history : Check(history, x) = "Found"
  <2> SUFFICES ASSUME NEW x \in history PROVE Check(history, x) = "Found"
    OBVIOUS
  <2>1. x <= Max(history) /\ x \in Nat
    BY <1>8, <1>11, SMTT(60)
  <2>2. ~(x > Max(history))
    BY <1>11, <2>1, SMTT(60)
  <2> QED BY <2>2 DEF Check
<1>13. \A x : Check(history, x) = "Found" => x \in history
  BY DEF Check
<1>14. \A x : Check(history, x) = "Future" <=> x > Max(history)
  BY Zenon DEF Check
<1>15. 1 \in found /\ found \in SUBSET (0..(n + 1)) /\ n + 1 \in Nat
  <2>1. 1 \in DOMAIN slots /\ DOMAIN slots \subseteq 0..(n + 1) /\ n + 1 \in Nat
    BY <1>2, <1>4, SMTT(60)
  <2> QED BY <1>4, <1>9, <1>12, <2>1, ZenonT(60)
<1>16. PICK m \in 1..(n + 1) : m = Max(found) /\ slots[m] \in history
  <2>1. \A i \in found : i \in 1..(n + 1) /\ slots[i] \in history
    BY <1>4, <1>13, Zenon
  <2> HIDE DEF found
  <2>2. Max(found) \in found
    BY <1>15, MaxBounded, ZenonT(60)
  <2> QED BY <2>1, <2>2, Zenon
<1>17. ASSUME NEW i \in 1..m PROVE Check(history, slots[i]) # "NotFound"
  <2>1. i \in 1..(n + 1) /\ (i # m => i < m)
    BY <1>2, <1>16
  <2>2. CASE i = m \/ i = 1
    BY <1>4, <1>9, <1>12, <1>16, <2>2, Zenon
  <2>3. CASE i # m /\ i # 1
    <3>1. slots[i] < slots[m] /\ slots[1] < slots[m]
      <4>1. slots[i] < slots[m]
        BY <1>7, <1>16, <2>1, <2>3, ZenonT(60)
      <4>2. 1 \in 1..(n + 1) /\ 1 < i
        BY <1>2, <2>1, <2>3, SMTT(60)
      <4>3. slots[1] <= slots[i] /\ slots[i] \in Nat /\ slots[1] \in Nat /\ slots[m] \in Nat
        <5>1. slots[i] \in Nat /\ slots[1] \in Nat /\ slots[m] \in Nat
          BY <1>6, <1>16, <2>1, <4>2, Zenon
        <5>2. slots[1] < slots[i] \/ slots[1] = slots[i]
          BY <1>7, <2>1, <4>2, Zenon
        <5> QED BY <5>1, <5>2, SMTT(60)
      <4> QED BY <4>1, <4>3, SMTT(60)
    <3>2. slots[m] # t.root_slot
      <4>1. t.root_slot \in Nat /\ t.root_slot < slots[m]
        BY <1>1, <1>4, <3>1, ZenonT(60)
      <4> QED BY <4>1, SMTT(60)
    <3>3. slots[m] \in Chain(replayed)
      BY <1>10, <1>16, <3>2
    <3>4. slots[i] \in Chain(slots[m])
      <4>1. slots[i] \in Nat /\ slots[m] \in Nat
        BY <1>6, <1>16, <2>1
      <4>2. slots[i] <= slots[m]
        BY <3>1, <4>1
      <4>3. slots[i] \in Chain(t.last_vote) /\ slots[m] \in Chain(t.last_vote)
        BY <1>6, <1>16, <2>1, Zenon
      <4> QED BY <1>1, <4>2, <4>3, ChainLinear, ZenonT(60)
    <3>5. slots[i] \in history
      BY <1>1, <1>9, <3>3, <3>4, ChainTransitive, Zenon
    <3> QED BY <1>12, <3>5, Zenon
  <2> QED BY <2>2, <2>3
<1>18. Consistent(slots, found, history)
  <2>1. \A i \in 1..Max(found) : Check(history, slots[i]) # "NotFound"
    BY <1>16, <1>17, Zenon
  <2>2. ASSUME NEW i \in DOMAIN slots, NEW j \in DOMAIN slots, i < j
        PROVE  /\ slots[i] < slots[j] \/ (i = 1 /\ slots[i] = slots[j])
               /\ Check(history, slots[i]) = "Future" => Check(history, slots[j]) = "Future"
    <3>1. slots[i] < slots[j] \/ (i = 1 /\ slots[i] = slots[j])
      BY <1>4, <1>7, <2>2, Zenon
    <3>2. slots[i] \in Nat /\ slots[j] \in Nat
      BY <1>4, <1>6, Zenon
    <3>3. slots[i] > Max(history) => slots[j] > Max(history)
      BY <1>11, <3>1, <3>2, SMTT(60)
    <3> QED BY <1>14, <3>1, <3>3, Zenon
  <2>3. found # {}
    BY <1>15, Zenon
  <2> HIDE DEF found
  <2> QED BY <2>1, <2>2, <2>3, Zenon DEF Consistent
<1>19. t.last_vote # None /\ t.votes # <<>>
  BY <1>1, SMTT(60) DEF None
<1>20. adjust_lockouts_with_slot_history(t, history).ok
  BY <1>18, Zenon DEF adjust_lockouts_with_slot_history, slots
<1>21. CASE t.root_slot <= replayed
  BY <1>19, <1>20, <1>21, ZenonT(60) DEF adjust_lockouts_after_replay, history
<1>22. CASE ~(t.root_slot <= replayed)
  BY <1>19, <1>20, <1>22, Zenon DEF adjust_lockouts_after_replay, adjust_lockouts_with_slot_history, history
<1> QED BY <1>21, <1>22, ZenonT(60)

(* The votes stay in order: a new one is above the last, and the oldest go *)
(* first.                                                                  *)
LEMMA VoteSorted ==
    ASSUME NEW t \in TowerType, Sorted(t.votes), NEW u, NEW s \in Slots,
           last_voted_slot(t.votes) < s,
           NEW k \in Nat, NEW d \in Nat, VoteMade(t, u, s, k, d)
    PROVE  /\ Sorted(u.votes)
           /\ d = 1 => \A i \in 1..Len(u.votes) : u.root_slot <= u.votes[i].slot
<1>1. /\ t.votes \in Seq(Vote) /\ Len(t.votes) \in Nat
      /\ \A i \in 1..Len(t.votes) : t.votes[i] \in Vote
  BY LenProperties, ElementOfSeq, Zenon DEF TowerType
<1>2. /\ k \in 0..Len(t.votes) /\ d \in 0..1 /\ (d = 1 => k = MAX_LOCKOUT_HISTORY)
      /\ Len(u.votes) = k - d + 1
  BY SMTT(60) DEF VoteMade
<1>3. /\ u.votes[k - d + 1].slot = s
      /\ \A i \in 1..(k - d) : u.votes[i].slot = t.votes[i + d].slot
      /\ d = 1 => u.root_slot = t.votes[1].slot
  BY SMTT(60) DEF VoteMade
<1>4. Len(t.votes) \in Nat
  BY <1>1, Zenon
<1>5. \A i \in 1..Len(t.votes) : t.votes[i].slot \in Nat
  BY <1>1, VoteSlot, Zenon
<1>6. s \in Nat
  BY TowerAssumption, Zenon
<1>7. ASSUME NEW i \in 1..Len(t.votes) PROVE t.votes[i].slot < s
  <2>1. t.votes # <<>> /\ Len(t.votes) \in 1..Len(t.votes)
    BY <1>1, EmptySeq, SMTT(60)
  <2>2. t.votes[Len(t.votes)].slot < s
    BY <2>1, Zenon DEF last_voted_slot
  <2>3. t.votes[i].slot <= t.votes[Len(t.votes)].slot
    <3>1. CASE i = Len(t.votes)
      BY <1>5, <3>1, SMTT(60)
    <3>2. CASE i # Len(t.votes)
      <4>1. i < Len(t.votes)
        BY <1>1, <3>2, SMTT(60)
      <4>2. t.votes[i].slot < t.votes[Len(t.votes)].slot
        BY <2>1, <4>1, Zenon DEF Sorted
      <4>3. t.votes[i].slot \in Nat /\ t.votes[Len(t.votes)].slot \in Nat
        BY <1>5, <2>1, Zenon
      <4> QED BY <4>2, <4>3, SMTT(60)
    <3> QED BY <3>1, <3>2, Zenon
  <2>4. t.votes[i].slot \in Nat /\ t.votes[Len(t.votes)].slot \in Nat
    BY <1>5, <2>1, Zenon
  <2> QED BY <1>6, <2>2, <2>3, <2>4, SMTT(60)
<1>8. ASSUME NEW i \in 1..(k - d) PROVE i + d \in 1..Len(t.votes)
  BY <1>2, <1>4, SMTT(60)
<1>9. ASSUME NEW i \in 1..Len(u.votes), NEW j \in 1..Len(u.votes), i < j
      PROVE  u.votes[i].slot < u.votes[j].slot
  <2>1. i \in 1..(k - d) /\ (j = k - d + 1 \/ j \in 1..(k - d))
    BY <1>2, <1>9, SMTT(60)
  <2>2. CASE j = k - d + 1
    BY <1>3, <1>7, <1>8, <2>1, <2>2, Zenon
  <2>3. CASE j \in 1..(k - d)
    <3>1. i + d < j + d
      BY <1>2, <1>9
    <3>2. i + d \in 1..Len(t.votes) /\ j + d \in 1..Len(t.votes)
      BY <1>8, <2>1, <2>3, Zenon
    <3>3. t.votes[i + d].slot < t.votes[j + d].slot
      BY <3>1, <3>2 DEF Sorted
    <3> QED BY <1>3, <2>1, <2>3, <3>3, Zenon
  <2> QED BY <2>1, <2>2, <2>3, Zenon
<1>10. ASSUME d = 1, NEW i \in 1..Len(u.votes) PROVE u.root_slot <= u.votes[i].slot
  <2>1. 1 \in 1..Len(t.votes)
    <3>1. MAX_LOCKOUT_HISTORY \in Nat \ {0}
      BY TowerAssumption, Zenon
    <3> QED BY <1>2, <1>4, <1>10, <3>1, SMTT(60)
  <2>2. t.votes[1].slot \in Nat
    BY <1>5, <2>1, Zenon
  <2>3. CASE i = k - d + 1
    <3>1. t.votes[1].slot < s
      BY <1>7, <2>1, Zenon
    <3>2. u.root_slot = t.votes[1].slot /\ u.votes[i].slot = s
      BY <1>3, <1>10, <2>3, Zenon
    <3> QED BY <1>6, <2>2, <3>1, <3>2, SMTT(60)
  <2>4. CASE i # k - d + 1
    <3>1. i \in 1..(k - d) /\ 1 < i + d
      BY <1>2, <1>4, <1>10, <2>4, SMTT(60)
    <3>2. i \in 1..(k - d) /\ i + d \in 1..Len(t.votes) /\ 1 < i + d
      BY <1>8, <3>1, ZenonT(60)
    <3>3. t.votes[1].slot < t.votes[i + d].slot
      BY <2>1, <3>2, ZenonT(60) DEF Sorted
    <3>4. u.root_slot = t.votes[1].slot /\ u.votes[i].slot = t.votes[i + d].slot
      BY <1>3, <1>10, <3>2, ZenonT(60)
    <3>5. t.votes[i + d].slot \in Nat
      BY <1>5, <3>2, ZenonT(60)
    <3>6. t.votes[1].slot <= t.votes[i + d].slot
      BY <2>2, <3>3, <3>5, SMTT(60)
    <3> QED BY <3>4, <3>6, Zenon
  <2> QED BY <2>3, <2>4
<1> QED BY <1>9, <1>10 DEF Sorted

LEMMA VotePanic ==
    ASSUME PanicInv, NEW s \in Slots, NEW signed \in BOOLEAN, handle_votable_bank(s, signed)
    PROVE  PanicInv'
<1>1. RootInv /\ BoundsInv /\ ForksInv /\ BanksInv /\ LastVoteInv /\ StorableInv
  BY DEF PanicInv
<1>2. /\ tower \in TowerType /\ root \in Slots /\ tower.root_slot \in Slots
      /\ s \in Nat /\ Slots \subseteq Nat /\ frozen \subseteq Slots
  BY <1>1, TowerAssumption, ZenonT(60) DEF RootInv, Types, Sound
<1>3. /\ s \in frozen /\ (\A c \in frozen \ {0} : Parent[c] # s)
      /\ last_voted_slot(tower.votes) < s
      /\ tower' \in TowerType /\ Sound(tower') /\ tower'.votes # <<>>
      /\ tower'.last_vote = s /\ tower'.stray = tower.stray
      /\ tower'.root_slot \in Chain(s)
      /\ tower'.root_slot = s \/ tower'.root_slot >= root
      /\ \A i \in 1..Len(tower'.votes) :
            tower'.votes[i].slot \in Chain(s) /\ (tower'.votes[i].slot = s \/ tower'.votes[i].slot >= root)
      /\ root' = IF tower'.root_slot # tower.root_slot THEN tower'.root_slot ELSE root
      /\ frozen' = IF tower'.root_slot # tower.root_slot
                   THEN {b \in frozen : b = tower'.root_slot \/ tower'.root_slot \in Above[b]}
                   ELSE frozen
      /\ active' = IF tower'.root_slot # tower.root_slot
                   THEN {b \in active : tower'.root_slot \in Above[b]} ELSE active
      /\ panicked' = IF tower'.root_slot # tower.root_slot /\ tower'.root_slot \notin frozen
                     THEN "root_bank" ELSE "no"
  BY <1>1, VoteFacts, Zenon
<1>4. PICK k \in Nat, d \in Nat : VoteMade(tower, tower', s, k, d)
  BY <1>1, VoteFacts, Zenon
<1>5. OneChain(tower') /\ ForksInv' /\ RootInv'
  BY <1>1, VoteEffect, VoteRoot
<1>6. root <= tower'.root_slot
  <2>1. tower'.root_slot \in Slots /\ tower'.root_slot \in Nat /\ root \in Nat
    BY <1>2, <1>3, ChainSlots, ZenonT(60)
  <2>2. root \in Chain(s) /\ root <= s
    BY <1>1, <1>2, <1>3, ChainSlots, ZenonT(60) DEF ForksInv
  <2> QED BY <1>3, <2>1, <2>2, Zenon
<1>7. tower'.root_slot # tower.root_slot => tower'.root_slot \in frozen
  <2> SUFFICES ASSUME tower'.root_slot # tower.root_slot PROVE tower'.root_slot \in frozen
    BY Zenon
  <2>1. CASE tower'.root_slot = s
    BY <1>3, <2>1, Zenon
  <2>2. CASE tower'.root_slot # s
    <3>1. tower'.root_slot \in Above[s] /\ root <= tower'.root_slot
      BY <1>3, <1>6, <2>2, ZenonT(60) DEF Chain
    <3> QED BY <1>1, <1>2, <1>3, <3>1, FrozenBetween, ZenonT(60)
  <2> QED BY <2>1, <2>2, Zenon
<1>8. CauseInv'
  <2>1. panicked' = "no"
    BY <1>3, <1>7, Zenon
  <2> QED BY <2>1, NoCause, Zenon
<1>9. Sorted(tower'.votes) /\ (d = 1 => \A i \in 1..Len(tower'.votes) : tower'.root_slot <= tower'.votes[i].slot)
  BY <1>1, <1>2, <1>3, <1>4, VoteSorted, ZenonT(60) DEF StorableInv
<1>10. ASSUME NEW i \in 1..Len(tower'.votes) PROVE tower'.root_slot <= tower'.votes[i].slot
  <2>1. CASE d = 1
    BY <1>9, <2>1, Zenon
  <2>2. CASE d # 1
    <3>1. tower'.root_slot = tower.root_slot
      BY <1>4, <2>2, ZenonT(60) DEF VoteMade
    <3>2. /\ tower'.votes[i].slot \in Nat /\ tower'.root_slot \in Nat /\ tower'.root_slot <= s /\ root \in Nat
      BY <1>2, <1>3, ChainSlots, ZenonT(60)
    <3>3. CASE tower'.votes[i].slot = s
      BY <3>2, <3>3
    <3>4. CASE tower'.votes[i].slot # s /\ tower.root_slot = root
      BY <1>3, <3>1, <3>2, <3>4
    <3>5. CASE tower'.votes[i].slot # s /\ tower.root_slot # root
      <4>1. tower'.votes[i] \in Range(tower'.votes)
        BY <1>3, RangeVotes, ZenonT(60)
      <4>2. root' # tower'.root_slot
        BY <1>3, <3>1, <3>5, Zenon
      <4>3. tower'.root_slot \in Chain(tower'.votes[i].slot)
        BY <1>5, <4>1, <4>2, Zenon DEF ForksInv, Chain
      <4>4. tower'.votes[i].slot \in Slots
        BY <1>3, <4>1, RangeVotes, Zenon
      <4> QED BY <4>3, <4>4, ChainSlots, Zenon
    <3> QED BY <3>3, <3>4, <3>5, ZenonT(60)
  <2> QED BY <2>1, <2>2, Zenon
<1>11. Storable(tower')
  BY <1>5, <1>9, <1>10, Zenon DEF Storable
<1>12. /\ UNCHANGED <<ledger, saved, sending, promised, durable>>
       /\ queue' = queue \/ queue' = Append(queue, VoteOp(tower', TRUE))
       /\ Len(queue) < MaxQueued
  BY Zenon DEF handle_votable_bank, observed
<1>13. /\ queue \in Seq(VoteOpType) /\ Len(queue) \in Nat /\ MaxQueued \in Nat
       /\ VoteOp(tower', TRUE).tower = tower' /\ VoteOp(tower', TRUE) \in VoteOpType
  <2>1. Towers(saved, tower, queue, sending)
    BY <1>1, TowersTyped, Zenon
  <2> QED BY <1>3, <2>1, TowerAssumption, Zenon DEF Towers, VoteOp, VoteOpType
<1>14. /\ Len(queue') <= MaxQueued
       /\ \A i \in 1..Len(queue') : queue'[i].push => Storable(queue'[i].tower)
  <2>1. \A i \in 1..Len(queue) : queue[i].push => Storable(queue[i].tower)
    BY <1>1 DEF StorableInv
  <2>2. CASE queue' = queue
    BY <1>12, <1>13, <2>1, <2>2
  <2>3. CASE queue' = Append(queue, VoteOp(tower', TRUE))
    <3>1. PICK op \in VoteOpType : op = VoteOp(tower', TRUE)
      BY <1>13, ZenonT(60)
    <3>2. Len(queue') = Len(queue) + 1
      BY <1>13, <2>3, <3>1, AppendProperties
    <3>3. \A i \in 1..Len(queue) : queue'[i] = queue[i]
      BY <1>13, <2>3, <3>1, AppendProperties
    <3>4. queue'[Len(queue) + 1].tower = tower'
      <4>1. queue'[Len(queue) + 1] = op
        BY <1>13, <2>3, <3>1, AppendProperties, ZenonT(60)
      <4> QED BY <1>13, <3>1, <4>1, Zenon
    <3>5. \A i \in 1..Len(queue') : i \in 1..Len(queue) \/ i = Len(queue) + 1
      BY <1>13, <3>2, SMTT(60)
    <3>6. Len(queue') <= MaxQueued
      BY <1>12, <1>13, <3>2, SMTT(60)
    <3> QED BY <1>11, <2>1, <3>3, <3>4, <3>5, <3>6, ZenonT(60)
  <2> QED BY <1>12, <2>2, <2>3, Zenon
<1>15. StorableInv'
  <2>1. (saved = NoTower \/ Storable(saved))' /\ (sending = NoOp \/ Sound(sending.tower))'
    BY <1>1, <1>12, ZenonT(60) DEF StorableInv, Storable, OneChain, Sorted, Chain, Sound
  <2>2. (\A i \in 1..Len(queue) : queue[i].push => Storable(queue[i].tower))'
    BY <1>14, ZenonT(60) DEF Storable, OneChain, Sorted, Chain
  <2>3. Sorted(tower.votes)'
    BY <1>9, Zenon DEF Sorted
  <2> QED BY <2>1, <2>2, <2>3, ZenonT(60) DEF StorableInv
<1>16. BoundsInv'
  BY <1>1, <1>12, <1>14, ZenonT(60) DEF BoundsInv
<1>17. s \in frozen'
  BY <1>3, ZenonT(60) DEF Chain
<1>18. LastVoteInv'
  BY <1>3, <1>17, ZenonT(60) DEF LastVoteInv
<1>19. BanksInv'
  <2>1. frozen' \subseteq ledger' /\ \A b \in ledger' \ {0} : Parent[b] \in ledger'
    BY <1>1, <1>3, <1>12, Zenon DEF BanksInv
  <2>2. ASSUME NEW b \in frozen' \ {root'}, b # 0 PROVE Parent[b] \in frozen'
    <3>1. CASE tower'.root_slot = tower.root_slot
      BY <1>1, <1>3, <2>2, <3>1, ZenonT(60) DEF BanksInv
    <3>2. CASE tower'.root_slot # tower.root_slot
      <4>1. b \in frozen /\ tower'.root_slot \in Above[b] /\ b \in Slots
        BY <1>2, <1>3, <2>2, <3>2, ZenonT(60)
      <4>2. b # root
        <5>1. tower'.root_slot < b /\ root <= tower'.root_slot /\ b \in Nat /\ root \in Nat /\ tower'.root_slot \in Nat
          BY <1>2, <1>6, <3>2, <4>1, AboveBelow, Zenon
        <5> QED BY <5>1, SMTT(60)
      <4>3. Parent[b] \in frozen
        BY <1>1, <2>2, <4>1, <4>2 DEF BanksInv
      <4>4. Parent[b] = tower'.root_slot \/ tower'.root_slot \in Above[Parent[b]]
        BY <2>2, <4>1, AboveStep, ZenonT(60)
      <4> QED BY <1>3, <3>2, <4>3, <4>4, ZenonT(60)
    <3> QED BY <3>1, <3>2, ZenonT(60)
  <2>3. ASSUME NEW b \in active' PROVE b # 0 /\ Parent[b] \in frozen'
    <3>1. b \in active /\ b # 0 /\ Parent[b] \in frozen /\ b \in Slots
      <4>1. b \in active
        BY <1>3, Zenon
      <4> QED BY <1>1, <4>1, Zenon DEF BanksInv, RootInv, Types
    <3>2. CASE tower'.root_slot = tower.root_slot
      BY <1>3, <3>1, <3>2, Zenon
    <3>3. CASE tower'.root_slot # tower.root_slot
      <4>1. tower'.root_slot \in Above[b]
        BY <1>3, <3>3, Zenon
      <4>2. Parent[b] = tower'.root_slot \/ tower'.root_slot \in Above[Parent[b]]
        BY <3>1, <4>1, AboveStep, Zenon
      <4> QED BY <1>3, <3>1, <3>3, <4>2, Zenon
    <3> QED BY <3>2, <3>3, Zenon
  <2> QED BY <2>1, <2>2, <2>3, ZenonT(60) DEF BanksInv
<1>20. BranchInv'
  <2>1. tower'.root_slot \in Slots /\ tower'.root_slot \in Nat
    BY <1>2, <1>3, ChainSlots, Zenon
  <2>2. ASSUME NEW i \in 1..Len(tower'.votes) PROVE tower'.votes[i].slot \notin Above[tower'.root_slot]
    <3>1. tower'.votes[i].slot \in Above[tower'.root_slot] => tower'.votes[i].slot < tower'.root_slot
      BY <2>1, AboveBelow, Zenon
    <3>2. tower'.votes[i].slot \in Slots /\ tower'.votes[i].slot \in Nat
      BY <1>2, <1>3, ChainSlots, Zenon
    <3>3. tower'.root_slot <= tower'.votes[i].slot
      BY <1>10, Zenon
    <3>4. ~(tower'.votes[i].slot < tower'.root_slot)
      BY <2>1, <3>2, <3>3, SMTT(60)
    <3> QED BY <3>1, <3>4, Zenon
  <2>3. ASSUME NEW i \in 1..Len(tower'.votes), NEW j \in 1..Len(tower'.votes), i < j
        PROVE  tower'.votes[i].slot \in Chain(tower'.votes[j].slot)
    <3>1. tower'.votes[i].slot < tower'.votes[j].slot
      BY <1>9, <2>3, Zenon DEF Sorted
    <3>2. tower'.votes[i].slot \in Chain(s) /\ tower'.votes[j].slot \in Chain(s)
      BY <1>3, Zenon
    <3>3. tower'.votes[i].slot \in Nat /\ tower'.votes[j].slot \in Nat
      BY <1>2, <3>2, ChainSlots, Zenon
    <3>4. tower'.votes[i].slot <= tower'.votes[j].slot
      BY <3>1, <3>3, SMTT(60)
    <3>5. \A a, b \in Chain(s) : a <= b => a \in Chain(b)
      BY ChainLinear, Zenon
    <3> QED BY <3>2, <3>4, <3>5, Zenon
  <2> QED BY <2>2, <2>3, Zenon DEF BranchInv, Chain
<1> QED BY <1>5, <1>8, <1>15, <1>16, <1>18, <1>19, <1>20, ZenonT(60) DEF PanicInv

LEMMA SameStorable ==
    ASSUME StorableInv, UNCHANGED <<tower, saved, queue>>, sending' = sending \/ sending' = NoOp
    PROVE  StorableInv'
<1>1. Sorted(tower.votes)'
  BY DEF StorableInv, Sorted
<1>2. (saved = NoTower \/ Storable(saved))'
  BY Zenon DEF StorableInv, Storable, OneChain, Sorted, Chain
<1>3. (\A i \in 1..Len(queue) : queue[i].push => Storable(queue[i].tower))'
  BY ZenonT(60) DEF StorableInv, Storable, OneChain, Sorted, Chain
<1>4. (sending = NoOp \/ Sound(sending.tower))'
  BY Zenon DEF StorableInv, Sound
<1> QED BY <1>1, <1>2, <1>3, <1>4, ZenonT(60) DEF StorableInv

LEMMA InitPanic == Init => PanicInv
<1> SUFFICES ASSUME Init PROVE PanicInv
  OBVIOUS
<1>1. RootInv
  BY InitRoot, Zenon
<1>2. /\ queue = <<>> /\ Len(queue) = 0 /\ saved = NoTower /\ sending = NoOp /\ panicked = "no"
      /\ tower.votes = <<>> /\ Len(tower.votes) = 0 /\ tower.root_slot = 0 /\ tower.last_vote = None
      /\ root = 0 /\ frozen = {0} /\ ledger = {0} /\ active = {}
      /\ promised = [s \in Slots |-> None] /\ durable = [s \in Slots |-> None]
  BY EmptySeq, Zenon DEF Init, NewTower
<1>3. BoundsInv
  <2>1. Len(queue) <= MaxQueued
    BY <1>2, TowerAssumption, SMTT(60)
  <2> QED BY <1>2, <2>1, Zenon DEF BoundsInv
<1>4. ForksInv /\ BanksInv /\ LastVoteInv /\ BranchInv /\ CauseInv
  <2>1. 1..Len(tower.votes) = {} /\ "no" # "is_locked_out" /\ "no" # "candidate"
    BY <1>2, SMTT(60)
  <2> QED BY <1>2, <2>1, Zenon DEF ForksInv, BanksInv, LastVoteInv, BranchInv, CauseInv, Chain
<1>5. StorableInv
  <2>1. Sorted(tower.votes)
    BY <1>2, SMTT(60) DEF Sorted
  <2>2. \A i \in 1..Len(queue) : queue[i].push => Storable(queue[i].tower)
    BY <1>2, SMTT(60)
  <2> QED BY <1>2, <2>1, <2>2, Zenon DEF StorableInv
<1> QED BY <1>1, <1>2, <1>3, <1>4, <1>5, Zenon DEF PanicInv

(* While the tower's root is that of BankForks, the assertion of           *)
(* is_locked_out holds for every frozen bank.                              *)
LEMMA SyncedStats ==
    ASSUME RootInv, ForksInv, BranchInv, StorableInv, tower.root_slot = root
    PROVE  StatsComputed
<1> SUFFICES ASSUME NEW s \in frozen, ~is_locked_out(s)
             PROVE  process_next_vote_slot(tower, s).root_slot \in ancestors(s) \cup {s}
  BY Zenon DEF StatsComputed, RootAsserted
<1>1. /\ tower \in TowerType /\ root \in Slots /\ s \in Slots /\ Slots \subseteq Nat
      /\ Sorted(tower.votes)
  BY TowerAssumption, Zenon DEF RootInv, Types, StorableInv
<1>2. is_recent(s) /\ VotesUnder(s) \subseteq ancestors(s)
  BY Zenon DEF is_locked_out
<1>3. last_voted_slot(tower.votes) < s
  BY <1>1, <1>2, RecentVote, Zenon
<1>4. PICK after : after = process_next_vote_slot(tower, s)
  BY Zenon
<1>5. PICK k \in Nat, d \in Nat : VoteMade(tower, after, s, k, d)
  BY <1>1, <1>3, <1>4, NextVoteShape, Zenon
<1>6. ASSUME NEW r \in Chain(s), root <= r PROVE r \in ancestors(s) \cup {s}
  <2>1. r \in Nat /\ root \in Nat
    BY <1>1, ChainSlots, Zenon
  <2>2. r >= root
    BY <1>6, <2>1, SMTT(60)
  <2> QED BY <2>2, Zenon DEF ancestors, Chain
<1>7. root \in Chain(s) /\ root <= root
  <2>1. root \in Nat
    BY <1>1, Zenon
  <2>2. root <= root
    BY <2>1, SMTT(60)
  <2> QED BY <2>2, Zenon DEF ForksInv
<1>8. CASE k # MAX_LOCKOUT_HISTORY
  <2>1. after.root_slot = root
    BY <1>5, <1>8, Zenon DEF VoteMade
  <2> QED BY <1>4, <1>6, <1>7, <2>1, Zenon
<1>9. CASE k = MAX_LOCKOUT_HISTORY
  <2>1. /\ d = 1 /\ k \in 0..Len(tower.votes) /\ Len(after.votes) = k - d + 1
        /\ after.root_slot = tower.votes[1].slot /\ after.votes \in Seq(Vote)
        /\ after.votes[k - d + 1].slot = s
        /\ \A i \in 1..(k - d) : after.votes[i].slot = tower.votes[i + d].slot
    BY <1>5, <1>9, Zenon DEF VoteMade
  <2>2. k - d + 1 \in 1..Len(after.votes) /\ 1 \in 1..Len(after.votes) /\ 1 < k - d + 1 /\ 1 \in 1..(k - d)
        /\ 1 \in 1..Len(tower.votes) /\ 1 + d \in 1..Len(tower.votes) /\ 1 < 1 + d
    <3>1. MAX_LOCKOUT_HISTORY \in Nat /\ VOTE_THRESHOLD_DEPTH \in 1..MAX_LOCKOUT_HISTORY - 1
      BY TowerAssumption, Zenon
    <3>2. k >= 2
      BY <1>9, <3>1, SMTT(60)
    <3>3. Len(tower.votes) \in Nat
      BY <1>1, LenProperties, Zenon DEF TowerType
    <3> QED BY <2>1, <3>2, <3>3, SMTT(60)
  <2>3. PICK x : x = after.votes[1].slot
    BY Zenon
  <2>4. x = tower.votes[1 + d].slot
    BY <2>1, <2>2, <2>3, Zenon
  <2>5. x < s
    <3>1. Sorted(after.votes)
      BY <1>1, <1>3, <1>5, VoteSorted, Zenon
    <3> QED BY <2>1, <2>2, <2>3, <3>1, Zenon DEF Sorted
  <2>6. tower.votes[1].slot \in Slots /\ x \in Slots
    <3>1. \A i \in 1..Len(tower.votes) : tower.votes[i].slot \in Slots
      BY <1>1, RangeVotes, Zenon
    <3> QED BY <2>2, <2>4, <3>1, Zenon
  <2>7. x \in ancestors(s)
    <3>1. x \in VotedSlots(after)
      <4>1. DOMAIN after.votes = 1..Len(after.votes)
        BY <2>1, LenProperties, Zenon
      <4> QED BY <2>2, <2>3, <4>1, Zenon DEF VotedSlots
    <3>2. x # s
      <4>1. x \in Nat /\ s \in Nat
        BY <1>1, <2>6, Zenon
      <4> QED BY <2>5, <4>1, SMTT(60)
    <3> QED BY <1>2, <1>4, <3>1, <3>2, Zenon DEF VotesUnder
  <2>8. PICK r : r = tower.votes[1].slot
    BY Zenon
  <2>9. r \in Chain(s)
    <3>1. r \in Chain(x)
      BY <2>2, <2>4, <2>8, Zenon DEF BranchInv
    <3>2. x \in Chain(s)
      BY <2>7, Zenon DEF ancestors, Chain
    <3> QED BY <1>1, <3>1, <3>2, ChainTransitive, Zenon
  <2>10. root <= r
    <3>1. r \in Nat /\ root \in Nat
      BY <1>1, <2>6, <2>8, Zenon
    <3>2. CASE r <= root
      <4>1. r \in Chain(root)
        BY <1>1, <1>7, <2>9, <3>2, ChainLinear, Zenon
      <4>2. r \notin Above[root]
        BY <2>2, <2>8, Zenon DEF BranchInv
      <4>3. r = root
        BY <4>1, <4>2, Zenon DEF Chain
      <4> QED BY <1>7, <4>3, Zenon
    <3>3. CASE ~(r <= root)
      BY <3>1, <3>3, SMTT(60)
    <3> QED BY <3>2, <3>3, Zenon
  <2> QED BY <1>4, <1>6, <2>1, <2>8, <2>9, <2>10, Zenon
<1> QED BY <1>8, <1>9, Zenon

LEMMA SameBanks ==
    ASSUME RootInv, BoundsInv, ForksInv, BanksInv, BranchInv, LastVoteInv, StorableInv, CauseInv',
           UNCHANGED <<ledger, roots, saved, frozen, active, root, tower, queue, sending, promised, durable>>,
           UNCHANGED <<lastSent, lastSigned>>
    PROVE  PanicInv'
<1>1. RootInv'
  <2>1. Types'
    BY Zenon DEF RootInv, Types
  <2> QED BY <2>1, SameRoot, Zenon
<1>2. StorableInv'
  BY SameStorable, Zenon
<1>3. BoundsInv' /\ ForksInv' /\ BanksInv' /\ BranchInv' /\ LastVoteInv'
  BY Zenon DEF BoundsInv, ForksInv, BanksInv, BranchInv, LastVoteInv, Chain
<1> QED BY <1>1, <1>2, <1>3, Zenon DEF PanicInv

LEMMA SelectPanic ==
    ASSUME PanicInv, NEW s \in Slots, select_vote_and_reset_forks(s)
    PROVE  PanicInv'
<1>1. RootInv /\ BoundsInv /\ ForksInv /\ BanksInv /\ BranchInv /\ LastVoteInv /\ StorableInv
  BY Zenon DEF PanicInv
<1>2. /\ UNCHANGED <<ledger, roots, saved, frozen, active, root, tower, queue, sending, promised, durable>>
      /\ UNCHANGED <<lastSent, lastSigned>>
      /\ Leaf(s) /\ Failure(s) # "no" /\ panicked' = Failure(s)
  BY Zenon DEF select_vote_and_reset_forks, disk, memory, observed
<1>3. LastVoteKnown
  BY <1>1, Zenon DEF LastVoteInv, LastVoteKnown, is_stray_last_vote
<1>4. Suspended(s) => is_stray_last_vote
  BY <1>1, <1>2, NoSwitchPanic, Zenon
<1>5. \/ Failure(s) = "is_locked_out" /\ ~StatsComputed
      \/ Failure(s) = "candidate" /\ ~CandidatesAsserted
  BY <1>2, <1>3, <1>4, Zenon DEF Failure
<1>6. "is_locked_out" # "candidate"
  OBVIOUS
<1>7. CASE Failure(s) = "is_locked_out" /\ ~StatsComputed
  <2>1. tower.root_slot # root /\ root <= tower.root_slot
    BY <1>1, <1>7, SyncedStats, Zenon DEF ForksInv
  <2>2. tower.root_slot \in Nat /\ root \in Nat
    BY <1>1, TowerAssumption, Zenon DEF RootInv, Sound
  <2>3. tower.root_slot > root
    BY <2>1, <2>2, SMTT(60)
  <2>4. CauseInv'
    BY <1>2, <1>6, <1>7, <2>3, Zenon DEF CauseInv
  <2> QED BY <1>1, <1>2, <2>4, SameBanks, Zenon
<1>8. CASE Failure(s) = "candidate" /\ ~CandidatesAsserted
  <2>1. is_stray_last_vote /\ tower.last_vote \in active
    BY <1>1, <1>8, CandidateIsStray, Zenon
  <2>2. CauseInv'
    BY <1>2, <1>6, <1>8, <2>1, Zenon DEF CauseInv, is_stray_last_vote
  <2> QED BY <1>1, <1>2, <2>2, SameBanks, Zenon
<1> QED BY <1>5, <1>7, <1>8, Zenon

LEMMA ReplayPanic ==
    ASSUME PanicInv, panicked = "no", NEW s \in Slots,
           generate_new_bank_forks(s) \/ replay_active_banks(s)
    PROVE  PanicInv'
<1>1. RootInv /\ BoundsInv /\ ForksInv /\ BanksInv /\ BranchInv /\ LastVoteInv /\ StorableInv
  BY Zenon DEF PanicInv
<1>2. UNCHANGED <<saved, root, tower, queue, sending, promised, durable, panicked>>
  <2>1. CASE generate_new_bank_forks(s)
    BY <2>1, Zenon DEF generate_new_bank_forks, disk, observed
  <2>2. CASE replay_active_banks(s)
    BY <2>2, Zenon DEF replay_active_banks, observed
  <2> QED BY <2>1, <2>2, Zenon
<1>3. RootInv' /\ ForksInv' /\ CauseInv'
  BY <1>1, <1>2, BanksRoot, BanksForks, NoCause, Zenon
<1>4. BanksInv'
  <2>1. CASE generate_new_bank_forks(s)
    <3>1. /\ UNCHANGED <<frozen, ledger>> /\ active' = active \cup {s}
          /\ s > root /\ Parent[s] \in frozen
      BY <2>1, Zenon DEF generate_new_bank_forks, disk
    <3>2. s # 0
      <4>1. root \in Nat
        BY <1>1, TowerAssumption, Zenon DEF RootInv
      <4> QED BY <3>1, <4>1, SMTT(60)
    <3> QED BY <1>1, <1>2, <3>1, <3>2, Zenon DEF BanksInv
  <2>2. CASE replay_active_banks(s)
    <3>1. /\ frozen' = frozen \cup {s} /\ ledger' = ledger \cup {s} /\ active' = active \ {s}
          /\ s \in active
      BY <2>2, Zenon DEF replay_active_banks
    <3>2. Parent[s] \in frozen /\ Parent[s] \in ledger
      BY <1>1, <3>1, Zenon DEF BanksInv
    <3> QED BY <1>1, <1>2, <3>1, <3>2, Zenon DEF BanksInv
  <2> QED BY <2>1, <2>2, Zenon
<1>5. BranchInv' /\ LastVoteInv'
  <2>1. frozen \subseteq frozen'
    BY Zenon DEF generate_new_bank_forks, replay_active_banks
  <2> QED BY <1>1, <1>2, <2>1, Zenon DEF BranchInv, LastVoteInv, Chain
<1>6. StorableInv'
  BY <1>1, <1>2, SameStorable, Zenon
<1>7. BoundsInv'
  BY <1>1, <1>2, Zenon DEF BoundsInv
<1> QED BY <1>3, <1>4, <1>5, <1>6, <1>7, Zenon DEF PanicInv

LEMMA RefreshPanic ==
    ASSUME PanicInv, panicked = "no", NEW h \in Slots, refresh_last_vote(h)
    PROVE  PanicInv'
<1>1. RootInv /\ BoundsInv /\ ForksInv /\ BanksInv /\ BranchInv /\ LastVoteInv /\ StorableInv
  BY DEF PanicInv
<1>2. PICK op : op = VoteOp(tower, FALSE)
  BY ZenonT(60)
<1>3. /\ queue' = Append(queue, op) /\ Len(queue) < MaxQueued
      /\ UNCHANGED <<ledger, roots, saved, frozen, active, root, tower, sending, promised, durable, panicked>>
  BY <1>2, Zenon DEF refresh_last_vote, disk, memory, observed
<1>4. op \in VoteOpType /\ ~op.push
  <2>1. Towers(saved, tower, queue, sending)
    BY <1>1, TowersTyped, Zenon
  <2> QED BY <1>2, <2>1, Zenon DEF Towers, VoteOp, VoteOpType
<1>5. /\ Len(queue) \in Nat /\ MaxQueued \in Nat /\ Len(queue') = Len(queue) + 1
      /\ \A i \in 1..Len(queue) : queue'[i] = queue[i]
      /\ queue'[Len(queue) + 1] = op
  <2>1. queue \in Seq(VoteOpType) /\ Len(queue) \in Nat
    BY <1>1, TowersTyped, Zenon DEF Towers
  <2>2. /\ Len(queue') = Len(queue) + 1
        /\ \A i \in 1..Len(queue) : queue'[i] = queue[i]
        /\ queue'[Len(queue) + 1] = op
    BY <1>3, <1>4, <2>1, AppendProperties, SMTT(60)
  <2>3. MaxQueued \in Nat
    BY TowerAssumption, Zenon
  <2> QED BY <2>1, <2>2, <2>3, Zenon
<1>6. \A i \in 1..Len(queue') : queue'[i].push => Storable(queue'[i].tower)
  <2>1. \A i \in 1..Len(queue') : i \in 1..Len(queue) \/ i = Len(queue) + 1
    BY <1>5, SMTT(60)
  <2> QED BY <1>1, <1>4, <1>5, <2>1, Zenon DEF StorableInv
<1>7. BoundsInv'
  <2>1. Len(queue') <= MaxQueued
    BY <1>3, <1>5, SMTT(60)
  <2> QED BY <1>1, <1>3, <2>1, Zenon DEF BoundsInv
<1>8. StorableInv'
  BY <1>1, <1>3, <1>6, ZenonT(60) DEF StorableInv, Storable, OneChain, Sorted, Chain, Sound
<1>9. ForksInv' /\ BanksInv' /\ BranchInv' /\ LastVoteInv' /\ CauseInv'
  BY <1>1, <1>3, NoCause, Zenon DEF ForksInv, BanksInv, BranchInv, LastVoteInv, Chain
<1>10. RootInv'
  BY <1>1, RefreshRoot, Zenon
<1> QED BY <1>1, <1>3, <1>7, <1>8, <1>9, <1>10, ZenonT(60) DEF PanicInv

LEMMA StorePanic ==
    ASSUME PanicInv, panicked = "no", store
    PROVE  PanicInv'
<1>1. RootInv /\ BoundsInv /\ ForksInv /\ BanksInv /\ BranchInv /\ LastVoteInv /\ StorableInv
  BY DEF PanicInv
<1>2. PICK op : op = queue[1]
  OBVIOUS
<1>3. /\ queue # <<>> /\ saved' = (IF op.push THEN [op.tower EXCEPT !.stray = None] ELSE saved)
      /\ sending' = op /\ queue' = Tail(queue)
      /\ UNCHANGED <<ledger, roots, frozen, active, root, tower, promised, durable, panicked>>
  BY <1>2, Zenon DEF store, memory, observed
<1>4. /\ queue \in Seq(VoteOpType) /\ 1 \in 1..Len(queue) /\ Len(queue) \in Nat
      /\ op \in VoteOpType /\ op.tower \in TowerType
  <2>1. queue \in Seq(VoteOpType) /\ 1 \in 1..Len(queue) /\ Len(queue) \in Nat
    BY <1>1, <1>3, EmptySeq, SMTT(60) DEF RootInv, Types
  <2>2. op \in VoteOpType
    BY <1>2, <2>1, ElementOfSeq, Zenon
  <2> QED BY <2>1, <2>2, Zenon DEF VoteOpType
<1>5. Len(queue') = Len(queue) - 1 /\ \A i \in 1..Len(queue') : queue'[i] = queue[i + 1]
  BY <1>3, <1>4, HeadTailProperties, Zenon
<1>6. \A i \in 1..Len(queue') : queue'[i].push => Storable(queue'[i].tower)
  <2>1. \A i \in 1..Len(queue') : i + 1 \in 1..Len(queue)
    BY <1>4, <1>5, SMTT(60)
  <2> QED BY <1>1, <1>5, <2>1, Zenon DEF StorableInv
<1>7. saved' = NoTower \/ Storable(saved')
  <2>1. CASE op.push
    <3>1. Storable(op.tower)
      BY <1>1, <1>2, <1>4, <2>1, ZenonT(60) DEF StorableInv
    <3>2. /\ saved'.votes = op.tower.votes /\ saved'.last_vote = op.tower.last_vote
          /\ saved'.root_slot = op.tower.root_slot
      BY <1>3, <1>4, <2>1, ZenonT(60) DEF TowerType
    <3> QED BY <3>1, <3>2, Zenon DEF Storable, OneChain
  <2>2. CASE ~op.push
    BY <1>1, <1>3, <2>2, Zenon DEF StorableInv
  <2> QED BY <2>1, <2>2, Zenon
<1>8. Sound(sending'.tower)
  BY <1>1, <1>2, <1>3, <1>4, ZenonT(60) DEF RootInv
<1>9. StorableInv'
  BY <1>1, <1>3, <1>6, <1>7, <1>8, Zenon DEF StorableInv, Storable, OneChain, Sorted, Chain, Sound
<1>10. BoundsInv'
  <2>1. Len(queue') <= MaxQueued
    BY <1>1, <1>4, <1>5, TowerAssumption, SMTT(60) DEF BoundsInv
  <2> QED BY <1>1, <1>3, <2>1, ZenonT(60) DEF BoundsInv
<1>11. ForksInv' /\ BanksInv' /\ BranchInv' /\ LastVoteInv' /\ CauseInv'
  BY <1>1, <1>3, NoCause, Zenon DEF ForksInv, BanksInv, BranchInv, LastVoteInv, Chain
<1>12. RootInv'
  BY <1>1, StoreRoot, Zenon
<1> QED BY <1>1, <1>3, <1>9, <1>10, <1>11, <1>12, ZenonT(60) DEF PanicInv

LEMMA SendPanic ==
    ASSUME PanicInv, panicked = "no", send_transaction
    PROVE  PanicInv'
<1>1. RootInv /\ BoundsInv /\ ForksInv /\ BanksInv /\ BranchInv /\ LastVoteInv /\ StorableInv
  BY Zenon DEF PanicInv
<1>2. /\ UNCHANGED <<ledger, saved, frozen, active, root, tower, queue, panicked>> /\ sending # NoOp
      /\ sending' = NoOp /\ promised' = Promise(promised, sending.tower)
      /\ durable' = IF sending.tower.signed THEN Promise(durable, sending.tower) ELSE durable
  BY Zenon DEF send_transaction, disk, memory
<1>3. sending.tower \in TowerType /\ Sound(sending.tower)
  BY <1>1, <1>2, Zenon DEF RootInv, Types, VoteOpType, StorableInv
<1>4. \A v \in Range(sending.tower.votes) : v.confirmation_count \in 1..MAX_LOCKOUT_HISTORY
  BY <1>3, SoundCounts, Zenon
<1>5. \A f : f \in [Slots -> Nat \cup {None}] => f \in [Slots -> Int]
  BY SMTT(60) DEF None
<1>6. ASSUME NEW f \in [Slots -> Nat \cup {None}] PROVE Promise(f, sending.tower) \in [Slots -> Nat \cup {None}]
  <2>1. ASSUME NEW x \in Slots PROVE Promise(f, sending.tower)[x] \in Nat \cup {None}
    <3>1. Promise(f, sending.tower)[x] = f[x] \/ Promise(f, sending.tower)[x] \in Nat
      BY <1>3, <1>4, <1>5, PromiseOf
    <3> QED BY <3>1, Zenon
  <2>2. Promise(f, sending.tower) = [x \in Slots |-> Promise(f, sending.tower)[x]]
    BY Zenon DEF Promise
  <2> QED BY <2>1, <2>2, Zenon
<1>7. BoundsInv'
  BY <1>1, <1>2, <1>6, ZenonT(60) DEF BoundsInv
<1>8. StorableInv'
  BY <1>1, <1>2, SameStorable, ZenonT(60)
<1>9. ForksInv' /\ BanksInv' /\ BranchInv' /\ LastVoteInv' /\ CauseInv'
  BY <1>1, <1>2, NoCause, Zenon DEF ForksInv, BanksInv, BranchInv, LastVoteInv, Chain
<1>10. RootInv'
  BY <1>1, SendRoot, Zenon
<1> QED BY <1>1, <1>2, <1>7, <1>8, <1>9, <1>10, Zenon DEF PanicInv

(* The last vote of a restored tower is stray, or forgotten.               *)
LEMMA RestoredIsStray ==
    ASSUME NEW t \in TowerType, NEW replayed, adjust_lockouts_after_replay(t, replayed).ok
    PROVE  LET u == adjust_lockouts_after_replay(t, replayed).tower
           IN u.last_vote = None \/ u.stray = u.last_vote
<1>1. ASSUME NEW history, adjust_lockouts_with_slot_history(t, history).ok
      PROVE  \E w : \/ adjust_lockouts_with_slot_history(t, history).tower
                          = [t EXCEPT !.votes = <<>>, !.last_vote = None]
                    \/ adjust_lockouts_with_slot_history(t, history).tower
                          = [t EXCEPT !.votes = w, !.stray = t.last_vote]
  BY <1>1, Zenon DEF adjust_lockouts_with_slot_history
<1> DEFINE a == adjust_lockouts_after_replay(t, replayed)
           history == {replayed} \cup Above[replayed]
<1>2. CASE t.root_slot <= replayed
  <2> DEFINE b == adjust_lockouts_with_slot_history(t, history)
  <2>1. b.ok /\ a.tower = [b.tower EXCEPT !.root_slot = replayed]
    BY <1>2, ZenonT(60) DEF adjust_lockouts_after_replay
  <2>2. PICK w : b.tower = [t EXCEPT !.votes = <<>>, !.last_vote = None]
                 \/ b.tower = [t EXCEPT !.votes = w, !.stray = t.last_vote]
    BY <1>1, <2>1, Zenon
  <2> HIDE DEF b
  <2>3. CASE b.tower = [t EXCEPT !.votes = <<>>, !.last_vote = None]
    <3> HIDE DEF a
    <3>1. a.tower.last_vote = None
      BY <2>1, <2>3, ZenonT(60) DEF TowerType
    <3> QED BY <3>1 DEF a
  <2>4. CASE b.tower = [t EXCEPT !.votes = w, !.stray = t.last_vote]
    <3> HIDE DEF a
    <3>1. a.tower.last_vote = t.last_vote /\ a.tower.stray = t.last_vote
      BY <2>1, <2>4, Zenon DEF TowerType
    <3> QED BY <3>1 DEF a
  <2> QED BY <2>2, <2>3, <2>4, ZenonT(60)
<1>3. CASE ~(t.root_slot <= replayed)
  <2> DEFINE b == adjust_lockouts_with_slot_history(t, history \cup {t.root_slot})
  <2>1. b.ok /\ a.tower = b.tower
    BY <1>3, Zenon DEF adjust_lockouts_after_replay, adjust_lockouts_with_slot_history
  <2>2. PICK w : b.tower = [t EXCEPT !.votes = <<>>, !.last_vote = None]
                 \/ b.tower = [t EXCEPT !.votes = w, !.stray = t.last_vote]
    BY <1>1, <2>1, ZenonT(60)
  <2> HIDE DEF a, b
  <2> QED BY <2>1, <2>2, ZenonT(60) DEF TowerType, a
<1> QED BY <1>2, <1>3, ZenonT(60)

\* What BranchInv says of a tower.
Upward(t) ==
    /\ \A i, j \in 1..Len(t.votes) : i < j => t.votes[i].slot \in Chain(t.votes[j].slot)
    /\ \A i \in 1..Len(t.votes) : t.votes[i].slot \notin Above[t.root_slot]

(* The votes a restart keeps are on the fork of the saved ones, and above  *)
(* the root the tower gets.                                                *)
LEMMA RestoredUpward ==
    ASSUME NEW t \in TowerType, Stored(t), Storable(t), NEW replayed \in Supermajority,
           NEW u, u = adjust_lockouts_after_replay(t, replayed).tower,
           adjust_lockouts_after_replay(t, replayed).ok
    PROVE  Upward(u)
<1>1. /\ t.votes # <<>> /\ t.last_vote \in Slots /\ replayed \in Slots /\ t.root_slot \in Slots
      /\ Slots \subseteq Nat /\ Len(t.votes) \in Nat
  BY LenProperties, TowerAssumption, Zenon DEF Stored, Sound, Storable, OneChain, TowerType
<1>2. /\ u.root_slot = IF t.root_slot <= replayed THEN replayed ELSE t.root_slot
      /\ \E m \in Nat : Suffix(t, u.votes, m) /\ Matches(t, Chain(replayed) \cup {u.root_slot}, m)
  BY <1>1, AfterReplayShape, ZenonT(60)
<1>3. PICK m \in Nat : Suffix(t, u.votes, m) /\ Matches(t, Chain(replayed) \cup {u.root_slot}, m)
  BY <1>2, Zenon
<1>4. m \in 1..(Len(t.votes) + 1) /\ Len(u.votes) = Len(t.votes) - m + 1
  BY <1>3, Zenon DEF Suffix
<1>5. ASSUME NEW i \in 1..Len(u.votes)
      PROVE  /\ u.votes[i] = t.votes[m + i - 1]
             /\ m + i - 1 \in 1..Len(t.votes) /\ m + i - 1 \in m..Len(t.votes)
  <2>1. m + i - 1 \in 1..Len(t.votes) /\ m + i - 1 \in m..Len(t.votes)
    BY <1>1, <1>4, SMTT(60)
  <2> QED BY <1>3, <2>1, Zenon DEF Suffix
<1>6. ASSUME NEW i \in 1..Len(t.votes) PROVE t.votes[i].slot \in Chain(t.last_vote) /\ t.votes[i].slot \in Nat
  <2>1. t.votes[i].slot \in Chain(t.last_vote)
    BY RangeVotes, Zenon DEF Storable, OneChain
  <2> QED BY <1>1, <2>1, ChainSlots, Zenon
<1>7. ASSUME NEW i \in 1..Len(u.votes), NEW j \in 1..Len(u.votes), i < j
      PROVE  u.votes[i].slot \in Chain(u.votes[j].slot)
  <2>1. PICK a \in 1..Len(t.votes) : a = m + i - 1
    BY <1>5, Zenon
  <2>2. PICK b \in 1..Len(t.votes) : b = m + j - 1
    BY <1>5, Zenon
  <2>3. a < b
    BY <1>1, <1>4, <1>7, <2>1, <2>2, SMTT(60)
  <2>4. t.votes[a].slot < t.votes[b].slot
    BY <2>3, Zenon DEF Storable, Sorted
  <2>5. t.votes[a].slot \in Nat /\ t.votes[b].slot \in Nat
    BY <1>6, Zenon
  <2>6. t.votes[a].slot <= t.votes[b].slot
    BY <2>4, <2>5, SMTT(60)
  <2>7. t.votes[a].slot \in Chain(t.votes[b].slot)
    <3>1. \A x, y \in Chain(t.last_vote) : x <= y => x \in Chain(y)
      BY <1>1, ChainLinear, Zenon
    <3> QED BY <1>6, <2>6, <3>1, Zenon
  <2> QED BY <1>5, <2>1, <2>2, <2>7, Zenon
<1>8. ASSUME NEW i \in 1..Len(u.votes) PROVE u.votes[i].slot \notin Above[u.root_slot]
  <2>1. PICK a \in 1..Len(t.votes) : a = m + i - 1 /\ a \in m..Len(t.votes) /\ u.votes[i] = t.votes[a]
    BY <1>5, Zenon
  <2>2. CASE t.root_slot <= replayed
    <3>1. u.root_slot = replayed
      BY <1>2, <2>2, Zenon
    <3>2. t.votes[a].slot \notin Chain(replayed)
      BY <1>3, <2>1, Zenon DEF Matches
    <3> QED BY <2>1, <3>1, <3>2, Zenon DEF Chain
  <2>3. CASE ~(t.root_slot <= replayed)
    <3>1. u.root_slot = t.root_slot
      BY <1>2, <2>3, Zenon
    <3>2. t.root_slot <= t.votes[a].slot
      BY <1>3, <2>1, Zenon DEF Matches
    <3>3. t.votes[a].slot \in Nat /\ t.root_slot \in Nat
      BY <1>1, <1>6, Zenon
    <3>4. ~(t.votes[a].slot < t.root_slot)
      BY <3>2, <3>3, SMTT(60)
    <3>5. t.votes[a].slot \notin Above[t.root_slot]
      BY <1>1, <3>4, AboveBelow, Zenon
    <3> QED BY <2>1, <3>1, <3>5, Zenon
  <2> QED BY <2>2, <2>3, Zenon
<1> QED BY <1>7, <1>8, Zenon DEF Upward

LEMMA RestartPanic ==
    ASSUME PanicInv, NEW kept \in ledger, NEW keptRoot \in roots, restart(kept, keptRoot)
    PROVE  PanicInv'
<1>1. RootInv /\ BoundsInv /\ BanksInv /\ StorableInv
  BY ZenonT(60) DEF PanicInv
<1>2. PICK replayed \in Supermajority :
              /\ root' = replayed
              /\ ledger' = {s \in ledger : s <= kept}
              /\ frozen' = {b \in ledger' : b = replayed \/ replayed \in Above[b]} /\ active' = {}
              /\ tower' = IF saved = NoTower THEN NewTower(replayed)
                          ELSE adjust_lockouts_after_replay(saved, replayed).tower
              /\ panicked' = IF saved # NoTower /\ ~adjust_lockouts_after_replay(saved, replayed).ok
                             THEN "restore" ELSE "no"
              /\ queue' = <<>> /\ sending' = NoOp /\ promised' = durable /\ UNCHANGED <<saved, durable>>
  BY <1>1, RestartReplays, ZenonT(60)
<1>3. saved # NoTower => /\ saved \in TowerType /\ Stored(saved) /\ Storable(saved)
                         /\ adjust_lockouts_after_replay(saved, replayed).ok
  <2> SUFFICES ASSUME saved # NoTower
               PROVE  /\ saved \in TowerType /\ Stored(saved) /\ Storable(saved)
                      /\ adjust_lockouts_after_replay(saved, replayed).ok
    BY Zenon
  <2>1. saved \in TowerType /\ Stored(saved) /\ Storable(saved)
    BY <1>1, Zenon DEF RootInv, Types, StorableInv
  <2> QED BY <2>1, StorableIsConsistent, Zenon
<1>4. CauseInv'
  BY <1>2, <1>3, NoCause, Zenon
<1>5. /\ Sorted(tower'.votes) /\ Upward(tower')
      /\ tower'.last_vote = None \/ tower'.stray = tower'.last_vote
      /\ \/ tower'.root_slot = replayed
         \/ /\ replayed <= tower'.root_slot
            /\ \A v \in Range(tower'.votes) : tower'.root_slot \in Chain(v.slot)
  <2>1. CASE saved = NoTower
    <3>1. tower'.votes = <<>> /\ Len(<<>>) = 0 /\ tower'.root_slot = replayed /\ tower'.last_vote = None
      BY <1>2, <2>1, EmptySeq, ZenonT(60) DEF NewTower
    <3>2. 1..Len(tower'.votes) = {}
      BY <3>1, SMTT(60)
    <3> QED BY <3>1, <3>2, Zenon DEF Sorted, Upward
  <2>2. CASE saved # NoTower
    <3>1. tower' = adjust_lockouts_after_replay(saved, replayed).tower /\ replayed \in Slots
      BY <1>2, <2>2, TowerAssumption, ZenonT(60)
    <3>2. /\ \/ tower'.root_slot = replayed
             \/ /\ replayed <= tower'.root_slot
                /\ \A v \in Range(tower'.votes) : tower'.root_slot \in Chain(v.slot)
          /\ tower'.last_vote = None \/ tower'.stray = tower'.last_vote
      BY <1>3, <2>2, <3>1, RestoredKeeps, RestoredIsStray, ZenonT(60) DEF Storable
    <3>3. PICK m \in Nat : Suffix(saved, tower'.votes, m)
      BY <1>3, <2>2, <3>1, AfterReplayShape, ZenonT(60) DEF Stored
    <3>4. ASSUME NEW i \in 1..Len(tower'.votes), NEW j \in 1..Len(tower'.votes), i < j
          PROVE  tower'.votes[i].slot < tower'.votes[j].slot
      <4>1. /\ Len(saved.votes) \in Nat /\ m \in 1..(Len(saved.votes) + 1)
            /\ Len(tower'.votes) = Len(saved.votes) - m + 1
        BY <1>3, <2>2, <3>3, LenProperties, ZenonT(60) DEF Suffix, TowerType
      <4>2. /\ m + i - 1 \in 1..Len(saved.votes) /\ m + j - 1 \in 1..Len(saved.votes)
            /\ m + i - 1 < m + j - 1
        BY <3>4, <4>1, SMTT(60)
      <4>3. saved.votes[m + i - 1].slot < saved.votes[m + j - 1].slot
        BY <1>3, <2>2, <4>2, ZenonT(60) DEF Storable, Sorted
      <4> QED BY <3>3, <4>3, ZenonT(60) DEF Suffix
    <3>5. Upward(tower')
      BY <1>3, <2>2, <3>1, RestoredUpward, Zenon
    <3> QED BY <3>2, <3>4, <3>5, Zenon DEF Sorted
  <2> QED BY <2>1, <2>2, Zenon
<1>6. ForksInv'
  BY <1>2, <1>5, Zenon DEF ForksInv, Chain
<1>7. LastVoteInv'
  BY <1>5, Zenon DEF LastVoteInv
<1>8. Len(queue') = 0
  BY <1>2, EmptySeq, Zenon
<1>9. StorableInv'
  <2>1. (saved = NoTower \/ Storable(saved))'
    BY <1>1, <1>2, Zenon DEF StorableInv, Storable, OneChain, Sorted, Chain
  <2>2. (\A i \in 1..Len(queue) : queue[i].push => Storable(queue[i].tower))'
    BY <1>8, SMTT(60)
  <2>3. Sorted(tower.votes)' /\ sending' = NoOp
    BY <1>2, <1>5, ZenonT(60) DEF Sorted
  <2> QED BY <2>1, <2>2, <2>3, ZenonT(60) DEF StorableInv
<1>10. BoundsInv'
  <2>1. Len(queue') <= MaxQueued
    BY <1>8, TowerAssumption, SMTT(60)
  <2> QED BY <1>1, <1>2, <2>1, ZenonT(60) DEF BoundsInv
<1>11. BanksInv'
  <2>1. ledger \subseteq Slots /\ Slots \subseteq Nat
    BY <1>1, TowerAssumption, ZenonT(60) DEF RootInv, Types
  <2>2. ASSUME NEW b \in ledger', b # 0 PROVE Parent[b] \in ledger'
    <3>1. b \in ledger /\ Parent[b] \in ledger /\ b <= kept
      BY <1>1, <1>2, <2>2, Zenon DEF BanksInv
    <3>2. Parent[b] < b
      BY <2>1, <2>2, <3>1, TowerAssumption, Zenon
    <3>3. Parent[b] <= kept
      <4>1. Parent[b] \in Nat /\ b \in Nat /\ kept \in Nat
        BY <2>1, <3>1, ZenonT(60)
      <4> QED BY <3>1, <3>2, <4>1, SMTT(60)
    <3> QED BY <1>2, <3>1, <3>3, Zenon
  <2>3. ASSUME NEW b \in frozen' \ {root'}, b # 0 PROVE Parent[b] \in frozen'
    <3>1. b \in ledger' /\ replayed \in Above[b] /\ b \in Slots
      BY <1>2, <2>1, <2>3, ZenonT(60)
    <3>2. replayed = Parent[b] \/ replayed \in Above[Parent[b]]
      BY <2>3, <3>1, AboveStep, ZenonT(60)
    <3>3. Parent[b] \in ledger'
      BY <2>2, <2>3, <3>1
    <3> QED BY <1>2, <3>2, <3>3, Zenon
  <2>4. frozen' \subseteq ledger'
    BY <1>2, Zenon
  <2> QED BY <1>2, <2>2, <2>3, <2>4, Zenon DEF BanksInv
<1>12. RootInv'
  BY <1>1, RestartRoot, ZenonT(60)
<1>13. BranchInv'
  BY <1>5, Zenon DEF Upward, BranchInv, Chain
<1> QED BY <1>4, <1>6, <1>7, <1>9, <1>10, <1>11, <1>12, <1>13, ZenonT(60) DEF PanicInv

(* Only a restored tower that is ahead of the banks can fail an assertion, *)
(* for every ledger, tower depth, queue and number of crashes.  set_root   *)
(* finds the bank of the new root, the last vote is among the banks or     *)
(* stray, check_switch_threshold is not asked for an ancestor of it, and,  *)
(* whatever slots and roots the blockstore lost,                           *)
(* adjust_lockouts_after_replay accepts the tower that was stored.  The    *)
(* assertion of is_locked_out fails at most while the tower's root is      *)
(* above that of BankForks, the one of check_switch_threshold at most      *)
(* while the bank of the restored last vote is being replayed again.       *)
THEOREM PanicsAreUnsynced == Spec => []PanicsOnlyUnsynced
<1>1. PanicInv /\ [Next]_vars => PanicInv'
  <2> SUFFICES ASSUME PanicInv, [Next]_vars PROVE PanicInv'
    BY Zenon
  <2>1. CASE UNCHANGED vars
    <3>1. /\ UNCHANGED <<ledger, roots, saved, frozen, active, root, tower, queue, sending, promised, durable>>
          /\ panicked' = panicked
      BY <2>1, Zenon DEF vars
    <3>2. CauseInv'
      BY <3>1, Zenon DEF PanicInv, CauseInv, is_stray_last_vote
    <3>3. /\ RootInv /\ BoundsInv /\ ForksInv /\ BanksInv /\ BranchInv /\ LastVoteInv /\ StorableInv
          /\ lastSent' = lastSent /\ lastSigned' = lastSigned
      BY <2>1, Zenon DEF PanicInv, vars
    <3> QED BY <3>1, <3>2, <3>3, SameBanks, Zenon
  <2>2. CASE Next
    BY <2>2, ReplayPanic, SelectPanic, VotePanic, RefreshPanic, StorePanic, SendPanic, RestartPanic, ZenonT(60) DEF Next
  <2> QED BY <2>1, <2>2, ZenonT(60)
<1>2. PanicInv => PanicsOnlyUnsynced
  <2> SUFFICES ASSUME PanicInv PROVE PanicsOnlyUnsynced
    OBVIOUS
  <2>1. RootInv /\ BoundsInv /\ CauseInv
    BY Zenon DEF PanicInv
  <2>2. VotedSlots(tower) \subseteq Slots
    <3>1. tower.votes \in Seq(Vote) /\ DOMAIN tower.votes = 1..Len(tower.votes)
      BY <2>1, LenProperties, Zenon DEF RootInv, Types, TowerType
    <3>2. \A i \in 1..Len(tower.votes) : tower.votes[i].slot \in Slots
      BY <2>1, RangeVotes, ZenonT(60) DEF RootInv, Types
    <3> QED BY <3>1, <3>2, Zenon DEF VotedSlots
  <2>3. TypeOK
    <3>1. ledger \cup roots \cup frozen \cup active \subseteq Slots
      BY <2>1, TowerAssumption, ZenonT(60) DEF RootInv, Types
    <3>2. Len(tower.votes) <= MAX_LOCKOUT_HISTORY
      BY <2>1, Zenon DEF RootInv, Sound
    <3> QED BY <2>1, <2>2, <3>1, <3>2, Zenon DEF TypeOK, BoundsInv
  <2> QED BY <2>1, <2>3, Zenon DEF PanicsOnlyUnsynced, CauseInv
<1> QED BY InitPanic, <1>1, <1>2, PTL DEF Spec

=============================================================================
