------------------------- MODULE PohRecorderProofs --------------------------
(***************************************************************************)
(* The recorder's assertions, its answers, that it leaves a slot for good, *)
(* and that other validators accept its blocks, for every leader schedule  *)
(* and every number of slots, ticks, hashes and records.  A recorder with  *)
(* a bank has cached exactly the ticks its bank does not have yet; one     *)
(* without a bank, the ticks after the bank it would build on.  The first  *)
(* tick that was not sent takes hashes_per_tick hashes together with the   *)
(* entries that were sent after the last one.                              *)
(***************************************************************************)
EXTENDS PohBlock, FiniteSetTheorems, NaturalsInduction, WellFoundedInduction, TLAPS

Tick == [num_hashes : Int, height : Int]
Bank == [parent : Slots, tick_height : 0..MaxTickHeight, status : {"none", "active", "frozen"}]

Fields == {"tick_height", "start_slot", "start_tick_height", "tick_cache", "working_bank",
           "min_tick_height", "leader_first", "grace_ticks", "num_hashes", "remaining_hashes"}
IsRecorder(r) == r = [f \in Fields |-> r[f]]
IsState(s) == s = [f \in {"recorder", "banks", "broadcast", "result"} |-> s[f]]

RecorderTypes(r) ==
    /\ IsRecorder(r)
    /\ r.tick_height \in 0..MaxTickHeight
    /\ r.start_slot \in Slots
    /\ r.start_tick_height \in Int /\ r.start_tick_height <= r.tick_height + 1
    /\ r.tick_cache \in Seq(Tick)
    /\ r.working_bank \subseteq MyLeaderSlots
    /\ r.min_tick_height \in Int
    /\ r.num_hashes \in Nat /\ r.remaining_hashes \in Nat \ {0}
    /\ r.num_hashes + r.remaining_hashes <= hashes_per_tick

StateTypes(s) ==
    /\ IsState(s)
    /\ RecorderTypes(s.recorder)
    /\ s.banks \in [Slots -> Bank]
    /\ s.broadcast = [x \in Slots |-> s.broadcast[x]]

\* The cache has the ticks after height h.
Aligned(r, h) ==
    /\ h + Len(r.tick_cache) = r.tick_height
    /\ \A i \in 1..Len(r.tick_cache) : r.tick_cache[i].height = h + i

\* The recorder works on the bank of slot x.
Leading(s, x) ==
    /\ x \in MyLeaderSlots
    /\ s.recorder.working_bank = {x}
    /\ s.recorder.leader_first # {}
    /\ s.recorder.min_tick_height <= s.recorder.tick_height
    /\ s.banks[x].status = "active"
    /\ s.banks[x].tick_height <= end_tick_height(x)
    /\ Aligned(s.recorder, s.banks[x].tick_height)

\* What a method may do with the slot x the recorder works on: go on, leave it
\* because it is complete, or give it up because the send failed.
GoesOn(s, t, x) ==
    /\ Leading(t, x)
    /\ t.recorder.tick_height < end_tick_height(x)
    /\ t.recorder.start_slot = s.recorder.start_slot

Leaves(t, x) ==
    /\ t.recorder.working_bank = {}
    /\ t.recorder.start_slot = x
    /\ t.banks[x].status = "active" /\ t.banks[x].tick_height = end_tick_height(x)
    /\ t.recorder.leader_first # {} => Aligned(t.recorder, end_tick_height(x))

GivesUp(t, x) ==
    /\ ~connected
    /\ t.recorder.working_bank = {}
    /\ t.banks[x].status = "active"

Effect(s, t, x) ==
    /\ StateTypes(t)
    /\ \A y \in Slots \ {x} : t.banks[y] = s.banks[y] /\ t.broadcast[y] = s.broadcast[y]
    /\ GoesOn(s, t, x) \/ Leaves(t, x) \/ GivesUp(t, x)

\* The recorder may be given a bank before it is reset again.
MayLead ==
    \/ connected \/ recorder.working_bank # {} \/ replay_pc = "set_bank"
    \/ replay_pc # "has_bank" /\ ~tpu_has_bank

ServiceTypes ==
    /\ connected \in BOOLEAN /\ should_tick \in BOOLEAN
    /\ replay_pc \in {"has_bank", "active_banks", "reset", "start_leader", "set_bank"}
    /\ tpu_has_bank \in BOOLEAN
    /\ results \subseteq {"Ok", "MaxHeightReached", "SendError"}
    /\ "SendError" \in results => ~connected

WorkingInv ==
    recorder.working_bank # {} =>
        /\ \E x \in MyLeaderSlots : Leading(State, x) /\ recorder.tick_height < end_tick_height(x)
        /\ replay_pc # "set_bank"
        /\ replay_pc # "has_bank" => tpu_has_bank

\* The bank that was made and is not set yet builds on the start slot.
NewBankInv ==
    IF replay_pc = "set_bank"
    THEN \E x \in MyLeaderSlots \ {recorder.start_slot} :
            /\ tpu_bank = {x}
            /\ recorder.leader_first # {}
            /\ banks[x].status = "active" /\ banks[x].tick_height <= end_tick_height(x)
            /\ banks[x].tick_height = banks[recorder.start_slot].tick_height
            /\ broadcast[x] = <<>>
    ELSE tpu_bank = {}

StartInv ==
    MayLead /\ recorder.leader_first # {} =>
        /\ banks[recorder.start_slot].status \in {"active", "frozen"}
        /\ banks[recorder.start_slot].tick_height = end_tick_height(recorder.start_slot)
        /\ recorder.working_bank = {} => Aligned(recorder, end_tick_height(recorder.start_slot))
        /\ replay_pc \in {"reset", "start_leader"} /\ ~tpu_has_bank =>
               banks[recorder.start_slot].status = "frozen"

SlotInv ==
    \A s \in Slots :
        /\ banks[s].status = "frozen" => banks[s].tick_height = end_tick_height(s)
        /\ banks[s].status = "none" => broadcast[s] = <<>>

PohInv ==
    /\ StateTypes(State) /\ ServiceTypes /\ WorkingInv /\ NewBankInv /\ StartInv /\ SlotInv

-----------------------------------------------------------------------------
(* The blocks.                                                             *)

Sent == [tick : BOOLEAN, num_hashes : Int]

BlockHeight(s, x) == end_tick_height(s.banks[x].parent) + tick_count(s.broadcast[x])

\* A validator accepts what was sent of slot x.
Accepted(s, x) ==
    /\ s.broadcast[x] \in Seq(Sent)
    /\ BlockHeight(s, x) <= end_tick_height(x)
    /\ s.broadcast[x] # <<>> /\ BlockHeight(s, x) = end_tick_height(x) =>
           s.broadcast[x][Len(s.broadcast[x])].tick
    /\ tick_hash_count(s.broadcast[x]) \in 0..(hashes_per_tick - 1)

Registered(s, x) == s.banks[x].tick_height = BlockHeight(s, x)

\* Every cached tick, and the one under way, takes hashes_per_tick hashes.
FullTicks(r) ==
    /\ r.num_hashes + r.remaining_hashes = hashes_per_tick
    /\ \A i \in 1..Len(r.tick_cache) : r.tick_cache[i].num_hashes = hashes_per_tick

\* So does the first tick that is not sent, with the entries sent before it.
FullFrom(n, r) ==
    IF r.tick_cache = <<>>
    THEN n + r.num_hashes + r.remaining_hashes = hashes_per_tick
    ELSE /\ n + r.tick_cache[1].num_hashes = hashes_per_tick
         /\ r.num_hashes + r.remaining_hashes = hashes_per_tick
         /\ \A i \in 2..Len(r.tick_cache) : r.tick_cache[i].num_hashes = hashes_per_tick

\* What holds of the block of slot x while the recorder works on it and when a
\* method has left it.
Block(s, x) ==
    /\ Accepted(s, x)
    /\ connected =>
           /\ Registered(s, x)
           /\ IF s.recorder.working_bank = {} THEN FullTicks(s.recorder)
              ELSE FullFrom(tick_hash_count(s.broadcast[x]), s.recorder)

BlockInv ==
    /\ \A x \in Slots : broadcast[x] # <<>> \/ x \in recorder.working_bank \cup tpu_bank =>
           Accepted(State, x) /\ (connected => Registered(State, x))
    /\ connected =>
           IF recorder.working_bank = {} THEN FullTicks(recorder)
           ELSE \A x \in recorder.working_bank :
                    FullFrom(tick_hash_count(broadcast[x]), recorder)

-----------------------------------------------------------------------------
(* The methods of the recorder.                                            *)

LEMMA SlotEnd ==
  ASSUME NEW x \in Slots
  PROVE  /\ end_tick_height(x) \in Nat /\ end_tick_height(x) <= MaxTickHeight
         /\ MaxTickHeight \in Int
         /\ x * ticks_per_slot + 1 \in Int /\ x * ticks_per_slot + 1 <= end_tick_height(x) + 1
<1>1. x \in Nat /\ x <= LastSlot /\ LastSlot \in Nat /\ ticks_per_slot \in Nat
  BY PohAssumption DEF Slots
<1>2. \A a, b, c \in Nat : a <= b => (a + 1) * c <= (b + 1) * c /\ (a + 1) * c \in Nat /\ a * c \in Nat
  BY SMT
<1>3. \A a, c \in Nat : a * c <= (a + 1) * c
  BY SMT
<1> QED  BY <1>1, <1>2, <1>3 DEF end_tick_height, MaxTickHeight

LEMMA ComputeLeader ==
  ASSUME NEW r, RecorderTypes(r), NEW next
  PROVE  LET c == compute_leader_slot_tick_heights(r, next) IN
         /\ RecorderTypes(c)
         /\ c.working_bank = r.working_bank /\ c.tick_height = r.tick_height
         /\ c.start_slot = r.start_slot /\ c.tick_cache = r.tick_cache
         /\ c.num_hashes = r.num_hashes /\ c.remaining_hashes = r.remaining_hashes
<1> DEFINE c == compute_leader_slot_tick_heights(r, next)
<1>1. PICK g, l : c = [r EXCEPT !.grace_ticks = g, !.leader_first = l]
  BY ZenonT(60) DEF compute_leader_slot_tick_heights
<1> HIDE DEF c
<1>2. /\ IsRecorder(c)
      /\ \A f \in Fields \ {"grace_ticks", "leader_first"} : c[f] = r[f]
  BY <1>1, Zenon DEF RecorderTypes, IsRecorder
<1>3. /\ c.working_bank = r.working_bank /\ c.tick_height = r.tick_height
      /\ c.start_slot = r.start_slot /\ c.tick_cache = r.tick_cache
      /\ c.num_hashes = r.num_hashes /\ c.remaining_hashes = r.remaining_hashes
      /\ c.start_tick_height = r.start_tick_height /\ c.min_tick_height = r.min_tick_height
  BY <1>2, Zenon DEF Fields
<1>4. RecorderTypes(c)
  BY <1>2, <1>3, Zenon DEF RecorderTypes
<1> QED  BY <1>3, <1>4, Zenon DEF c

LEMMA ClearBank ==
  ASSUME NEW r, RecorderTypes(r), NEW received
  PROVE  LET c == clear_bank(r, received) IN
         /\ RecorderTypes(c)
         /\ c.working_bank = {} /\ c.tick_height = r.tick_height
         /\ c.start_slot = r.start_slot /\ c.tick_cache = r.tick_cache
         /\ c.num_hashes = r.num_hashes /\ c.remaining_hashes = r.remaining_hashes
<1> DEFINE e == [r EXCEPT !.working_bank = {}]
<1>1. /\ RecorderTypes(e) /\ e.working_bank = {} /\ e.tick_height = r.tick_height
      /\ e.start_slot = r.start_slot /\ e.tick_cache = r.tick_cache
      /\ e.num_hashes = r.num_hashes /\ e.remaining_hashes = r.remaining_hashes
  <2>1. /\ IsRecorder(e) /\ e.working_bank = {}
        /\ \A f \in Fields \ {"working_bank"} : e[f] = r[f]
    BY Zenon DEF RecorderTypes, IsRecorder, Fields
  <2> HIDE DEF e
  <2>2. /\ e.tick_height = r.tick_height /\ e.start_slot = r.start_slot
        /\ e.tick_cache = r.tick_cache /\ e.num_hashes = r.num_hashes
        /\ e.remaining_hashes = r.remaining_hashes
        /\ e.start_tick_height = r.start_tick_height /\ e.min_tick_height = r.min_tick_height
    BY <2>1, Zenon DEF Fields
  <2> QED  BY <2>1, <2>2, Zenon DEF RecorderTypes
<1> HIDE DEF e
<1>2. CASE r.working_bank = {}
  BY <1>2, Zenon DEF clear_bank
<1>3. CASE r.working_bank # {}
  <2>1. clear_bank(r, received) = compute_leader_slot_tick_heights(e,
            next_leader_slot(CHOOSE s \in r.working_bank : TRUE, received))
    BY <1>3, Zenon DEF clear_bank, e
  <2> QED  BY <1>1, <2>1, ComputeLeader
<1> QED  BY <1>2, <1>3, Zenon

\* The ticks that belong to the bank: those up to its last one.
LEMMA EntryCount ==
  ASSUME NEW r, r.tick_cache \in Seq(Tick), NEW h \in Nat, NEW max \in Nat, h <= max, Aligned(r, h)
  PROVE  /\ entry_count(r.tick_cache, max) \in 0..Len(r.tick_cache)
         /\ r.tick_height < max => entry_count(r.tick_cache, max) = Len(r.tick_cache)
         /\ r.tick_height >= max => entry_count(r.tick_cache, max) = max - h
<1> DEFINE n == Len(r.tick_cache)
           m == IF h + n < max THEN n ELSE max - h
           S == {k \in 0..n : \A i \in 1..k : r.tick_cache[i].height <= max}
<1>1. n \in Nat /\ m \in 0..n
  OBVIOUS
<1>2. \A i \in 1..n : r.tick_cache[i].height = h + i
  BY Zenon DEF Aligned
<1>3. m \in S
  <2>1. \A i \in 1..m : i \in 1..n /\ h + i <= max
    BY <1>1
  <2> QED  BY <1>1, <1>2, <2>1, Zenon
<1>4. \A k \in S : k <= m
  <2> SUFFICES ASSUME NEW k \in S, k > m PROVE FALSE
    BY <1>1
  <2>1. k \in 1..k /\ k \in 1..n
    BY <1>1
  <2>2. r.tick_cache[k].height <= max
    BY <2>1, Zenon
  <2> QED  BY <1>1, <1>2, <2>1, <2>2
<1>5. Max(S) \in S /\ \A y \in S : Max(S) >= y
  <2>1. \E k \in S : \A y \in S : k >= y
    BY <1>1, <1>3, <1>4, Zenon
  <2> HIDE DEF S
  <2> QED  BY <2>1, Zenon DEF Max
<1>6. Max(S) = m
  <2>1. \A k \in S : k \in Nat
    BY <1>1
  <2> HIDE DEF S, m
  <2> QED  BY <1>3, <1>4, <1>5, <2>1
<1>7. entry_count(r.tick_cache, max) = Max(S)
  BY Zenon DEF entry_count
<1>8. h + n = r.tick_height
  BY Zenon DEF Aligned
<1> HIDE DEF S
<1> QED  BY <1>1, <1>6, <1>7, <1>8

\* The cache without its first ticks.
LEMMA DropTicks ==
  ASSUME NEW c \in Seq(Tick), NEW k \in 0..Len(c)
  PROVE  LET d == SubSeq(c, k + 1, Len(c)) IN
         /\ d \in Seq(Tick) /\ Len(d) = Len(c) - k
         /\ \A i \in 1..Len(d) : d[i] = c[k + i]
<1>1. k + 1 \in 1..(Len(c) + 1) /\ Len(c) \in Nat
  OBVIOUS
<1> QED  BY <1>1

\* What flush_ticks does to the recorder: leave a complete slot, and drop the
\* ticks that were sent.
Ended(r, x, received) ==
    IF r.tick_height >= end_tick_height(x)
    THEN clear_bank([r EXCEPT !.start_slot = x, !.start_tick_height = x * ticks_per_slot + 1],
                    received)
    ELSE r
Dropped(r, n) == [r EXCEPT !.tick_cache = SubSeq(@, n + 1, Len(@))]

\* Sums of tick heights and numbers of ticks.
LEMMA SumMoves ==
  ASSUME NEW e \in Nat, NEW k \in Nat, NEW n \in Nat
  PROVE  e + (k + n) = (e + k) + n
OBVIOUS

\* The tick height of a bank is a natural number.
LEMMA BankHeight ==
  ASSUME NEW b \in Bank
  PROVE  b.tick_height \in Nat
BY DEF Bank

LEMMA EndedFields ==
  ASSUME NEW r, RecorderTypes(r), NEW x \in Slots, NEW received
  PROVE  LET q == Ended(r, x, received) IN
         /\ RecorderTypes(q) /\ q.tick_height = r.tick_height /\ q.tick_cache = r.tick_cache
         /\ q.num_hashes = r.num_hashes /\ q.remaining_hashes = r.remaining_hashes
         /\ r.tick_height >= end_tick_height(x) => q.working_bank = {} /\ q.start_slot = x
         /\ r.tick_height < end_tick_height(x) => q = r
<1>1. r.tick_height \in Int /\ end_tick_height(x) \in Int
  BY SlotEnd DEF RecorderTypes
<1>2. CASE r.tick_height >= end_tick_height(x)
  <2> DEFINE e == [r EXCEPT !.start_slot = x, !.start_tick_height = x * ticks_per_slot + 1]
  <2>1. Ended(r, x, received) = clear_bank(e, received)
    BY <1>2, Zenon DEF Ended
  <2>2. /\ IsRecorder(e) /\ e.start_slot = x
        /\ e.start_tick_height = x * ticks_per_slot + 1
        /\ \A f \in Fields \ {"start_slot", "start_tick_height"} : e[f] = r[f]
    BY Zenon DEF RecorderTypes, IsRecorder, Fields
  <2> HIDE DEF e
  <2>3. /\ e.tick_height = r.tick_height /\ e.tick_cache = r.tick_cache
        /\ e.num_hashes = r.num_hashes /\ e.remaining_hashes = r.remaining_hashes
        /\ e.working_bank = r.working_bank /\ e.min_tick_height = r.min_tick_height
    BY <2>2, Zenon DEF Fields
  <2>4. /\ x * ticks_per_slot + 1 \in Int
        /\ x * ticks_per_slot + 1 <= end_tick_height(x) + 1
    BY SlotEnd, Zenon
  <2>5. e.start_tick_height \in Int /\ e.start_tick_height <= e.tick_height + 1
    BY <1>1, <1>2, <2>2, <2>3, <2>4
  <2>6. RecorderTypes(e)
    BY <2>2, <2>3, <2>5, Zenon DEF RecorderTypes
  <2>7. ~(r.tick_height < end_tick_height(x))
    BY <1>1, <1>2
  <2> QED  BY <2>1, <2>2, <2>3, <2>6, <2>7, ClearBank
<1>3. CASE ~(r.tick_height >= end_tick_height(x))
  BY <1>3, Zenon DEF Ended
<1> QED  BY <1>2, <1>3, Zenon

LEMMA DroppedFields ==
  ASSUME NEW r, RecorderTypes(r), NEW n \in 0..Len(r.tick_cache)
  PROVE  LET q == Dropped(r, n) IN
         /\ RecorderTypes(q) /\ q.tick_height = r.tick_height
         /\ q.num_hashes = r.num_hashes /\ q.remaining_hashes = r.remaining_hashes
         /\ q.working_bank = r.working_bank /\ q.start_slot = r.start_slot
         /\ q.leader_first = r.leader_first /\ q.min_tick_height = r.min_tick_height
         /\ \A h \in Nat : Aligned(r, h) => Aligned(q, h + n)
<1> DEFINE d == SubSeq(r.tick_cache, n + 1, Len(r.tick_cache))
           q == Dropped(r, n)
<1>1. Len(r.tick_cache) \in Nat /\ n \in Nat
  BY DEF RecorderTypes
<1>2. /\ d \in Seq(Tick) /\ Len(d) = Len(r.tick_cache) - n
      /\ \A i \in 1..Len(d) : d[i] = r.tick_cache[n + i]
  BY DropTicks, Zenon DEF RecorderTypes
<1>3. /\ IsRecorder(q) /\ q.tick_cache = d
      /\ \A f \in Fields \ {"tick_cache"} : q[f] = r[f]
  BY Zenon DEF RecorderTypes, IsRecorder, Fields, Dropped
<1> HIDE DEF d, q
<1>4. /\ q.tick_height = r.tick_height /\ q.start_tick_height = r.start_tick_height
      /\ q.num_hashes = r.num_hashes /\ q.remaining_hashes = r.remaining_hashes
      /\ q.working_bank = r.working_bank /\ q.start_slot = r.start_slot
      /\ q.leader_first = r.leader_first /\ q.min_tick_height = r.min_tick_height
  BY <1>3, Zenon DEF Fields
<1>5. RecorderTypes(q)
  BY <1>2, <1>3, <1>4, Zenon DEF RecorderTypes
<1>6. ASSUME NEW h \in Nat, Aligned(r, h) PROVE Aligned(q, h + n)
  <2>1. /\ h + Len(r.tick_cache) = r.tick_height
        /\ \A i \in 1..Len(r.tick_cache) : r.tick_cache[i].height = h + i
    BY <1>6, Zenon DEF Aligned
  <2>2. h + n + Len(d) = r.tick_height
    <3>1. \A l \in Nat : n <= l => h + n + (l - n) = h + l
      BY <1>1
    <3>2. n <= Len(r.tick_cache)
      BY <1>1
    <3> QED  BY <1>1, <1>2, <2>1, <3>1, <3>2, Zenon
  <2>3. ASSUME NEW i \in 1..Len(d) PROVE d[i].height = h + n + i
    <3>1. n + i \in 1..Len(r.tick_cache) /\ i \in Nat
      BY <1>1, <1>2
    <3>2. d[i].height = h + (n + i)
      BY <1>2, <2>1, <3>1, Zenon
    <3> QED  BY <1>1, <3>1, <3>2
  <2> QED  BY <1>3, <1>4, <2>2, <2>3, Zenon DEF Aligned
<1> QED  BY <1>4, <1>5, <1>6, Zenon DEF q

\* The recorder goes on with the bank, or it leaves it because it is complete
\* or because the send failed.
LEMMA FlushTicks ==
  ASSUME NEW s, NEW x, StateTypes(s), Leading(s, x), NEW received
  PROVE  LET t == flush_ticks(s, x, received) IN
         /\ Effect(s, t, x) /\ t.result = "Ok"
         /\ t.recorder.tick_height = s.recorder.tick_height
         /\ t.recorder.num_hashes = s.recorder.num_hashes
         /\ t.recorder.remaining_hashes = s.recorder.remaining_hashes
<1>0. PICK r, h, max, t, ended, count :
          /\ r = s.recorder /\ h = s.banks[x].tick_height /\ max = end_tick_height(x)
          /\ t = flush_ticks(s, x, received) /\ ended = Ended(r, x, received)
          /\ count = entry_count(r.tick_cache, max)
  BY Zenon
<1> DEFINE sent == connected \/ count = 0
<1>1. /\ RecorderTypes(r) /\ x \in MyLeaderSlots /\ x \in Slots /\ s.banks[x] \in Bank
      /\ h \in Nat /\ max \in Nat /\ h <= max /\ max <= MaxTickHeight /\ Aligned(r, h)
      /\ r.tick_height \in Nat /\ r.tick_height <= MaxTickHeight /\ MaxTickHeight \in Int
  <2>1. x \in MyLeaderSlots /\ x \in Slots
    BY PohAssumption, Zenon DEF Leading
  <2>2. RecorderTypes(r) /\ s.banks[x] \in Bank /\ h <= max /\ Aligned(r, h)
    BY <1>0, <2>1, Zenon DEF StateTypes, Leading
  <2>3. max \in Nat /\ max <= MaxTickHeight /\ MaxTickHeight \in Int
    BY <1>0, <2>1, SlotEnd, Zenon
  <2> QED  BY <1>0, <2>1, <2>2, <2>3, SMTT(60) DEF Bank, RecorderTypes
<1>2. /\ count \in 0..Len(r.tick_cache) /\ Len(r.tick_cache) \in Nat
      /\ r.tick_height < max => count = Len(r.tick_cache)
      /\ r.tick_height >= max => count = max - h
  <2>1. r.tick_cache \in Seq(Tick)
    BY <1>1, Zenon DEF RecorderTypes
  <2>2. /\ count \in 0..Len(r.tick_cache)
        /\ r.tick_height < max => count = Len(r.tick_cache)
        /\ r.tick_height >= max => count = max - h
    BY <1>0, <1>1, <2>1, EntryCount, ZenonT(60)
  <2> QED  BY <2>1, <2>2
<1>3. /\ t.recorder = (IF sent THEN Dropped(ended, count) ELSE clear_bank(ended, received))
      /\ t.banks = [s.banks EXCEPT ![x].tick_height = @ + (IF sent THEN count ELSE 1)]
      /\ \E ticks : t.broadcast = (IF sent THEN [s.broadcast EXCEPT ![x] = @ \o ticks]
                                   ELSE s.broadcast)
      /\ t.result = "Ok"
      /\ IsState(t)
  BY <1>0, Zenon DEF flush_ticks, IsState, Ended, Dropped
<1>4. /\ RecorderTypes(ended) /\ ended.tick_height = r.tick_height /\ ended.tick_cache = r.tick_cache
      /\ ended.num_hashes = r.num_hashes /\ ended.remaining_hashes = r.remaining_hashes
      /\ r.tick_height >= max => ended.working_bank = {} /\ ended.start_slot = x
      /\ r.tick_height < max => ended = r
  BY <1>0, <1>1, EndedFields
<1>5. h + count <= max /\ (r.tick_height >= max => h + count = max)
  <2>1. h + Len(r.tick_cache) = r.tick_height
    BY <1>1, Zenon DEF Aligned
  <2> QED  BY <1>1, <1>2, <2>1
<1>6. /\ t.banks \in [Slots -> Bank]
      /\ t.banks[x].status = "active"
      /\ t.banks[x].tick_height = h + (IF sent THEN count ELSE 1)
      /\ \A y \in Slots \ {x} : t.banks[y] = s.banks[y]
  <2> DEFINE n == h + (IF sent THEN count ELSE 1)
             b == [s.banks[x] EXCEPT !.tick_height = n]
  <2>1. count \in Nat
    BY <1>2
  <2>2. n \in 0..MaxTickHeight
    BY <1>1, <1>5, <2>1
  <2>3. t.banks = [s.banks EXCEPT ![x] = b]
    BY <1>0, <1>1, <1>3, Zenon DEF StateTypes
  <2> HIDE DEF n
  <2>4. b \in Bank /\ b.tick_height = n /\ b.status = s.banks[x].status
    BY <1>1, <2>2, Zenon DEF Bank
  <2> HIDE DEF b
  <2> QED  BY <1>1, <2>3, <2>4, Zenon DEF StateTypes, Leading, n
<1>7. /\ t.broadcast = [y \in Slots |-> t.broadcast[y]]
      /\ \A y \in Slots \ {x} : t.broadcast[y] = s.broadcast[y]
  BY <1>1, <1>3, Zenon DEF StateTypes
<1>8. ASSUME sent
      PROVE  /\ Effect(s, t, x) /\ t.recorder.tick_height = r.tick_height
             /\ t.recorder.num_hashes = r.num_hashes
             /\ t.recorder.remaining_hashes = r.remaining_hashes
  <2>1. Aligned(ended, h)
    BY <1>1, <1>4, Zenon DEF Aligned
  <2>2. count \in 0..Len(ended.tick_cache)
    BY <1>2, <1>4, Zenon
  <2>3. /\ RecorderTypes(t.recorder) /\ t.recorder.tick_height = ended.tick_height
        /\ t.recorder.num_hashes = ended.num_hashes
        /\ t.recorder.remaining_hashes = ended.remaining_hashes
        /\ t.recorder.working_bank = ended.working_bank
        /\ t.recorder.start_slot = ended.start_slot
        /\ t.recorder.leader_first = ended.leader_first
        /\ t.recorder.min_tick_height = ended.min_tick_height
        /\ Aligned(t.recorder, h + count)
    BY <1>1, <1>3, <1>4, <1>8, <2>1, <2>2, DroppedFields
  <2>4. StateTypes(t)
    BY <1>3, <1>6, <1>7, <2>3, Zenon DEF StateTypes
  <2>5. t.banks[x].status = "active" /\ t.banks[x].tick_height = h + count
    BY <1>6, <1>8, Zenon
  <2>6. CASE r.tick_height >= max
    <3>1. Leaves(t, x)
      BY <1>0, <1>4, <1>5, <2>3, <2>5, <2>6, Zenon DEF Leaves
    <3> QED  BY <1>4, <1>6, <1>7, <2>3, <2>4, <3>1, Zenon DEF Effect
  <2>7. CASE r.tick_height < max
    <3>1. ended = r
      BY <1>4, <2>7, Zenon
    <3>2. GoesOn(s, t, x)
      BY <1>0, <1>5, <2>3, <2>5, <2>7, <3>1, Zenon DEF GoesOn, Leading
    <3> QED  BY <1>4, <1>6, <1>7, <2>3, <2>4, <3>2, Zenon DEF Effect
  <2> QED  BY <1>1, <2>6, <2>7
<1>9. ASSUME ~sent
      PROVE  /\ Effect(s, t, x) /\ t.recorder.tick_height = r.tick_height
             /\ t.recorder.num_hashes = r.num_hashes
             /\ t.recorder.remaining_hashes = r.remaining_hashes
  <2>1. t.recorder = clear_bank(ended, received)
    BY <1>3, <1>9, Zenon
  <2>2. /\ RecorderTypes(t.recorder) /\ t.recorder.working_bank = {}
        /\ t.recorder.tick_height = r.tick_height
        /\ t.recorder.num_hashes = r.num_hashes /\ t.recorder.remaining_hashes = r.remaining_hashes
    BY <1>4, <2>1, ClearBank
  <2>3. StateTypes(t)
    BY <1>3, <1>6, <1>7, <2>2, Zenon DEF StateTypes
  <2>4. GivesUp(t, x)
    BY <1>6, <1>9, <2>2, Zenon DEF GivesUp
  <2> QED  BY <1>6, <1>7, <2>2, <2>3, <2>4, Zenon DEF Effect
<1> QED  BY <1>0, <1>3, <1>8, <1>9, Zenon

LEMMA FlushCache ==
  ASSUME NEW s, NEW x, Leading(s, x), NEW received, NEW ticks \in BOOLEAN,
         s.recorder.min_tick_height \in Int, s.recorder.tick_height \in Int,
         ticks => s.recorder.min_tick_height < s.recorder.tick_height
  PROVE  flush_cache(s, ticks, received) = flush_ticks(s, x, received)
<1>1. (CHOOSE slot \in s.recorder.working_bank : TRUE) = x /\ s.recorder.working_bank # {}
  BY Zenon DEF Leading
<1>2. ~(s.recorder.tick_height < s.recorder.min_tick_height)
      /\ ~(ticks /\ s.recorder.tick_height = s.recorder.min_tick_height)
  BY DEF Leading
<1> QED  BY <1>1, <1>2, Zenon DEF flush_cache

LEMMA NewResult ==
  ASSUME NEW t, StateTypes(t), NEW v
  PROVE  LET u == [t EXCEPT !.result = v] IN
         /\ StateTypes(u) /\ u.recorder = t.recorder /\ u.banks = t.banks
         /\ u.broadcast = t.broadcast /\ u.result = v
<1> DEFINE u == [t EXCEPT !.result = v]
<1>1. /\ IsState(u) /\ u.recorder = t.recorder /\ u.banks = t.banks
      /\ u.broadcast = t.broadcast /\ u.result = v
  BY Zenon DEF StateTypes, IsState
<1> HIDE DEF u
<1>2. StateTypes(u)
  BY <1>1, Zenon DEF StateTypes
<1> QED  BY <1>1, <1>2, Zenon DEF u

LEMMA NewRecorder ==
  ASSUME NEW t, StateTypes(t), NEW r, RecorderTypes(r)
  PROVE  LET u == [t EXCEPT !.recorder = r] IN
         /\ StateTypes(u) /\ u.recorder = r /\ u.banks = t.banks
         /\ u.broadcast = t.broadcast /\ u.result = t.result
<1> DEFINE u == [t EXCEPT !.recorder = r]
<1>1. /\ IsState(u) /\ u.recorder = r /\ u.banks = t.banks
      /\ u.broadcast = t.broadcast /\ u.result = t.result
  BY Zenon DEF StateTypes, IsState
<1> HIDE DEF u
<1>2. StateTypes(u)
  BY <1>1, Zenon DEF StateTypes
<1> QED  BY <1>1, <1>2, Zenon DEF u

\* Effects depend on the fields only, and one may follow another.
LEMMA SameEffect ==
  ASSUME NEW s, NEW t, NEW u, NEW x, Effect(s, t, x), StateTypes(u),
         u.recorder = t.recorder, u.banks = t.banks, u.broadcast = t.broadcast
  PROVE  Effect(s, u, x) /\ (GoesOn(s, t, x) => GoesOn(s, u, x))
  BY Zenon DEF Effect, GoesOn, Leaves, GivesUp, Leading

LEMMA TwoEffects ==
  ASSUME NEW s, NEW t, NEW u, NEW x, Effect(s, t, x), GoesOn(s, t, x), Effect(t, u, x)
  PROVE  Effect(s, u, x)
  BY Zenon DEF Effect, GoesOn

\* The recorder after a tick, with and without the tick in its cache.
Hashed(r) == [r EXCEPT !.num_hashes = @ + 1, !.remaining_hashes = @ - 1]
Ticked(r) == [r EXCEPT !.num_hashes = 0, !.remaining_hashes = hashes_per_tick, !.tick_height = @ + 1]
Cached(r) ==
    [Ticked(r) EXCEPT !.tick_cache =
        Append(@, [num_hashes |-> Hashed(r).num_hashes, height |-> Ticked(r).tick_height])]

SameStart(r, q) ==
    /\ q.working_bank = r.working_bank /\ q.start_slot = r.start_slot
    /\ q.leader_first = r.leader_first /\ q.min_tick_height = r.min_tick_height

LEMMA TickFields ==
  ASSUME NEW r, RecorderTypes(r)
  PROVE  /\ r.remaining_hashes # 1 =>
                /\ RecorderTypes(Hashed(r)) /\ SameStart(r, Hashed(r))
                /\ Hashed(r).tick_height = r.tick_height /\ Hashed(r).tick_cache = r.tick_cache
         /\ r.tick_height < MaxTickHeight =>
                /\ RecorderTypes(Ticked(r)) /\ SameStart(r, Ticked(r))
                /\ Ticked(r).tick_height = r.tick_height + 1
                /\ RecorderTypes(Cached(r)) /\ SameStart(r, Cached(r))
                /\ Cached(r).tick_height = r.tick_height + 1
                /\ Cached(r).remaining_hashes = hashes_per_tick
                /\ \A h \in Int : Aligned(r, h) => Aligned(Cached(r), h)
<1>1. ASSUME r.remaining_hashes # 1
      PROVE  /\ RecorderTypes(Hashed(r)) /\ SameStart(r, Hashed(r))
             /\ Hashed(r).tick_height = r.tick_height /\ Hashed(r).tick_cache = r.tick_cache
  <2>1. /\ IsRecorder(Hashed(r))
        /\ Hashed(r).num_hashes = r.num_hashes + 1
        /\ Hashed(r).remaining_hashes = r.remaining_hashes - 1
        /\ \A f \in Fields \ {"num_hashes", "remaining_hashes"} : Hashed(r)[f] = r[f]
    BY Zenon DEF RecorderTypes, IsRecorder, Fields, Hashed
  <2>2. /\ SameStart(r, Hashed(r))
        /\ Hashed(r).tick_height = r.tick_height /\ Hashed(r).tick_cache = r.tick_cache
        /\ Hashed(r).start_tick_height = r.start_tick_height
    BY <2>1, Zenon DEF Fields, SameStart
  <2>3. /\ r.num_hashes + 1 \in Nat /\ r.remaining_hashes - 1 \in Nat \ {0}
        /\ r.num_hashes + 1 + (r.remaining_hashes - 1) <= hashes_per_tick
    <3>1. \A a \in Nat, b \in Nat \ {0} : b # 1 =>
              a + 1 \in Nat /\ b - 1 \in Nat \ {0} /\ a + 1 + (b - 1) = a + b
      BY SMT
    <3> QED  BY <1>1, <3>1, Zenon DEF RecorderTypes
  <2>4. RecorderTypes(Hashed(r))
    BY <2>1, <2>2, <2>3, Zenon DEF RecorderTypes, SameStart
  <2> QED  BY <2>2, <2>4, ZenonT(60)
<1>2. ASSUME r.tick_height < MaxTickHeight
      PROVE  /\ RecorderTypes(Ticked(r)) /\ SameStart(r, Ticked(r))
             /\ Ticked(r).tick_height = r.tick_height + 1
             /\ RecorderTypes(Cached(r)) /\ SameStart(r, Cached(r))
             /\ Cached(r).tick_height = r.tick_height + 1
             /\ Cached(r).remaining_hashes = hashes_per_tick
             /\ \A h \in Int : Aligned(r, h) => Aligned(Cached(r), h)
  <2>0. MaxTickHeight \in Int
    BY PohAssumption DEF MaxTickHeight
  <2>1. /\ RecorderTypes(Ticked(r)) /\ SameStart(r, Ticked(r))
        /\ Ticked(r).tick_height = r.tick_height + 1 /\ Ticked(r).tick_cache = r.tick_cache
        /\ Ticked(r).remaining_hashes = hashes_per_tick
    <3>1. /\ IsRecorder(Ticked(r)) /\ Ticked(r).num_hashes = 0
          /\ Ticked(r).remaining_hashes = hashes_per_tick
          /\ Ticked(r).tick_height = r.tick_height + 1
          /\ \A f \in Fields \ {"num_hashes", "remaining_hashes", "tick_height"} : Ticked(r)[f] = r[f]
      BY Zenon DEF RecorderTypes, IsRecorder, Fields, Ticked
    <3>2. /\ SameStart(r, Ticked(r)) /\ Ticked(r).tick_cache = r.tick_cache
          /\ Ticked(r).start_tick_height = r.start_tick_height
      BY <3>1, Zenon DEF Fields, SameStart
    <3>3. /\ r.tick_height + 1 \in 0..MaxTickHeight
          /\ r.start_tick_height <= r.tick_height + 1 + 1
          /\ hashes_per_tick \in Nat \ {0} /\ 0 + hashes_per_tick <= hashes_per_tick
      <4>1. hashes_per_tick \in Nat \ {0}
        BY PohAssumption, Zenon
      <4>2. /\ r.tick_height \in 0..MaxTickHeight /\ r.start_tick_height \in Int
            /\ r.start_tick_height <= r.tick_height + 1
        BY Zenon DEF RecorderTypes
      <4> QED  BY <1>2, <2>0, <4>1, <4>2
    <3>4. RecorderTypes(Ticked(r))
      BY <3>1, <3>2, <3>3 DEF RecorderTypes, SameStart
    <3> QED  BY <3>1, <3>2, <3>4, Zenon
  <2> DEFINE e == [num_hashes |-> Hashed(r).num_hashes, height |-> Ticked(r).tick_height]
  <2>2. e \in Tick /\ e.height = r.tick_height + 1
    BY <2>1 DEF RecorderTypes, Hashed, Tick
  <2> HIDE DEF e
  <2>3. /\ Append(r.tick_cache, e) \in Seq(Tick)
        /\ Len(Append(r.tick_cache, e)) = Len(r.tick_cache) + 1 /\ Len(r.tick_cache) \in Nat
        /\ \A i \in 1..Len(r.tick_cache) : Append(r.tick_cache, e)[i] = r.tick_cache[i]
        /\ Append(r.tick_cache, e)[Len(r.tick_cache) + 1] = e
    BY <2>2, SMTT(60) DEF RecorderTypes
  <2>4. Cached(r) = [Ticked(r) EXCEPT !.tick_cache = Append(r.tick_cache, e)]
    BY <2>1, Zenon DEF Cached, e
  <2>5. /\ RecorderTypes(Cached(r)) /\ SameStart(Ticked(r), Cached(r))
        /\ Cached(r).tick_height = Ticked(r).tick_height
        /\ Cached(r).remaining_hashes = Ticked(r).remaining_hashes
        /\ Cached(r).tick_cache = Append(r.tick_cache, e)
    <3>1. /\ IsRecorder(Cached(r)) /\ Cached(r).tick_cache = Append(r.tick_cache, e)
          /\ \A f \in Fields \ {"tick_cache"} : Cached(r)[f] = Ticked(r)[f]
      BY <2>1, <2>4, Zenon DEF RecorderTypes, IsRecorder, Fields
    <3>2. /\ SameStart(Ticked(r), Cached(r)) /\ Cached(r).tick_height = Ticked(r).tick_height
          /\ Cached(r).start_tick_height = Ticked(r).start_tick_height
          /\ Cached(r).num_hashes = Ticked(r).num_hashes
          /\ Cached(r).remaining_hashes = Ticked(r).remaining_hashes
      BY <3>1, Zenon DEF Fields, SameStart
    <3>3. RecorderTypes(Cached(r))
      BY <2>1, <2>3, <3>1, <3>2, Zenon DEF RecorderTypes, SameStart
    <3> QED  BY <3>1, <3>2, <3>3, Zenon
  <2>6. ASSUME NEW h \in Int, Aligned(r, h) PROVE Aligned(Cached(r), h)
    <3>1. h + Len(r.tick_cache) = r.tick_height /\ \A i \in 1..Len(r.tick_cache) : r.tick_cache[i].height = h + i
      BY <2>6, Zenon DEF Aligned
    <3>2. \A i \in 1..(Len(r.tick_cache) + 1) : Append(r.tick_cache, e)[i].height = h + i
      <4> TAKE i \in 1..(Len(r.tick_cache) + 1)
      <4>1. CASE i \in 1..Len(r.tick_cache)
        BY <2>3, <3>1, <4>1, Zenon
      <4>2. CASE i = Len(r.tick_cache) + 1
        BY <2>2, <2>3, <3>1, <4>2
      <4> QED  BY <2>3, <4>1, <4>2
    <3>3. /\ Cached(r).tick_cache = Append(r.tick_cache, e)
          /\ Cached(r).tick_height = r.tick_height + 1
      BY <2>1, <2>5, Zenon
    <3>4. h + (Len(r.tick_cache) + 1) = r.tick_height + 1
      BY <2>3, <3>1
    <3> QED  BY <2>3, <3>2, <3>3, <3>4, Zenon DEF Aligned
  <2> QED  BY <2>1, <2>5, <2>6, Zenon DEF SameStart
<1> QED  BY <1>1, <1>2, Zenon

LEMMA TickCached ==
  ASSUME NEW s, NEW received, Hashed(s.recorder).remaining_hashes = 0,
         s.recorder.leader_first # {}
  PROVE  poh_tick(s, received) =
             flush_cache([s EXCEPT !.recorder = Cached(s.recorder)], TRUE, received)
  BY Zenon DEF poh_tick, Hashed, Ticked, Cached

LEMMA PohTickLeading ==
  ASSUME NEW s, NEW x, StateTypes(s), Leading(s, x), s.recorder.tick_height < end_tick_height(x),
         NEW received
  PROVE  LET t == poh_tick(s, received) IN
         /\ Effect(s, t, x)
         /\ s.recorder.remaining_hashes = 1 /\ GoesOn(s, t, x) =>
                t.recorder.remaining_hashes = hashes_per_tick
<1> DEFINE r == s.recorder
           t == poh_tick(s, received)
<1>1. /\ RecorderTypes(r) /\ x \in Slots /\ r.tick_height < MaxTickHeight
      /\ s.banks[x].tick_height \in Nat
  <2>1. x \in Slots /\ RecorderTypes(r) /\ s.banks[x] \in Bank
    BY PohAssumption, Zenon DEF StateTypes, Leading
  <2>2. end_tick_height(x) \in Nat /\ end_tick_height(x) <= MaxTickHeight /\ MaxTickHeight \in Int
    BY <2>1, SlotEnd, Zenon
  <2>3. r.tick_height \in Int /\ s.banks[x].tick_height \in Nat
    BY <2>1 DEF RecorderTypes, Bank
  <2> QED  BY <2>1, <2>2, <2>3
<1>2. CASE r.remaining_hashes # 1
  <2>1. t = [s EXCEPT !.recorder = Hashed(r)]
    BY <1>1, <1>2 DEF poh_tick, Hashed, RecorderTypes
  <2>2. /\ RecorderTypes(Hashed(r)) /\ SameStart(r, Hashed(r))
        /\ Hashed(r).tick_height = r.tick_height /\ Hashed(r).tick_cache = r.tick_cache
    BY <1>1, <1>2, TickFields, Zenon
  <2>3. /\ StateTypes(t) /\ t.recorder = Hashed(r) /\ t.banks = s.banks
        /\ t.broadcast = s.broadcast
    BY <2>1, <2>2, NewRecorder
  <2> HIDE DEF t
  <2>4. GoesOn(s, t, x)
    BY <2>2, <2>3, Zenon DEF GoesOn, Leading, SameStart, Aligned
  <2>5. Effect(s, t, x)
    BY <2>3, <2>4, Zenon DEF Effect
  <2> QED  BY <1>2, <2>5, Zenon DEF t
<1>3. CASE r.remaining_hashes = 1
  <2> DEFINE c == [s EXCEPT !.recorder = Cached(r)]
  <2>1. /\ RecorderTypes(Cached(r)) /\ SameStart(r, Cached(r))
        /\ Cached(r).tick_height = r.tick_height + 1
        /\ Cached(r).remaining_hashes = hashes_per_tick
        /\ Aligned(r, s.banks[x].tick_height) => Aligned(Cached(r), s.banks[x].tick_height)
    BY <1>1, TickFields
  <2>2. /\ StateTypes(c) /\ c.recorder = Cached(r) /\ c.banks = s.banks
        /\ c.broadcast = s.broadcast
    BY <2>1, NewRecorder, Zenon
  <2>3. t = flush_cache(c, TRUE, received)
    <3>1. r.leader_first # {} /\ Hashed(r).remaining_hashes = 0
      BY <1>1, <1>3 DEF Leading, RecorderTypes, IsRecorder, Fields, Hashed
    <3> QED  BY <3>1, TickCached, Zenon
  <2> HIDE DEF c
  <2>4. Leading(c, x) /\ c.recorder.min_tick_height < c.recorder.tick_height
    <3>1. c.recorder.min_tick_height = r.min_tick_height /\ c.recorder.tick_height = r.tick_height + 1
      BY <2>1, <2>2, Zenon DEF SameStart
    <3>2. /\ r.min_tick_height \in Int /\ r.tick_height \in Int
          /\ r.min_tick_height <= r.tick_height
      BY <1>1 DEF Leading, RecorderTypes
    <3>3. /\ c.recorder.min_tick_height < c.recorder.tick_height
          /\ c.recorder.min_tick_height <= c.recorder.tick_height
      BY <3>1, <3>2
    <3> QED  BY <2>1, <2>2, <3>3, Zenon DEF Leading, SameStart
  <2>5. t = flush_ticks(c, x, received)
    <3>1. c.recorder.min_tick_height \in Int /\ c.recorder.tick_height \in Int
      BY <2>1, <2>2 DEF RecorderTypes
    <3> QED  BY <2>3, <2>4, <3>1, FlushCache, Zenon
  <2>6. Effect(c, t, x) /\ t.recorder.remaining_hashes = hashes_per_tick
    BY <2>1, <2>2, <2>4, <2>5, FlushTicks
  <2> HIDE DEF t
  <2>7. Effect(s, t, x)
    BY <2>1, <2>2, <2>6, Zenon DEF Effect, GoesOn, SameStart
  <2> QED  BY <2>6, <2>7, Zenon DEF t
<1> QED  BY <1>2, <1>3, Zenon

\* Without a bank nothing is sent.
LEMMA PohTickIdle ==
  ASSUME NEW s, StateTypes(s), s.recorder.working_bank = {}, NEW received,
         s.recorder.tick_height < MaxTickHeight
  PROVE  LET t == poh_tick(s, received) IN
         /\ StateTypes(t) /\ t.banks = s.banks /\ t.broadcast = s.broadcast
         /\ SameStart(s.recorder, t.recorder)
         /\ \A h \in Int : s.recorder.leader_first # {} /\ Aligned(s.recorder, h) =>
                Aligned(t.recorder, h)
<1> DEFINE r == s.recorder
           t == poh_tick(s, received)
<1>1. RecorderTypes(r)
  BY Zenon DEF StateTypes
<1>2. CASE r.remaining_hashes # 1
  <2>1. t = [s EXCEPT !.recorder = Hashed(r)]
    BY <1>1, <1>2 DEF poh_tick, Hashed, RecorderTypes
  <2>2. /\ RecorderTypes(Hashed(r)) /\ SameStart(r, Hashed(r))
        /\ Hashed(r).tick_height = r.tick_height /\ Hashed(r).tick_cache = r.tick_cache
    BY <1>1, <1>2, TickFields, Zenon
  <2>3. /\ StateTypes(t) /\ t.recorder = Hashed(r) /\ t.banks = s.banks
        /\ t.broadcast = s.broadcast
    BY <2>1, <2>2, NewRecorder
  <2> QED  BY <2>2, <2>3, Zenon DEF Aligned
<1>3. CASE r.remaining_hashes = 1 /\ r.leader_first = {}
  <2>1. t = [s EXCEPT !.recorder = Ticked(r)]
    BY <1>1, <1>3 DEF poh_tick, Hashed, Ticked, RecorderTypes
  <2>2. RecorderTypes(Ticked(r)) /\ SameStart(r, Ticked(r))
    BY <1>1, TickFields, Zenon
  <2>3. /\ StateTypes(t) /\ t.recorder = Ticked(r) /\ t.banks = s.banks
        /\ t.broadcast = s.broadcast
    BY <2>1, <2>2, NewRecorder, SMTT(60)
  <2> QED  BY <1>3, <2>2, <2>3, Zenon
<1>4. CASE r.remaining_hashes = 1 /\ r.leader_first # {}
  <2> DEFINE c == [s EXCEPT !.recorder = Cached(r)]
  <2>1. /\ RecorderTypes(Cached(r)) /\ SameStart(r, Cached(r))
        /\ \A h \in Int : Aligned(r, h) => Aligned(Cached(r), h)
    BY <1>1, TickFields, Zenon
  <2>2. /\ StateTypes(c) /\ c.recorder = Cached(r) /\ c.banks = s.banks
        /\ c.broadcast = s.broadcast
    BY <2>1, NewRecorder, Zenon
  <2>3. t = flush_cache(c, TRUE, received)
    <3>1. Hashed(r).remaining_hashes = 0
      BY <1>1, <1>4 DEF RecorderTypes, IsRecorder, Fields, Hashed
    <3> QED  BY <1>4, <3>1, TickCached, Zenon
  <2> HIDE DEF c
  <2>4. t = [c EXCEPT !.result = "MaxHeightReached"]
    BY <2>1, <2>2, <2>3, Zenon DEF flush_cache, SameStart
  <2>5. /\ StateTypes(t) /\ t.recorder = Cached(r) /\ t.banks = s.banks
        /\ t.broadcast = s.broadcast
    BY <2>2, <2>4, NewResult
  <2> QED  BY <2>1, <2>5, Zenon
<1> QED  BY <1>2, <1>3, <1>4, Zenon

-----------------------------------------------------------------------------
(* Records.                                                                *)

\* The recorder after an entry.
Recorded(r) == [r EXCEPT !.num_hashes = 0, !.remaining_hashes = @ - 1]

LEMMA RecordedFields ==
  ASSUME NEW r, RecorderTypes(r), r.remaining_hashes # 1
  PROVE  /\ RecorderTypes(Recorded(r)) /\ SameStart(r, Recorded(r))
         /\ Recorded(r).tick_height = r.tick_height /\ Recorded(r).tick_cache = r.tick_cache
<1>1. /\ IsRecorder(Recorded(r)) /\ Recorded(r).num_hashes = 0
      /\ Recorded(r).remaining_hashes = r.remaining_hashes - 1
      /\ \A f \in Fields \ {"num_hashes", "remaining_hashes"} : Recorded(r)[f] = r[f]
  BY Zenon DEF RecorderTypes, IsRecorder, Fields, Recorded
<1>2. /\ SameStart(r, Recorded(r))
      /\ Recorded(r).tick_height = r.tick_height /\ Recorded(r).tick_cache = r.tick_cache
      /\ Recorded(r).start_tick_height = r.start_tick_height
  BY <1>1, Zenon DEF Fields, SameStart
<1>3. /\ r.remaining_hashes - 1 \in Nat \ {0}
      /\ 0 + (r.remaining_hashes - 1) <= hashes_per_tick
  <2>1. \A a \in Nat, b \in Nat \ {0}, c \in Nat : b # 1 /\ a + b <= c =>
            b - 1 \in Nat \ {0} /\ 0 + (b - 1) <= c
    BY SMT
  <2>2. hashes_per_tick \in Nat
    BY PohAssumption, Zenon
  <2> QED  BY <2>1, <2>2, Zenon DEF RecorderTypes
<1>4. RecorderTypes(Recorded(r))
  BY <1>1, <1>2, <1>3, SMTT(60) DEF RecorderTypes, SameStart
<1> QED  BY <1>2, <1>4, Zenon

\* One turn of the loop of record, for any slot.  The turn that meets the last
\* hash of a tick has only flushed the cache.
LEMMA RecordOnce ==
  ASSUME NEW s, NEW x, StateTypes(s), Leading(s, x), NEW slot, NEW received
  PROVE  LET t == record_once(s, slot, received) IN
         /\ Effect(s, t, x)
         /\ t.result \in {"Ok", "MaxHeightReached", "TickFirst", "SendError"}
         /\ t.result = "SendError" => ~connected
         /\ t.result = "TickFirst" =>
                /\ GoesOn(s, t, x) /\ s.recorder.remaining_hashes = 1
                /\ t.recorder.remaining_hashes = 1
<1>0. PICK t, f : t = record_once(s, slot, received) /\ f = flush_ticks(s, x, received)
  BY Zenon
<1>1. f = flush_cache(s, FALSE, received)
  <2>1. s.recorder.min_tick_height \in Int /\ s.recorder.tick_height \in Int
    BY DEF StateTypes, RecorderTypes
  <2> QED  BY <1>0, <2>1, FlushCache, Zenon
<1>2. /\ Effect(s, f, x) /\ f.result = "Ok"
      /\ f.recorder.remaining_hashes = s.recorder.remaining_hashes
  BY <1>0, FlushTicks
<1>3. StateTypes(f)
  BY <1>2, Zenon DEF Effect
<1>4. CASE f.recorder.working_bank # {slot}
  <2>1. t = [f EXCEPT !.result = "MaxHeightReached"]
    BY <1>0, <1>1, <1>2, <1>4, ZenonT(60) DEF record_once
  <2>2. /\ StateTypes(t) /\ t.recorder = f.recorder /\ t.banks = f.banks
        /\ t.broadcast = f.broadcast /\ t.result = "MaxHeightReached"
    BY <1>3, <2>1, NewResult, Zenon
  <2>3. Effect(s, t, x)
    BY <1>2, <2>2, SameEffect, Zenon
  <2> QED  BY <1>0, <2>2, <2>3, Zenon
<1>5. CASE f.recorder.working_bank = {slot}
  <2>1. slot = x /\ GoesOn(s, f, x) /\ x \in Slots
    BY <1>2, <1>5, PohAssumption, Zenon DEF Effect, GoesOn, Leaves, GivesUp, Leading
  <2>2. CASE f.recorder.remaining_hashes = 1
    <3>1. t = [f EXCEPT !.result = "TickFirst"]
      BY <1>0, <1>1, <1>2, <1>5, <2>2, ZenonT(60) DEF record_once
    <3>2. /\ StateTypes(t) /\ t.recorder = f.recorder /\ t.banks = f.banks
          /\ t.broadcast = f.broadcast /\ t.result = "TickFirst"
      BY <1>3, <3>1, NewResult, Zenon
    <3>3. Effect(s, t, x) /\ GoesOn(s, t, x)
      BY <1>2, <2>1, <3>2, SameEffect, Zenon
    <3> QED  BY <1>0, <1>2, <2>2, <3>2, <3>3, Zenon
  <2>3. CASE f.recorder.remaining_hashes # 1
    <3>1. PICK e : t = [f EXCEPT !.recorder.num_hashes = 0,
                                 !.recorder.remaining_hashes = @ - 1,
                                 !.broadcast[x] = IF connected THEN Append(@, e) ELSE @,
                                 !.result = IF connected THEN "Ok" ELSE "SendError"]
      BY <1>0, <1>1, <1>2, <1>5, <2>1, <2>3, Zenon DEF record_once
    <3>2. /\ IsState(t) /\ t.banks = f.banks /\ t.recorder = Recorded(f.recorder)
          /\ t.broadcast = [f.broadcast EXCEPT ![x] = IF connected THEN Append(@, e) ELSE @]
          /\ t.result = IF connected THEN "Ok" ELSE "SendError"
      BY <1>3, <3>1, Zenon DEF StateTypes, IsState, Recorded
    <3>3. RecorderTypes(f.recorder)
      BY <1>3, Zenon DEF StateTypes
    <3>4. /\ RecorderTypes(t.recorder) /\ SameStart(f.recorder, t.recorder)
          /\ t.recorder.tick_height = f.recorder.tick_height
          /\ t.recorder.tick_cache = f.recorder.tick_cache
      BY <2>3, <3>2, <3>3, RecordedFields, ZenonT(30)
    <3>5. /\ t.broadcast = [y \in Slots |-> t.broadcast[y]]
          /\ \A y \in Slots \ {x} : t.broadcast[y] = f.broadcast[y]
      BY <1>3, <2>1, <3>2, Zenon DEF StateTypes
    <3>6. StateTypes(t)
      BY <1>3, <3>2, <3>4, <3>5, ZenonT(60) DEF StateTypes
    <3>7. GoesOn(s, t, x)
      BY <2>1, <3>2, <3>4, Zenon DEF GoesOn, Leading, SameStart, Aligned
    <3>8. Effect(s, t, x)
      BY <1>2, <3>2, <3>5, <3>6, <3>7, Zenon DEF Effect
    <3> QED  BY <1>0, <3>2, <3>8, Zenon
  <2> QED  BY <2>2, <2>3, Zenon
<1> QED  BY <1>4, <1>5, Zenon

LEMMA RecordIdle ==
  ASSUME NEW s, s.recorder.working_bank = {}, NEW slot, NEW received, StateTypes(s)
  PROVE  record_once(s, slot, received) = [s EXCEPT !.result = "MaxHeightReached"]
<1>1. flush_cache(s, FALSE, received) = [s EXCEPT !.result = "MaxHeightReached"]
  BY Zenon DEF flush_cache
<1>2. [s EXCEPT !.result = "MaxHeightReached"].result = "MaxHeightReached"
  BY NewResult, Zenon
<1> QED  BY <1>1, <1>2, Zenon DEF record_once

\* A request is answered in at most two turns, and the answer is one that the
\* banking stage handles.
LEMMA RecordEntry ==
  ASSUME NEW s, NEW x, StateTypes(s), Leading(s, x), s.recorder.tick_height < end_tick_height(x),
         NEW slot, NEW received
  PROVE  LET t == record_entry(s, slot, received) IN
         /\ Effect(s, t, x)
         /\ t.result \in {"Ok", "MaxHeightReached", "SendError"}
         /\ t.result = "SendError" => ~connected
<1>0. PICK t, f, p : /\ t = record_entry(s, slot, received) /\ f = record_once(s, slot, received)
                     /\ p = poh_tick(f, received)
  BY Zenon
<1>1. /\ Effect(s, f, x)
      /\ f.result \in {"Ok", "MaxHeightReached", "TickFirst", "SendError"}
      /\ f.result = "SendError" => ~connected
      /\ f.result = "TickFirst" => GoesOn(s, f, x) /\ f.recorder.remaining_hashes = 1
  BY <1>0, RecordOnce, Zenon
<1>2. CASE f.result # "TickFirst"
  <2>1. t = f
    BY <1>0, <1>2, Zenon DEF record_entry
  <2> QED  BY <1>0, <1>1, <1>2, <2>1, Zenon
<1>3. CASE f.result = "TickFirst"
  <2>1. t = record_once(p, slot, received)
    BY <1>0, <1>3, Zenon DEF record_entry
  <2>2. StateTypes(f) /\ Leading(f, x) /\ f.recorder.tick_height < end_tick_height(x)
    BY <1>1, <1>3, Zenon DEF Effect, GoesOn
  <2>3. /\ Effect(f, p, x)
        /\ GoesOn(f, p, x) => p.recorder.remaining_hashes = hashes_per_tick
    BY <1>0, <1>1, <1>3, <2>2, PohTickLeading, Zenon
  <2>4. Effect(s, p, x) /\ StateTypes(p)
    BY <1>1, <1>3, <2>3, TwoEffects, Zenon DEF Effect
  <2>5. CASE GoesOn(f, p, x)
    <3>1. Leading(p, x) /\ p.recorder.remaining_hashes # 1
      BY <2>3, <2>5, PohAssumption, Zenon DEF GoesOn
    <3>2. /\ Effect(p, t, x)
          /\ t.result \in {"Ok", "MaxHeightReached", "TickFirst", "SendError"}
          /\ t.result = "SendError" => ~connected
          /\ t.result # "TickFirst"
      BY <2>1, <2>4, <3>1, RecordOnce, Zenon
    <3>3. GoesOn(s, p, x)
      BY <1>1, <1>3, <2>5, Zenon DEF GoesOn
    <3>4. Effect(s, t, x)
      BY <2>4, <3>2, <3>3, TwoEffects, Zenon
    <3> QED  BY <1>0, <3>2, <3>4, Zenon
  <2>6. CASE ~GoesOn(f, p, x)
    <3>1. p.recorder.working_bank = {}
      BY <2>3, <2>6, Zenon DEF Effect, Leaves, GivesUp
    <3>2. t = [p EXCEPT !.result = "MaxHeightReached"]
      BY <2>1, <2>4, <3>1, RecordIdle, Zenon
    <3>3. /\ StateTypes(t) /\ t.recorder = p.recorder /\ t.banks = p.banks
          /\ t.broadcast = p.broadcast /\ t.result = "MaxHeightReached"
      BY <2>4, <3>2, NewResult, Zenon
    <3>4. Effect(s, t, x)
      BY <2>4, <3>3, SameEffect, Zenon
    <3> QED  BY <1>0, <3>3, <3>4, Zenon
  <2> QED  BY <2>5, <2>6, Zenon
<1> QED  BY <1>2, <1>3, Zenon

-----------------------------------------------------------------------------
(* The steps.  StaysLeft is what SlotIsLeftForGood says of one.            *)

StaysLeft ==
    \A s \in Slots :
        /\ broadcast[s] # <<>> /\ recorder.working_bank # {s} =>
               broadcast'[s] = broadcast[s] /\ recorder'.working_bank # {s}
        /\ banks[s].status = "frozen" => banks'[s] = banks[s]

LEMMA StateFields ==
  /\ State.recorder = recorder /\ State.banks = banks /\ State.broadcast = broadcast
  /\ IsState(State)
  BY Zenon DEF State, IsState

LEMMA StateFieldsNext ==
  /\ State'.recorder = recorder' /\ State'.banks = banks' /\ State'.broadcast = broadcast'
  /\ IsState(State')
  BY Zenon DEF State, IsState

\* The slot of the working bank, whose bank is not complete.
LEMMA Working ==
  ASSUME PohInv, recorder.working_bank # {}
  PROVE  \E x \in MyLeaderSlots :
             /\ x \in Slots /\ recorder.working_bank = {x}
             /\ Leading(State, x) /\ recorder.tick_height < end_tick_height(x)
             /\ banks[x].status = "active" /\ banks[x].tick_height # end_tick_height(x)
             /\ recorder.leader_first # {}
<1>1. PICK x \in MyLeaderSlots : Leading(State, x) /\ recorder.tick_height < end_tick_height(x)
  BY Zenon DEF PohInv, WorkingInv
<1>2. /\ x \in Slots /\ recorder.working_bank = {x} /\ recorder.leader_first # {}
      /\ banks[x].status = "active" /\ Aligned(recorder, banks[x].tick_height)
  BY <1>1, PohAssumption, StateFields, Zenon DEF Leading
<1>3. /\ banks[x].tick_height \in Nat /\ Len(recorder.tick_cache) \in Nat
      /\ recorder.tick_height \in Int /\ end_tick_height(x) \in Int
  <2>1. banks[x] \in Bank /\ RecorderTypes(recorder)
    BY <1>2, StateFields, Zenon DEF PohInv, StateTypes
  <2>2. banks[x].tick_height \in 0..MaxTickHeight /\ recorder.tick_height \in 0..MaxTickHeight
        /\ recorder.tick_cache \in Seq(Tick)
    BY <2>1, Zenon DEF Bank, RecorderTypes
  <2>3. MaxTickHeight \in Int /\ end_tick_height(x) \in Int
    BY <1>2, SlotEnd
  <2> QED  BY <2>2, <2>3, SMTT(60)
<1>4. banks[x].tick_height # end_tick_height(x)
  BY <1>1, <1>2, <1>3, SMTT(60) DEF Aligned
<1> QED  BY <1>1, <1>2, <1>4, Zenon

LEMMA NextTypes ==
  ASSUME NEW t, StateTypes(t), Assign(t)
  PROVE  StateTypes(State)'
<1>1. recorder' = t.recorder /\ banks' = t.banks /\ broadcast' = t.broadcast
  BY Zenon DEF Assign
<1>2. /\ RecorderTypes(State'.recorder) /\ State'.banks \in [Slots -> Bank]
      /\ State'.broadcast = [y \in Slots |-> State'.broadcast[y]]
  BY <1>1, StateFieldsNext, Zenon DEF StateTypes
<1> QED  BY <1>2, StateFieldsNext, Zenon DEF StateTypes

\* A method that works on slot x while the replay loop does nothing.
LEMMA EffectStep ==
  ASSUME PohInv, NEW x \in MyLeaderSlots, NEW t, Leading(State, x),
         recorder.tick_height < end_tick_height(x),
         Effect(State, t, x), Assign(t), UNCHANGED <<connected, replayVars>>, ServiceTypes'
  PROVE  PohInv' /\ StaysLeft
<1>0. /\ recorder' = t.recorder /\ banks' = t.banks /\ broadcast' = t.broadcast
      /\ UNCHANGED <<connected, replay_pc, tpu_has_bank, tpu_bank>>
  BY Zenon DEF Assign, replayVars
<1>1. /\ recorder.working_bank = {x} /\ x \in Slots /\ banks[x].status = "active"
      /\ banks[x].tick_height # end_tick_height(x) /\ recorder.leader_first # {}
  BY Working, PohAssumption, StateFields, Zenon DEF Leading
<1>2. /\ replay_pc # "set_bank" /\ (replay_pc # "has_bank" => tpu_has_bank) /\ tpu_bank = {}
  BY <1>1, Zenon DEF PohInv, WorkingInv, NewBankInv
<1>3. /\ banks[recorder.start_slot].status \in {"active", "frozen"}
      /\ banks[recorder.start_slot].tick_height = end_tick_height(recorder.start_slot)
      /\ recorder.start_slot # x
  BY <1>1, Zenon DEF PohInv, StartInv, MayLead
<1>4. recorder.start_slot \in Slots
  BY StateFields, Zenon DEF PohInv, StateTypes, RecorderTypes
<1>5. /\ StateTypes(t)
      /\ \A y \in Slots \ {x} : banks'[y] = banks[y] /\ broadcast'[y] = broadcast[y]
      /\ GoesOn(State, t, x) \/ Leaves(t, x) \/ GivesUp(t, x)
  BY <1>0, StateFields, Zenon DEF Effect
<1>6. StateTypes(State)'
  BY <1>5, NextTypes, Zenon
<1>7. banks'[x].status = "active" /\ (recorder'.working_bank = {} \/ recorder'.working_bank = {x})
  BY <1>0, <1>5, Zenon DEF GoesOn, Leaves, GivesUp, Leading
<1>8. WorkingInv'
  <2>1. ASSUME recorder'.working_bank # {}
        PROVE  Leading(State, x)' /\ recorder'.tick_height < end_tick_height(x)
    <3>1. Leading(t, x) /\ t.recorder.tick_height < end_tick_height(x)
      BY <1>0, <1>5, <2>1, Zenon DEF GoesOn, Leaves, GivesUp
    <3> QED  BY <1>0, <3>1, StateFieldsNext, Zenon DEF Leading
  <2> QED  BY <1>0, <1>2, <2>1, Zenon DEF WorkingInv
<1>9. NewBankInv'
  BY <1>0, <1>2, Zenon DEF NewBankInv
<1>10. StartInv'
  <2>1. CASE GoesOn(State, t, x)
    <3>1. recorder'.start_slot = recorder.start_slot /\ recorder'.working_bank = {x}
      BY <1>0, <2>1, StateFields, Zenon DEF GoesOn, Leading
    <3>2. banks'[recorder'.start_slot] = banks[recorder.start_slot]
      BY <1>3, <1>4, <1>5, <3>1, Zenon
    <3> QED  BY <1>0, <1>2, <1>3, <3>1, <3>2, Zenon DEF StartInv
  <2>2. CASE Leaves(t, x)
    <3>1. /\ recorder'.start_slot = x /\ banks'[x].tick_height = end_tick_height(x)
          /\ recorder'.leader_first # {} => Aligned(recorder', end_tick_height(x))
      BY <1>0, <2>2, Zenon DEF Leaves
    <3> QED  BY <1>0, <1>2, <1>7, <3>1, Zenon DEF StartInv
  <2>3. CASE GivesUp(t, x)
    <3>1. ~MayLead'
      BY <1>0, <1>2, <2>3, SMTT(60) DEF GivesUp, MayLead
    <3> QED  BY <3>1, Zenon DEF StartInv
  <2> QED  BY <1>5, <2>1, <2>2, <2>3, Zenon
<1>11. SlotInv'
  BY <1>5, <1>7, Zenon DEF PohInv, SlotInv
<1>12. StaysLeft
  BY <1>1, <1>5, <1>7, Zenon DEF StaysLeft
<1> QED  BY <1>6, <1>8, <1>9, <1>10, <1>11, <1>12, Zenon DEF PohInv

\* A step that sends nothing and leaves the working bank as it is.
LEMMA IdleStep ==
  ASSUME PohInv, RecorderTypes(recorder'), SameStart(recorder, recorder'),
         \/ recorder.working_bank = {}
         \/ recorder'.tick_height = recorder.tick_height
            /\ recorder'.tick_cache = recorder.tick_cache,
         \A h \in Int : recorder.leader_first # {} /\ Aligned(recorder, h) => Aligned(recorder', h),
         UNCHANGED <<banks, broadcast, connected, replayVars>>, ServiceTypes'
  PROVE  PohInv' /\ StaysLeft
<1>0. UNCHANGED <<replay_pc, tpu_has_bank, tpu_bank>>
  BY Zenon DEF replayVars
<1>1. StateTypes(State)'
  <2>1. State'.banks = State.banks /\ State'.broadcast = State.broadcast
    BY StateFields, StateFieldsNext, Zenon
  <2> QED  BY <2>1, StateFieldsNext, Zenon DEF PohInv, StateTypes
<1>2. \A x \in MyLeaderSlots : Leading(State, x) /\ recorder.tick_height < end_tick_height(x) =>
          Leading(State, x)' /\ recorder'.tick_height < end_tick_height(x)
  <2> SUFFICES ASSUME NEW x \in MyLeaderSlots, Leading(State, x),
                      recorder.tick_height < end_tick_height(x)
               PROVE  Leading(State, x)' /\ recorder'.tick_height < end_tick_height(x)
    BY Zenon
  <2>1. recorder.working_bank = {x}
    BY StateFields, Zenon DEF Leading
  <2>2. recorder'.tick_height = recorder.tick_height /\ recorder'.tick_cache = recorder.tick_cache
    BY <2>1, Zenon
  <2> QED  BY <2>2, StateFields, StateFieldsNext, Zenon DEF Leading, SameStart, Aligned
<1>3. WorkingInv'
  BY <1>0, <1>2, Zenon DEF PohInv, WorkingInv, SameStart
<1>4. NewBankInv'
  BY <1>0, Zenon DEF PohInv, NewBankInv, SameStart
<1>5. StartInv'
  <2>1. MayLead' <=> MayLead
    BY <1>0, Zenon DEF MayLead, SameStart
  <2>2. end_tick_height(recorder.start_slot) \in Int
    <3>1. recorder.start_slot \in Slots
      BY StateFields, Zenon DEF PohInv, StateTypes, RecorderTypes
    <3> QED  BY <3>1, SlotEnd, SMTT(60)
  <2> QED  BY <1>0, <2>1, <2>2, Zenon DEF PohInv, StartInv, SameStart
<1>6. SlotInv'
  BY Zenon DEF PohInv, SlotInv
<1>7. StaysLeft
  BY Zenon DEF StaysLeft, SameStart
<1> QED  BY <1>1, <1>3, <1>4, <1>5, <1>6 , <1>7, Zenon DEF PohInv

LEMMA HashStep ==
  ASSUME PohInv, hash
  PROVE  PohInv' /\ StaysLeft
<1>1. PICK k : /\ k = Min({recorder.remaining_hashes - 1, hashes_per_batch})
               /\ recorder' = [recorder EXCEPT !.num_hashes = @ + k, !.remaining_hashes = @ - k]
               /\ should_tick' = (recorder.remaining_hashes - k = 1)
  BY Zenon DEF hash
<1>2. RecorderTypes(recorder)
  BY StateFields, Zenon DEF PohInv, StateTypes
<1>3. recorder.num_hashes \in Nat /\ recorder.remaining_hashes \in Nat \ {0}
  BY <1>2, Zenon DEF RecorderTypes
<1>4. k \in 0..(recorder.remaining_hashes - 1)
  <2>1. hashes_per_batch \in Nat
    BY PohAssumption, Zenon
  <2>2. \A a, b \in Nat : Min({a, b}) \in 0..a
    BY SMTT(60) DEF Min
  <2> QED  BY <1>1, <1>3, <2>1, <2>2
<1>5. /\ IsRecorder(recorder') /\ recorder'.num_hashes = recorder.num_hashes + k
      /\ recorder'.remaining_hashes = recorder.remaining_hashes - k
      /\ \A f \in Fields \ {"num_hashes", "remaining_hashes"} : recorder'[f] = recorder[f]
  BY <1>1, <1>2, Zenon DEF RecorderTypes, IsRecorder, Fields
<1>6. /\ SameStart(recorder, recorder')
      /\ recorder'.tick_height = recorder.tick_height /\ recorder'.tick_cache = recorder.tick_cache
  BY <1>5, Zenon DEF Fields, SameStart
<1>7. RecorderTypes(recorder')
  <2>1. /\ recorder'.num_hashes \in Nat /\ recorder'.remaining_hashes \in Nat \ {0}
        /\ recorder'.num_hashes + recorder'.remaining_hashes
             = recorder.num_hashes + recorder.remaining_hashes
    BY <1>3, <1>4, <1>5
  <2>2. recorder'.start_tick_height = recorder.start_tick_height
    BY <1>5, Zenon DEF Fields
  <2> QED  BY <1>2, <1>5, <1>6, <2>1, <2>2, Zenon DEF RecorderTypes, SameStart
<1>8. ServiceTypes'
  BY <1>1, Zenon DEF hash, replayVars, PohInv, ServiceTypes
<1>9. \A h \in Int : Aligned(recorder, h) => Aligned(recorder', h)
  BY <1>6, Zenon DEF Aligned
<1>10. UNCHANGED <<banks, broadcast, connected, replayVars>>
  BY Zenon DEF hash
<1> QED  BY <1>6, <1>7, <1>8, <1>9, <1>10, IdleStep, ZenonT(60)

LEMMA TickStep ==
  ASSUME PohInv, tick
  PROVE  PohInv' /\ StaysLeft
<1>1. PICK received : Assign(poh_tick(State, received))
  BY Zenon DEF tick
<1>2. ServiceTypes' /\ UNCHANGED <<connected, replayVars>> /\ recorder.tick_height < MaxTickHeight
  BY Zenon DEF tick, replayVars, PohInv, ServiceTypes
<1>3. StateTypes(State)
  BY Zenon DEF PohInv
<1>4. CASE recorder.working_bank = {}
  <2>1. PICK t : t = poh_tick(State, received)
    BY Zenon
  <2>2. /\ StateTypes(t) /\ t.banks = banks /\ t.broadcast = broadcast
        /\ SameStart(recorder, t.recorder)
        /\ \A h \in Int : recorder.leader_first # {} /\ Aligned(recorder, h) =>
               Aligned(t.recorder, h)
    BY <1>2, <1>3, <1>4, <2>1, PohTickIdle, StateFields, Zenon
  <2>3. recorder' = t.recorder /\ banks' = t.banks /\ broadcast' = t.broadcast
    BY <1>1, <2>1, Zenon DEF Assign
  <2>4. RecorderTypes(recorder')
    BY <2>2, <2>3, Zenon DEF StateTypes
  <2> QED  BY <1>2, <1>4, <2>2, <2>3, <2>4, IdleStep, Zenon
<1>5. CASE recorder.working_bank # {}
  <2>1. PICK x \in MyLeaderSlots : Leading(State, x) /\ recorder.tick_height < end_tick_height(x)
    BY <1>5, Working, Zenon
  <2>2. Effect(State, poh_tick(State, received), x)
    BY <1>3, <2>1, PohTickLeading, StateFields, Zenon
  <2> QED  BY <1>1, <1>2, <2>1, <2>2, EffectStep, Zenon
<1> QED  BY <1>4, <1>5, Zenon

LEMMA RecordStep ==
  ASSUME PohInv, NEW slot \in Slots, record(slot)
  PROVE  PohInv' /\ StaysLeft
<1>1. PICK received : /\ Assign(record_entry(State, slot, received))
                      /\ results' = results \cup {record_entry(State, slot, received).result}
  BY Zenon DEF record
<1>2. PICK t : t = record_entry(State, slot, received)
  BY Zenon
<1>3. StateTypes(State)
  BY Zenon DEF PohInv
<1>4. /\ UNCHANGED <<should_tick, connected, replayVars>> /\ results' = results \cup {t.result}
      /\ Assign(t)
  BY <1>1, <1>2, Zenon DEF record
<1>5. ASSUME t.result \in {"Ok", "MaxHeightReached", "SendError"},
             t.result = "SendError" => ~connected
      PROVE  ServiceTypes'
  BY <1>4, <1>5, Zenon DEF replayVars, PohInv, ServiceTypes
<1>6. CASE recorder.working_bank = {}
  <2>1. t = [State EXCEPT !.result = "MaxHeightReached"]
    <3>1. record_once(State, slot, received) = [State EXCEPT !.result = "MaxHeightReached"]
      BY <1>3, <1>6, RecordIdle, StateFields, Zenon
    <3>2. [State EXCEPT !.result = "MaxHeightReached"].result # "TickFirst"
      BY Zenon DEF State
    <3> QED  BY <1>2, <3>1, <3>2, Zenon DEF record_entry
  <2>2. t.recorder = recorder /\ t.banks = banks /\ t.broadcast = broadcast
        /\ t.result = "MaxHeightReached"
    BY <2>1, Zenon DEF State
  <2>3. UNCHANGED <<recorder, banks, broadcast>>
    BY <1>4, <2>2, Zenon DEF Assign
  <2>4. RecorderTypes(recorder') /\ SameStart(recorder, recorder')
    BY <1>3, <2>3, StateFields, Zenon DEF StateTypes, SameStart
  <2>5. ServiceTypes'
    BY <1>5, <2>2, Zenon
  <2>6. UNCHANGED <<banks, broadcast, connected, replayVars>>
    BY <1>4, <2>3, Zenon
  <2>7. \A h \in Int : Aligned(recorder, h) => Aligned(recorder', h)
    BY <2>3, Zenon
  <2> QED  BY <1>6, <2>4, <2>5, <2>6, <2>7, IdleStep, Zenon
<1>7. CASE recorder.working_bank # {}
  <2>1. PICK x \in MyLeaderSlots : Leading(State, x) /\ recorder.tick_height < end_tick_height(x)
    BY <1>7, Working, ZenonT(60)
  <2>2. /\ Effect(State, t, x) /\ t.result \in {"Ok", "MaxHeightReached", "SendError"}
        /\ t.result = "SendError" => ~connected
    BY <1>2, <1>3, <2>1, RecordEntry, StateFields, Zenon
  <2>3. ServiceTypes'
    BY <1>5, <2>2, Zenon
  <2> QED  BY <1>4, <2>1, <2>2, <2>3, EffectStep, Zenon
<1> QED  BY <1>6, <1>7, Zenon

\* The steps that leave the recorder, the banks and the broadcast alone.
LEMMA ControlStep ==
  ASSUME PohInv, UNCHANGED <<recorder, banks, broadcast>>, ServiceTypes', WorkingInv', NewBankInv',
         StartInv'
  PROVE  PohInv' /\ StaysLeft
<1>1. State' = State
  BY Zenon DEF State
<1> QED  BY <1>1, Zenon DEF PohInv, SlotInv, StaysLeft

LEMMA SameLeading ==
  ASSUME UNCHANGED <<recorder, banks>>, NEW x, Leading(State, x)
  PROVE  Leading(State, x)'
  BY StateFields, StateFieldsNext, Zenon DEF Leading

LEMMA LoopStep ==
  ASSUME PohInv, disconnect \/ read_has_bank \/ keep_fork \/ dont_start_leader
  PROVE  PohInv' /\ StaysLeft
<1>1. UNCHANGED <<recorder, banks, broadcast, should_tick, results, tpu_bank>>
  BY Zenon DEF disconnect, read_has_bank, keep_fork, dont_start_leader, serviceVars, replayVars
<1>2. recorder.working_bank # {} =>
          \E x \in MyLeaderSlots : Leading(State, x)' /\ recorder'.tick_height < end_tick_height(x)
  BY <1>1, Working, SameLeading, Zenon
<1>3. CASE disconnect
  <2>1. connected' = FALSE /\ UNCHANGED <<replay_pc, tpu_has_bank>>
    BY <1>3, Zenon DEF disconnect, replayVars
  <2>2. ServiceTypes' /\ NewBankInv'
    BY <1>1, <2>1, ZenonT(60) DEF PohInv, ServiceTypes, NewBankInv
  <2>3. WorkingInv' /\ StartInv'
    BY <1>1, <1>2, <2>1, Zenon DEF PohInv, WorkingInv, StartInv, MayLead
  <2> QED  BY <1>1, <2>2, <2>3, ControlStep, Zenon
<1>4. CASE read_has_bank
  <2>1. /\ replay_pc = "has_bank" /\ replay_pc' = "active_banks" /\ connected /\ connected' = connected
        /\ tpu_has_bank' = (recorder.working_bank # {})
    BY <1>4, Zenon DEF read_has_bank
  <2>2. ServiceTypes' /\ NewBankInv'
    BY <1>1, <2>1, Zenon DEF PohInv, ServiceTypes, NewBankInv
  <2>3. WorkingInv' /\ StartInv'
    BY <1>1, <1>2, <2>1, Zenon DEF PohInv, WorkingInv, StartInv, MayLead
  <2> QED  BY <1>1, <2>2, <2>3, ControlStep, Zenon
<1>5. CASE keep_fork
  <2>1. /\ replay_pc = "reset" /\ replay_pc' = "start_leader"
        /\ UNCHANGED <<connected, tpu_has_bank>>
    BY <1>5, Zenon DEF keep_fork
  <2>2. ServiceTypes' /\ NewBankInv'
    BY <1>1, <2>1, Zenon DEF PohInv, ServiceTypes, NewBankInv
  <2>3. WorkingInv' /\ StartInv'
    BY <1>1, <1>2, <2>1, Zenon DEF PohInv, WorkingInv, StartInv, MayLead
  <2> QED  BY <1>1, <2>2, <2>3, ControlStep, Zenon
<1>6. CASE dont_start_leader
  <2>1. /\ replay_pc = "start_leader" /\ replay_pc' = "has_bank"
        /\ UNCHANGED <<connected, tpu_has_bank>>
    BY <1>6, Zenon DEF dont_start_leader
  <2>2. ServiceTypes' /\ NewBankInv'
    BY <1>1, <2>1, Zenon DEF PohInv, ServiceTypes, NewBankInv
  <2>3. WorkingInv' /\ StartInv'
    BY <1>1, <1>2, <2>1, Zenon DEF PohInv, WorkingInv, StartInv, MayLead
  <2> QED  BY <1>1, <2>2, <2>3, ControlStep, Zenon
<1> QED  BY <1>3, <1>4, <1>5, <1>6, Zenon

LEMMA ReplayStepKeeps ==
  ASSUME PohInv, replay_active_banks
  PROVE  PohInv' /\ StaysLeft
<1>0. /\ UNCHANGED <<recorder, broadcast, connected, should_tick, results, tpu_has_bank, tpu_bank>>
      /\ replay_pc = "active_banks" /\ replay_pc' = "reset"
  BY Zenon DEF replay_active_banks, serviceVars
<1>1. PICK new \in SUBSET {s \in Slots \ MyLeaderSlots : banks[s].status = "none"},
           parent \in Slots :
          banks' = [s \in Slots |->
                  IF s \in new
                  THEN [parent |-> parent, tick_height |-> end_tick_height(s), status |-> "frozen"]
                  ELSE IF banks[s].status = "active" /\ is_complete(s)
                  THEN [banks[s] EXCEPT !.status = "frozen"]
                  ELSE banks[s]]
  BY ZenonT(60) DEF replay_active_banks
<1>2. banks \in [Slots -> Bank]
  BY StateFields, Zenon DEF PohInv, StateTypes
<1>3. \A s \in Slots :
        \/ banks'[s] = banks[s] /\ ~(banks[s].status = "active" /\ is_complete(s))
        \/ /\ banks[s].status = "active" /\ banks[s].tick_height = end_tick_height(s)
           /\ banks'[s].tick_height = end_tick_height(s) /\ banks'[s].status = "frozen"
           /\ banks'[s] \in Bank
        \/ /\ banks[s].status = "none" /\ s \notin MyLeaderSlots
           /\ banks'[s].tick_height = end_tick_height(s) /\ banks'[s].status = "frozen"
           /\ banks'[s] \in Bank
  <2> SUFFICES ASSUME NEW s \in Slots
               PROVE  \/ banks'[s] = banks[s] /\ ~(banks[s].status = "active" /\ is_complete(s))
                      \/ /\ banks[s].status = "active"
                         /\ banks[s].tick_height = end_tick_height(s)
                         /\ banks'[s].tick_height = end_tick_height(s)
                         /\ banks'[s].status = "frozen" /\ banks'[s] \in Bank
                      \/ /\ banks[s].status = "none" /\ s \notin MyLeaderSlots
                         /\ banks'[s].tick_height = end_tick_height(s)
                         /\ banks'[s].status = "frozen" /\ banks'[s] \in Bank
    BY Zenon
  <2>1. CASE s \in new
    <3>1. banks'[s] = [parent |-> parent, tick_height |-> end_tick_height(s), status |-> "frozen"]
      BY <1>1, <2>1, Zenon
    <3>2. end_tick_height(s) \in 0..MaxTickHeight
      BY SlotEnd
    <3> QED  BY <2>1, <3>1, <3>2 DEF Bank
  <2>2. CASE s \notin new /\ banks[s].status = "active" /\ is_complete(s)
    <3>1. banks'[s] = [banks[s] EXCEPT !.status = "frozen"] /\ banks[s] \in Bank
      BY <1>1, <1>2, <2>2, Zenon
    <3> QED  BY <2>2, <3>1, Zenon DEF Bank, is_complete
  <2>3. CASE s \notin new /\ ~(banks[s].status = "active" /\ is_complete(s))
    BY <1>1, <2>3, Zenon
  <2> QED  BY <2>1, <2>2, <2>3, Zenon
<1>4. StateTypes(State)'
  <2>1. banks' \in [Slots -> Bank]
    BY <1>1, <1>2, <1>3, ZenonT(60)
  <2>2. /\ RecorderTypes(State'.recorder) /\ State'.banks \in [Slots -> Bank]
        /\ State'.broadcast = [y \in Slots |-> State'.broadcast[y]]
    BY <1>0, <2>1, StateFields, StateFieldsNext, Zenon DEF PohInv, StateTypes
  <2> QED  BY <2>2, StateFieldsNext, Zenon DEF StateTypes
<1>5. ServiceTypes' /\ NewBankInv'
  BY <1>0, Zenon DEF PohInv, ServiceTypes, NewBankInv
<1>6. WorkingInv'
  <2>1. ASSUME NEW x \in MyLeaderSlots, x \in Slots, Leading(State, x),
               banks[x].status = "active", banks[x].tick_height # end_tick_height(x)
        PROVE  Leading(State, x)'
    <3>1. banks'[x] = banks[x]
      BY <1>3, <2>1, Zenon
    <3> QED  BY <1>0, <2>1, <3>1, StateFields, StateFieldsNext, Zenon DEF Leading
  <2> QED  BY <1>0, <2>1, Working, ZenonT(60) DEF PohInv, WorkingInv
<1>7. SlotInv'
  BY <1>0, <1>3, Zenon DEF PohInv, SlotInv
<1>8. StartInv'
  <2>1. recorder.start_slot \in Slots
    BY StateFields, Zenon DEF PohInv, StateTypes, RecorderTypes
  <2>2. MayLead' <=> MayLead
    BY <1>0, Zenon DEF MayLead
  <2>3. CASE MayLead /\ recorder.leader_first # {}
    <3>1. /\ banks[recorder.start_slot].status \in {"active", "frozen"}
          /\ banks[recorder.start_slot].tick_height = end_tick_height(recorder.start_slot)
          /\ recorder.working_bank = {} => Aligned(recorder, end_tick_height(recorder.start_slot))
      BY <2>3, Zenon DEF PohInv, StartInv
    <3>2. /\ banks'[recorder.start_slot].status = "frozen"
          /\ banks'[recorder.start_slot].tick_height = end_tick_height(recorder.start_slot)
      BY <1>3, <2>1, <3>1, Zenon DEF is_complete
    <3> QED  BY <1>0, <3>1, <3>2, Zenon DEF StartInv
  <2> QED  BY <1>0, <2>2, <2>3, Zenon DEF StartInv
<1>9. StaysLeft
  BY <1>0, <1>3, Zenon DEF StaysLeft
<1> QED  BY <1>4, <1>5, <1>6, <1>7, <1>8, <1>9, Zenon DEF PohInv

\* A reset leaves no bank and no cached tick.
LEMMA Reset ==
  ASSUME RecorderTypes(recorder), NEW slot \in Slots, NEW received
  PROVE  LET q == reset(slot, received) IN
         /\ RecorderTypes(q) /\ q.working_bank = {} /\ q.start_slot = slot
         /\ Aligned(q, end_tick_height(slot)) /\ FullTicks(q)
<1>1. PICK c, e :
          /\ c = clear_bank(recorder, received)
          /\ e = [c EXCEPT !.num_hashes = 0, !.remaining_hashes = hashes_per_tick,
                           !.tick_cache = <<>>, !.start_slot = slot,
                           !.tick_height = end_tick_height(slot),
                           !.start_tick_height = end_tick_height(slot) + 1]
          /\ reset(slot, received)
               = compute_leader_slot_tick_heights(e, next_leader_slot(slot, received))
  BY Zenon DEF reset
<1>2. RecorderTypes(c) /\ c.working_bank = {}
  BY <1>1, ClearBank, Zenon
<1>3. /\ IsRecorder(e) /\ e.num_hashes = 0 /\ e.remaining_hashes = hashes_per_tick
      /\ e.tick_cache = <<>> /\ e.start_slot = slot /\ e.tick_height = end_tick_height(slot)
      /\ e.start_tick_height = end_tick_height(slot) + 1
      /\ e.working_bank = c.working_bank /\ e.min_tick_height = c.min_tick_height
  BY <1>1, <1>2, Zenon DEF RecorderTypes, IsRecorder, Fields
<1>4. RecorderTypes(e)
  <2>1. e.tick_height \in 0..MaxTickHeight /\ e.start_tick_height \in Int
        /\ e.start_tick_height <= e.tick_height + 1
    BY <1>3, SlotEnd
  <2>2. hashes_per_tick \in Nat \ {0} /\ e.num_hashes + e.remaining_hashes <= hashes_per_tick
    BY <1>3, PohAssumption
  <2>3. e.tick_cache \in Seq(Tick)
    BY <1>3, SMTT(60)
  <2>4. /\ e.working_bank \subseteq MyLeaderSlots /\ e.min_tick_height \in Int
        /\ e.num_hashes \in Nat /\ e.remaining_hashes \in Nat \ {0} /\ e.start_slot \in Slots
    BY <1>2, <1>3, <2>2 DEF RecorderTypes
  <2> QED  BY <1>3, <2>1, <2>2, <2>3, <2>4, Zenon DEF RecorderTypes
<1>5. PICK q, next : q = reset(slot, received) /\ q = compute_leader_slot_tick_heights(e, next)
  BY <1>1, Zenon
<1>6. /\ RecorderTypes(q) /\ q.working_bank = {} /\ q.start_slot = slot
      /\ q.tick_height = end_tick_height(slot) /\ q.tick_cache = <<>>
      /\ q.num_hashes = 0 /\ q.remaining_hashes = hashes_per_tick
  <2>1. /\ RecorderTypes(q) /\ q.working_bank = e.working_bank /\ q.start_slot = e.start_slot
        /\ q.tick_height = e.tick_height /\ q.tick_cache = e.tick_cache
        /\ q.num_hashes = e.num_hashes /\ q.remaining_hashes = e.remaining_hashes
    BY <1>4, <1>5, ComputeLeader, SMTT(60)
  <2> QED  BY <1>2, <1>3, <2>1, Zenon
<1>7. Aligned(q, end_tick_height(slot))
  BY <1>6, SlotEnd DEF Aligned
<1>8. FullTicks(q)
  BY <1>6, PohAssumption DEF FullTicks
<1> QED  BY <1>5, <1>6, <1>7, <1>8, Zenon

LEMMA ResetStep ==
  ASSUME PohInv, reset_poh_recorder
  PROVE  PohInv' /\ StaysLeft
<1>0. /\ UNCHANGED <<banks, broadcast, connected, should_tick, results, tpu_bank>>
      /\ replay_pc = "reset" /\ replay_pc' = "start_leader" /\ tpu_has_bank' = FALSE
  BY Zenon DEF reset_poh_recorder, serviceVars
<1>1. PICK slot, received : /\ slot \in Slots /\ banks[slot].status = "frozen"
                            /\ recorder' = reset(slot, received)
  BY Zenon DEF reset_poh_recorder
<1>2. /\ RecorderTypes(recorder') /\ recorder'.working_bank = {} /\ recorder'.start_slot = slot
      /\ Aligned(recorder', end_tick_height(slot))
  <2>1. RecorderTypes(recorder)
    BY StateFields, Zenon DEF PohInv, StateTypes
  <2> QED  BY <1>1, <2>1, Reset, Zenon
<1>3. StateTypes(State)'
  BY <1>0, <1>2, StateFields, StateFieldsNext, Zenon DEF PohInv, StateTypes
<1>4. ServiceTypes' /\ NewBankInv' /\ WorkingInv'
  BY <1>0, <1>2, Zenon DEF PohInv, ServiceTypes, NewBankInv, WorkingInv
<1>5. StartInv'
  <2>1. banks[slot].tick_height = end_tick_height(slot)
    BY <1>1, Zenon DEF PohInv, SlotInv
  <2> QED  BY <1>0, <1>1, <1>2, <2>1, Zenon DEF StartInv
<1>6. SlotInv' /\ StaysLeft
  BY <1>0, <1>2, Zenon DEF PohInv, SlotInv, StaysLeft
<1> QED  BY <1>3, <1>4, <1>5, <1>6, Zenon DEF PohInv

\* The slot that the recorder is in has not ended.
LEMMA PohSlot ==
  ASSUME recorder.tick_height \in Nat
  PROVE  recorder.tick_height < end_tick_height(poh_slot)
<1>1. \A h \in Nat : Max({h + 1 - 1, 0}) = h
  BY SMT DEF Max
<1>2. \A h \in Nat, n \in Nat \ {0} : h < (h \div n + 1) * n
  BY SMT
<1>3. ticks_per_slot \in Nat \ {0}
  BY PohAssumption, Zenon
<1> QED  BY <1>1, <1>2, <1>3, SMTT(60) DEF poh_slot, slot_for_tick_height, end_tick_height

LEMMA StartLeaderStep ==
  ASSUME PohInv, maybe_start_leader
  PROVE  PohInv' /\ StaysLeft
<1>0. PICK x : x = poh_slot
  BY Zenon
<1>1. /\ UNCHANGED <<recorder, broadcast, connected, should_tick, results, tpu_has_bank>>
      /\ replay_pc = "start_leader" /\ replay_pc' = "set_bank" /\ tpu_bank' = {x}
      /\ ~tpu_has_bank /\ recorder.leader_first # {}
      /\ x \in MyLeaderSlots /\ banks[x].status = "none"
      /\ banks' = [banks EXCEPT ![x] = [parent |-> recorder.start_slot,
                       tick_height |-> banks[recorder.start_slot].tick_height, status |-> "active"]]
  BY <1>0, Zenon DEF maybe_start_leader, serviceVars, reached_leader_slot, parent_slot
<1>2. /\ banks \in [Slots -> Bank] /\ recorder.start_slot \in Slots /\ x \in Slots
      /\ recorder.tick_height \in 0..MaxTickHeight /\ recorder.tick_cache \in Seq(Tick)
  BY <1>1, StateFields, PohAssumption, Zenon DEF PohInv, StateTypes, RecorderTypes
<1>3. recorder.working_bank = {}
  BY <1>1, Zenon DEF PohInv, WorkingInv
<1>4. /\ banks[recorder.start_slot].status = "frozen"
      /\ banks[recorder.start_slot].tick_height = end_tick_height(recorder.start_slot)
      /\ Aligned(recorder, end_tick_height(recorder.start_slot))
  BY <1>1, <1>3, Zenon DEF PohInv, StartInv, MayLead
<1>5. x # recorder.start_slot
  BY <1>1, <1>4, Zenon
<1>6. end_tick_height(recorder.start_slot) <= end_tick_height(x)
  <2>1. /\ MaxTickHeight \in Int /\ end_tick_height(x) \in Int
        /\ end_tick_height(recorder.start_slot) \in Int
    BY <1>2, SlotEnd
  <2>2. recorder.tick_height \in Nat /\ Len(recorder.tick_cache) \in Nat
    BY <1>2, <2>1
  <2>3. recorder.tick_height < end_tick_height(x)
    BY <1>0, <2>2, PohSlot, Zenon
  <2> QED  BY <1>4, <2>1, <2>2, <2>3 DEF Aligned
<1>7. /\ banks'[x].status = "active" /\ banks'[x] \in Bank
      /\ banks'[x].tick_height = end_tick_height(recorder.start_slot)
      /\ \A s \in Slots \ {x} : banks'[s] = banks[s]
      /\ banks' \in [Slots -> Bank]
  <2>1. PICK b : b = [parent |-> recorder.start_slot,
                      tick_height |-> banks[recorder.start_slot].tick_height, status |-> "active"]
    BY Zenon
  <2>2. b \in Bank /\ b.status = "active" /\ b.tick_height = end_tick_height(recorder.start_slot)
    <3>1. banks[recorder.start_slot].tick_height \in 0..MaxTickHeight
      BY <1>2, Zenon DEF Bank
    <3> QED  BY <1>2, <1>4, <2>1, <3>1, Zenon DEF Bank
  <2>3. banks' = [banks EXCEPT ![x] = b]
    BY <1>1, <2>1, Zenon
  <2> QED  BY <1>2, <2>2, <2>3, Zenon
<1>8. StateTypes(State)'
  <2>1. /\ RecorderTypes(State'.recorder) /\ State'.banks \in [Slots -> Bank]
        /\ State'.broadcast = [y \in Slots |-> State'.broadcast[y]]
    BY <1>1, <1>7, StateFields, StateFieldsNext DEF PohInv, StateTypes
  <2> QED  BY <2>1, StateFieldsNext, Zenon DEF StateTypes
<1>9. ServiceTypes' /\ WorkingInv'
  BY <1>1, <1>3, Zenon DEF PohInv, ServiceTypes, WorkingInv
<1>10. NewBankInv'
  <2>1. broadcast[x] = <<>>
    BY <1>1, <1>2, Zenon DEF PohInv, SlotInv
  <2>2. banks'[recorder.start_slot].tick_height = end_tick_height(recorder.start_slot)
    BY <1>2, <1>4, <1>5, <1>7, Zenon
  <2> QED  BY <1>1, <1>5, <1>6, <1>7, <2>1, <2>2, Zenon DEF NewBankInv
<1>11. StartInv'
  BY <1>1, <1>2, <1>4, <1>5, <1>7, ZenonT(60) DEF StartInv
<1>12. SlotInv' /\ StaysLeft
  BY <1>1, <1>3, <1>7, Zenon DEF PohInv, SlotInv, StaysLeft
<1> QED  BY <1>8, <1>9, <1>10, <1>11, <1>12, Zenon DEF PohInv

\* set_bank gives the recorder the bank and flushes the ticks cached for it.
SetsBank(s, t, x) ==
    /\ x \in MyLeaderSlots \ {recorder.start_slot} /\ x \in Slots /\ recorder.start_slot \in Slots
    /\ tpu_bank = {x} /\ broadcast[x] = <<>> /\ banks[x].status = "active"
    /\ banks[x].tick_height = end_tick_height(recorder.start_slot)
    /\ banks[recorder.start_slot].status \in {"active", "frozen"}
    /\ banks[recorder.start_slot].tick_height = end_tick_height(recorder.start_slot)
    /\ recorder.working_bank = {}
    /\ s.recorder.start_slot = recorder.start_slot /\ s.recorder.tick_cache = recorder.tick_cache
    /\ s.recorder.num_hashes = recorder.num_hashes
    /\ s.recorder.remaining_hashes = recorder.remaining_hashes
    /\ s.banks = banks /\ s.broadcast = broadcast
    /\ StateTypes(s) /\ Leading(s, x)
    /\ \E received : t = flush_ticks(s, x, received)
    /\ Assign(t) /\ Effect(s, t, x)

LEMMA SetBankFlushes ==
  ASSUME PohInv, set_bank
  PROVE  \E s, t, x : SetsBank(s, t, x)
<1>0. /\ UNCHANGED <<connected, should_tick, results, tpu_has_bank>>
      /\ replay_pc = "set_bank" /\ replay_pc' = "has_bank" /\ tpu_bank' = {}
  BY Zenon DEF set_bank, serviceVars
<1>1. recorder.working_bank = {}
  BY <1>0, Zenon DEF PohInv, WorkingInv
<1>2. PICK x \in MyLeaderSlots \ {recorder.start_slot} :
          /\ tpu_bank = {x} /\ recorder.leader_first # {}
          /\ banks[x].status = "active" /\ banks[x].tick_height <= end_tick_height(x)
          /\ banks[x].tick_height = banks[recorder.start_slot].tick_height
          /\ broadcast[x] = <<>>
  BY <1>0, Zenon DEF PohInv, NewBankInv
<1>3. /\ banks[recorder.start_slot].status \in {"active", "frozen"}
      /\ banks[recorder.start_slot].tick_height = end_tick_height(recorder.start_slot)
      /\ Aligned(recorder, end_tick_height(recorder.start_slot))
  BY <1>0, <1>1, <1>2, Zenon DEF PohInv, StartInv, MayLead
<1>4. RecorderTypes(recorder) /\ StateTypes(State)
  BY StateFields, Zenon DEF PohInv, StateTypes
<1>5. x \in Slots /\ recorder.start_slot \in Slots
  BY <1>2, <1>4, PohAssumption, Zenon DEF RecorderTypes
<1>6. PICK q : q = [recorder EXCEPT !.working_bank = {x}, !.min_tick_height = banks[x].tick_height]
  BY ZenonT(60)
<1>7. /\ IsRecorder(q) /\ q.working_bank = {x} /\ q.min_tick_height = banks[x].tick_height
      /\ \A f \in Fields \ {"working_bank", "min_tick_height"} : q[f] = recorder[f]
  BY <1>4, <1>6, Zenon DEF RecorderTypes, IsRecorder, Fields
<1>8. /\ q.tick_height = recorder.tick_height /\ q.start_slot = recorder.start_slot
      /\ q.start_tick_height = recorder.start_tick_height /\ q.tick_cache = recorder.tick_cache
      /\ q.leader_first = recorder.leader_first /\ q.num_hashes = recorder.num_hashes
      /\ q.remaining_hashes = recorder.remaining_hashes
  BY <1>7, Zenon DEF Fields
<1>9. banks[x].tick_height \in Int /\ banks[x].tick_height <= recorder.tick_height
      /\ recorder.tick_height \in Int
  <2>1. /\ end_tick_height(recorder.start_slot) \in Int /\ MaxTickHeight \in Int
    BY <1>5, SlotEnd, SMTT(60)
  <2>2. Len(recorder.tick_cache) \in Nat /\ recorder.tick_height \in Int
    BY <1>4, <2>1, SMTT(60) DEF RecorderTypes
  <2> QED  BY <1>2, <1>3, <2>1, <2>2 DEF Aligned
<1>10. RecorderTypes(q)
  BY <1>2, <1>4, <1>7, <1>8, <1>9, Zenon DEF RecorderTypes
<1>11. PICK s : s = [State EXCEPT !.recorder = q]
  BY Zenon
<1>12. StateTypes(s) /\ s.recorder = q /\ s.banks = banks /\ s.broadcast = broadcast
  BY <1>4, <1>10, <1>11, NewRecorder, StateFields, ZenonT(60)
<1>13. Leading(s, x)
  <2>1. Aligned(q, banks[x].tick_height)
    BY <1>2, <1>3, <1>8, Zenon DEF Aligned
  <2> QED  BY <1>2, <1>7, <1>8, <1>9, <1>12, <2>1, Zenon DEF Leading
<1>14. PICK received : Assign(flush_cache(s, FALSE, received))
  <2>1. (CHOOSE y \in tpu_bank : TRUE) = x
    BY <1>2, Zenon
  <2>2. s = [State EXCEPT !.recorder.working_bank = tpu_bank,
                          !.recorder.min_tick_height = banks[x].tick_height]
    BY <1>2, <1>6, <1>11, ZenonT(60) DEF State
  <2> QED  BY <2>1, <2>2, Zenon DEF set_bank
<1>15. PICK t : t = flush_ticks(s, x, received)
  BY Zenon
<1>16. Assign(t) /\ Effect(s, t, x)
  <2>1. s.recorder.min_tick_height \in Int /\ s.recorder.tick_height \in Int
    BY <1>7, <1>8, <1>9, <1>12, Zenon
  <2>2. flush_cache(s, FALSE, received) = flush_ticks(s, x, received)
    <3>1. FALSE \in BOOLEAN /\ (FALSE => s.recorder.min_tick_height < s.recorder.tick_height)
      BY Zenon
    <3> QED  BY <1>13, <2>1, <3>1, FlushCache, Zenon
  <2> QED  BY <1>12, <1>13, <1>14, <1>15, <2>2, FlushTicks, Zenon
<1> QED  BY <1>1, <1>2, <1>3, <1>5, <1>8, <1>12, <1>13, <1>15, <1>16, ZenonT(60) DEF SetsBank

LEMMA SetBankStep ==
  ASSUME PohInv, set_bank
  PROVE  PohInv' /\ StaysLeft
<1>0. /\ UNCHANGED <<connected, should_tick, results, tpu_has_bank>>
      /\ replay_pc = "set_bank" /\ replay_pc' = "has_bank" /\ tpu_bank' = {}
  BY Zenon DEF set_bank, serviceVars
<1>1. PICK s, t, x : SetsBank(s, t, x)
  BY SetBankFlushes, Zenon
<1>2. recorder.working_bank = {} /\ Assign(t) /\ Effect(s, t, x)
  BY <1>1, Zenon DEF SetsBank
<1>3. /\ x \in MyLeaderSlots \ {recorder.start_slot} /\ tpu_bank = {x}
      /\ broadcast[x] = <<>> /\ banks[x].status = "active"
  BY <1>1, Zenon DEF SetsBank
<1>4. /\ banks[recorder.start_slot].status \in {"active", "frozen"}
      /\ banks[recorder.start_slot].tick_height = end_tick_height(recorder.start_slot)
  BY <1>1, Zenon DEF SetsBank
<1>5. x \in Slots /\ recorder.start_slot \in Slots
  BY <1>1, Zenon DEF SetsBank
<1>6. s.recorder.start_slot = recorder.start_slot /\ s.banks = banks /\ s.broadcast = broadcast
  BY <1>1, Zenon DEF SetsBank
<1>7. /\ recorder' = t.recorder /\ banks' = t.banks /\ broadcast' = t.broadcast
      /\ StateTypes(t)
      /\ \A y \in Slots \ {x} : banks'[y] = banks[y] /\ broadcast'[y] = broadcast[y]
      /\ GoesOn(s, t, x) \/ Leaves(t, x) \/ GivesUp(t, x)
  BY <1>2, <1>6, Zenon DEF Assign, Effect
<1>8. StateTypes(State)'
  BY <1>2, <1>7, NextTypes, Zenon
<1>9. banks'[x].status = "active" /\ (recorder'.working_bank = {} \/ recorder'.working_bank = {x})
  BY <1>7, Zenon DEF GoesOn, Leaves, GivesUp, Leading
<1>10. WorkingInv'
  <2>1. ASSUME recorder'.working_bank # {}
        PROVE  Leading(State, x)' /\ recorder'.tick_height < end_tick_height(x)
    <3>1. Leading(t, x) /\ t.recorder.tick_height < end_tick_height(x)
      BY <1>7, <2>1, Zenon DEF GoesOn, Leaves, GivesUp
    <3> QED  BY <1>7, <3>1, StateFieldsNext, Zenon DEF Leading
  <2> QED  BY <1>0, <1>3, <2>1, Zenon DEF WorkingInv
<1>11. NewBankInv' /\ ServiceTypes'
  BY <1>0, Zenon DEF NewBankInv, PohInv, ServiceTypes
<1>12. StartInv'
  <2>1. CASE GoesOn(s, t, x)
    <3>1. recorder'.start_slot = recorder.start_slot /\ recorder'.working_bank = {x}
      BY <1>6, <1>7, <2>1, Zenon DEF GoesOn, Leading
    <3>2. banks'[recorder'.start_slot] = banks[recorder.start_slot]
      BY <1>3, <1>5, <1>7, <3>1, Zenon
    <3> QED  BY <1>0, <1>4, <3>1, <3>2, Zenon DEF StartInv
  <2>2. CASE Leaves(t, x)
    <3>1. /\ recorder'.start_slot = x /\ banks'[x].tick_height = end_tick_height(x)
          /\ recorder'.leader_first # {} => Aligned(recorder', end_tick_height(x))
      BY <1>7, <2>2, Zenon DEF Leaves
    <3> QED  BY <1>0, <1>9, <3>1, ZenonT(60) DEF StartInv
  <2>3. CASE GivesUp(t, x)
    <3>1. ~MayLead'
      BY <1>0, <1>7, <2>3, ZenonT(60) DEF GivesUp, MayLead
    <3> QED  BY <3>1, Zenon DEF StartInv
  <2> QED  BY <1>7, <2>1, <2>2, <2>3, Zenon
<1>13. SlotInv'
  BY <1>7, <1>9, ZenonT(60) DEF PohInv, SlotInv
<1>14. StaysLeft
  <2>1. recorder.working_bank = {}
    BY <1>2, Zenon
  <2> QED  BY <1>3, <1>7, <1>9, <2>1, Zenon DEF StaysLeft
<1> QED  BY <1>8, <1>10, <1>11, <1>12, <1>13, <1>14, Zenon DEF PohInv

-----------------------------------------------------------------------------
(* The theorems.                                                           *)

LEMMA PohInit ==
  ASSUME Init
  PROVE  PohInv /\ recorder.working_bank = {} /\ FullTicks(recorder)
<1>1. PICK e, next :
          /\ e = [tick_height |-> end_tick_height(0), start_slot |-> 0,
                  start_tick_height |-> end_tick_height(0) + 1, tick_cache |-> <<>>,
                  working_bank |-> {}, min_tick_height |-> 0, leader_first |-> {},
                  grace_ticks |-> 0, num_hashes |-> 0, remaining_hashes |-> hashes_per_tick]
          /\ recorder = compute_leader_slot_tick_heights(e, next)
  BY ZenonT(60) DEF Init
<1>2. /\ IsRecorder(e) /\ e.num_hashes = 0 /\ e.remaining_hashes = hashes_per_tick
      /\ e.tick_cache = <<>> /\ e.start_slot = 0 /\ e.tick_height = end_tick_height(0)
      /\ e.start_tick_height = end_tick_height(0) + 1
      /\ e.working_bank = {} /\ e.min_tick_height = 0
  BY <1>1, Zenon DEF IsRecorder, Fields
<1>3. 0 \in Slots /\ end_tick_height(0) \in 0..MaxTickHeight
  <2>1. 0 \in Slots
    BY PohAssumption DEF Slots
  <2> QED  BY <2>1, SlotEnd
<1>4. RecorderTypes(e)
  <2>1. hashes_per_tick \in Nat \ {0} /\ 0 + hashes_per_tick <= hashes_per_tick
    BY PohAssumption
  <2>2. <<>> \in Seq(Tick)
    OBVIOUS
  <2>3. end_tick_height(0) + 1 \in Int /\ end_tick_height(0) + 1 <= end_tick_height(0) + 1
    BY <1>3
  <2> QED  BY <1>2, <1>3, <2>1, <2>2, <2>3 DEF RecorderTypes
<1>5. /\ RecorderTypes(recorder) /\ recorder.working_bank = {} /\ recorder.start_slot = 0
      /\ recorder.tick_height = end_tick_height(0) /\ recorder.tick_cache = <<>>
      /\ recorder.num_hashes = 0 /\ recorder.remaining_hashes = hashes_per_tick
  <2>1. /\ RecorderTypes(recorder) /\ recorder.working_bank = e.working_bank
        /\ recorder.num_hashes = e.num_hashes
        /\ recorder.remaining_hashes = e.remaining_hashes
        /\ recorder.start_slot = e.start_slot
        /\ recorder.tick_height = e.tick_height /\ recorder.tick_cache = e.tick_cache
    BY <1>1, <1>4, ComputeLeader, ZenonT(60)
  <2> QED  BY <1>2, <2>1, Zenon
<1>6. /\ banks \in [Slots -> Bank] /\ broadcast = [s \in Slots |-> broadcast[s]]
      /\ banks[0].status = "frozen" /\ banks[0].tick_height = end_tick_height(0)
      /\ \A s \in Slots \ {0} : banks[s].status = "none"
      /\ \A s \in Slots : broadcast[s] = <<>>
  <2>1. 0 \in 0..MaxTickHeight
    <3>1. MaxTickHeight \in Int
      BY <1>3, SlotEnd, Zenon
    <3> QED  BY <1>3, <3>1
  <2>2. banks = [s \in Slots |-> IF s = 0
           THEN [parent |-> 0, tick_height |-> end_tick_height(0), status |-> "frozen"]
           ELSE NoBank]
    BY Zenon DEF Init
  <2>3. /\ banks[0].status = "frozen" /\ banks[0].tick_height = end_tick_height(0)
        /\ \A s \in Slots \ {0} : banks[s].status = "none"
    BY <1>3, <2>2, Zenon DEF NoBank
  <2>4. banks \in [Slots -> Bank]
    BY <1>3, <2>1, <2>2, Zenon DEF NoBank, Bank
  <2> QED  BY <2>3, <2>4, Zenon DEF Init
<1>7. StateTypes(State)
  BY <1>5, <1>6, StateFields, ZenonT(60) DEF StateTypes
<1>8. ServiceTypes /\ WorkingInv /\ NewBankInv
  BY <1>5, Zenon DEF Init, ServiceTypes, WorkingInv, NewBankInv
<1>9. Aligned(recorder, end_tick_height(0))
  BY <1>3, <1>5 DEF Aligned
<1>10. StartInv /\ SlotInv
  BY <1>5, <1>6, <1>9, Zenon DEF StartInv, SlotInv
<1>11. FullTicks(recorder)
  BY <1>5, PohAssumption DEF FullTicks
<1> QED  BY <1>5, <1>7, <1>8, <1>10, <1>11, Zenon DEF PohInv

LEMMA PohStep ==
  ASSUME PohInv, [Next]_vars
  PROVE  PohInv' /\ (StaysLeft \/ UNCHANGED vars)
<1>1. CASE hash
  BY <1>1, HashStep, Zenon
<1>2. CASE tick
  BY <1>2, TickStep, Zenon
<1>3. CASE \E slot \in Slots : record(slot)
  BY <1>3, RecordStep, Zenon
<1>4. CASE disconnect \/ read_has_bank \/ keep_fork \/ dont_start_leader
  BY <1>4, LoopStep, Zenon
<1>5. CASE replay_active_banks
  BY <1>5, ReplayStepKeeps, Zenon
<1>6. CASE reset_poh_recorder
  BY <1>6, ResetStep, Zenon
<1>7. CASE maybe_start_leader
  BY <1>7, StartLeaderStep, Zenon
<1>8. CASE set_bank
  BY <1>8, SetBankStep, Zenon
<1>9. CASE UNCHANGED vars
  <2>1. UNCHANGED <<recorder, banks, broadcast, connected, should_tick, results, replay_pc,
                    tpu_has_bank, tpu_bank>>
    BY <1>9, Zenon DEF vars, serviceVars, replayVars
  <2>2. ServiceTypes' /\ NewBankInv' /\ StartInv'
    BY <2>1, ZenonT(60) DEF PohInv, ServiceTypes, NewBankInv, StartInv, MayLead
  <2>3. WorkingInv'
    BY <2>1, SameLeading, Zenon DEF PohInv, WorkingInv
  <2> QED  BY <1>9, <2>1, <2>2, <2>3, ControlStep, Zenon
<1> QED  BY <1>1, <1>2, <1>3, <1>4, <1>5, <1>6, <1>7, <1>8, <1>9, Zenon DEF Next, ReplayStep

\* The inductive invariant: a recorder with a bank has cached exactly the ticks
\* that its bank lacks; one without, the ticks after the bank it builds on.
THEOREM PohSafety == Spec => []PohInv
<1>1. Init => PohInv
  BY PohInit, Zenon
<1>2. PohInv /\ [Next]_vars => PohInv'
  BY PohStep, Zenon
<1> QED  BY <1>1, <1>2, PTL DEF Spec

LEMMA PohImplies ==
  ASSUME PohInv
  PROVE  LeaderAssertions /\ RecordsAreAnswered
<1>1. RecorderTypes(recorder) /\ banks \in [Slots -> Bank] /\ ServiceTypes
  BY StateFields, Zenon DEF PohInv, StateTypes
<1>2. TypeOK
  <2>1. /\ recorder.num_hashes \in 0..(hashes_per_tick - 1)
        /\ recorder.remaining_hashes \in 1..hashes_per_tick
    <3>1. hashes_per_tick \in Nat
      BY PohAssumption, Zenon
    <3> QED  BY <1>1, <3>1 DEF RecorderTypes
  <2> QED  BY <1>1, <2>1, Zenon DEF TypeOK, RecorderTypes, ServiceTypes, Bank
<1>3. ASSUME replay_pc = "start_leader", ~tpu_has_bank
      PROVE  recorder.working_bank = {}
  BY <1>3, Zenon DEF PohInv, WorkingInv
<1>4. ASSUME replay_pc = "start_leader", ~tpu_has_bank, reached_leader_slot
      PROVE  /\ banks[parent_slot].status = "frozen"
             /\ recorder.tick_height + 1 >= recorder.start_tick_height
  <2>1. recorder.leader_first # {}
    BY <1>4, Zenon DEF reached_leader_slot
  <2>2. banks[recorder.start_slot].status = "frozen"
    BY <1>4, <2>1, Zenon DEF PohInv, StartInv, MayLead
  <2>3. recorder.tick_height + 1 >= recorder.start_tick_height
    <3>1. MaxTickHeight \in Int
      BY <1>1, SlotEnd, Zenon DEF RecorderTypes
    <3> QED  BY <1>1, <3>1, Zenon DEF RecorderTypes
  <2> QED  BY <2>2, <2>3, Zenon DEF parent_slot
<1>5. RecordsAreAnswered
  BY <1>1, Zenon DEF ServiceTypes, RecordsAreAnswered
<1> QED  BY <1>2, <1>3, <1>4, <1>5, Zenon DEF LeaderAssertions

\* The assertions of maybe_start_leader and reached_leader_slot hold whenever
\* the replay loop gets there, for every leader schedule and any number of
\* ticks between its steps: the recorder has no bank, the parent is frozen.
THEOREM LeaderMayStart == Spec => []LeaderAssertions
<1>1. PohInv => LeaderAssertions
  BY PohImplies, Zenon
<1> QED  BY <1>1, PohSafety, PTL

\* No record request comes before the height of its bank, and one fails to be
\* sent only after the broadcast stage has gone, so record_transactions does
\* not panic on the answer.
THEOREM RecordAnswers == Spec => []RecordsAreAnswered
<1>1. PohInv => RecordsAreAnswered
  BY PohImplies, Zenon
<1> QED  BY <1>1, PohSafety, PTL

\* set_bank, record and flush_cache never go on with a slot that the recorder
\* has left, and never give a tick to a bank that is frozen.
THEOREM SlotIsLeft == Spec => SlotIsLeftForGood
<1>1. PohInv /\ [Next]_vars =>
        [\A s \in Slots :
           /\ broadcast[s] # <<>> /\ recorder.working_bank # {s} =>
                  broadcast'[s] = broadcast[s] /\ recorder'.working_bank # {s}
           /\ banks[s].status = "frozen" => banks'[s] = banks[s]]_vars
  BY PohStep, Zenon DEF StaysLeft
<1> QED  BY <1>1, PohSafety, PTL DEF Spec, SlotIsLeftForGood

-----------------------------------------------------------------------------
(* What the counts of a validator are after one more entry.                *)

LEMMA Reaches ==
  ASSUME NEW S \in SUBSET Nat, 0 \in S, \A n \in S : n + 1 \in S
  PROVE  \A n \in Nat : n \in S
<1> DEFINE Out == Nat \ S
<1>1. SUFFICES ASSUME Out # {} PROVE FALSE
  BY Zenon
<1>2. PICK n \in Out : \A y \in Nat : <<y, n>> \in OpToRel(<, Nat) => y \notin Out
  <2>1. IsWellFoundedOn(OpToRel(<, Nat), Nat)
    BY NatLessThanWellFounded, Zenon
  <2>2. Out \subseteq Nat
    BY Zenon
  <2> HIDE DEF Out
  <2> QED  BY <1>1, <2>1, <2>2, WFMin, Zenon
<1>3. n \in Nat /\ n # 0 /\ n - 1 \in Nat /\ n - 1 < n /\ n - 1 + 1 = n
  OBVIOUS
<1>4. n - 1 \notin Out
  <2>1. <<n - 1, n>> \in OpToRel(<, Nat)
    BY <1>3, Zenon DEF OpToRel
  <2> QED  BY <1>2, <1>3, <2>1, Zenon
<1>5. n - 1 \in S
  BY <1>3, <1>4, Zenon
<1> QED  BY <1>3, <1>5, Zenon

\* The function that hash_counts chooses, for the first n + 1 counts.
Counts(e, n, f) ==
    f = [k \in 0..n |-> IF k = 0 THEN 0 ELSE add_hashes(f[k - 1], e[k])]

LEMMA CountsExist ==
  ASSUME NEW e, NEW n \in Nat
  PROVE  \E f : Counts(e, n, f)
<1> DEFINE Good == {m \in Nat : \E f : Counts(e, m, f)}
<1>1. 0 \in Good
  <2> DEFINE f == [k \in 0..0 |-> 0]
  <2>1. Counts(e, 0, f)
    BY DEF Counts
  <2> HIDE DEF f
  <2> QED  BY <2>1, Zenon
<1>2. ASSUME NEW m \in Good PROVE m + 1 \in Good
  <2>1. PICK f : Counts(e, m, f)
    BY Zenon
  <2>2. PICK a : a = add_hashes(f[m], e[m + 1])
    BY Zenon
  <2>3. PICK g : g = [k \in 0..(m + 1) |-> IF k = m + 1 THEN a ELSE f[k]]
    BY Zenon
  <2>4. m \in Nat
    BY Zenon
  <2>5. \A k \in 0..m : f[k] = (IF k = 0 THEN 0 ELSE add_hashes(f[k - 1], e[k]))
    BY <2>1, <2>4, Zenon DEF Counts
  <2>6. \A k \in 0..m : g[k] = f[k]
    BY <2>3, <2>4
  <2>7. g[m + 1] = a
    BY <2>3, <2>4
  <2>8. ASSUME NEW k \in 0..(m + 1)
        PROVE  g[k] = (IF k = 0 THEN 0 ELSE add_hashes(g[k - 1], e[k]))
    <3>1. CASE k = 0
      <4>1. 0 \in 0..m
        BY <2>4
      <4>2. g[0] = 0
        BY <2>5, <2>6, <4>1, Zenon
      <4> QED  BY <3>1, <4>2, Zenon
    <3>2. CASE k \in 1..m
      <4>1. k \in 0..m /\ k - 1 \in 0..m /\ k # 0
        BY <2>4, <3>2
      <4> QED  BY <2>5, <2>6, <4>1, Zenon
    <3>3. CASE k = m + 1
      <4>1. m \in 0..m /\ m + 1 # 0 /\ m + 1 - 1 = m
        BY <2>4
      <4>2. g[m] = f[m]
        BY <2>6, <4>1, Zenon
      <4>3. g[m + 1] = add_hashes(g[m], e[m + 1])
        BY <2>2, <2>7, <4>2, Zenon
      <4>4. k # 0 /\ k - 1 = m
        BY <2>4, <3>3
      <4> QED  BY <3>3, <4>3, <4>4, Zenon
    <3> QED  BY <2>4, <3>1, <3>2, <3>3
  <2>9. g = [k \in 0..(m + 1) |-> g[k]]
    BY <2>3, Zenon
  <2>10. Counts(e, m + 1, g)
    BY <2>8, <2>9, Zenon DEF Counts
  <2> QED  BY <2>4, <2>10
<1>3. Good \in SUBSET Nat
  BY Zenon
<1> HIDE DEF Good
<1>4. n \in Good
  BY <1>1, <1>2, <1>3, Reaches, Zenon
<1> QED  BY <1>4, Zenon DEF Good

LEMMA CountsChosen ==
  ASSUME NEW e, Len(e) \in Nat
  PROVE  Counts(e, Len(e), hash_counts(e))
<1>1. hash_counts(e) = CHOOSE f : Counts(e, Len(e), f)
  BY Zenon DEF hash_counts, Counts
<1>2. \E f : Counts(e, Len(e), f)
  BY CountsExist, Zenon
<1> QED  BY <1>1, <1>2, Zenon

LEMMA CountAt ==
  ASSUME NEW e, NEW n \in Nat, NEW f, Counts(e, n, f)
  PROVE  /\ f[0] = 0
         /\ \A k \in 0..(n - 1) : f[k + 1] = add_hashes(f[k], e[k + 1])
<1>1. \A k \in 0..n : f[k] = (IF k = 0 THEN 0 ELSE add_hashes(f[k - 1], e[k]))
  BY Zenon DEF Counts
<1>2. 0 \in 0..n
  OBVIOUS
<1>3. ASSUME NEW k \in 0..(n - 1) PROVE f[k + 1] = add_hashes(f[k], e[k + 1])
  <2>1. PICK j : j = k + 1
    BY Zenon
  <2>2. j \in 0..n /\ j # 0 /\ j - 1 = k
    BY <2>1
  <2>3. f[j] = add_hashes(f[j - 1], e[j])
    BY <1>1, <2>2, Zenon
  <2> QED  BY <2>1, <2>2, <2>3, Zenon
<1> QED  BY <1>1, <1>2, <1>3, Zenon

\* The counts of a prefix are those of the whole.
LEMMA CountsAgree ==
  ASSUME NEW e, NEW d, NEW n \in Nat, NEW m \in Nat, n <= m, NEW f, NEW g,
         Counts(e, n, f), Counts(d, m, g), \A i \in 1..n : d[i] = e[i]
  PROVE  g[n] = f[n]
<1> DEFINE Same == {k \in Nat : k <= n => g[k] = f[k]}
<1>1. 0 \in Same
  BY CountAt, Zenon
<1>2. ASSUME NEW k \in Same PROVE k + 1 \in Same
  <2>1. k \in Nat /\ (k <= n => g[k] = f[k])
    BY Zenon
  <2>2. SUFFICES ASSUME k + 1 <= n PROVE g[k + 1] = f[k + 1]
    BY <2>1
  <2>3. k \in 0..(n - 1) /\ k \in 0..(m - 1) /\ k + 1 \in 1..n /\ k <= n
    BY <2>1, <2>2
  <2>4. f[k + 1] = add_hashes(f[k], e[k + 1])
    BY <2>3, CountAt, Zenon
  <2>5. g[k + 1] = add_hashes(g[k], d[k + 1])
    BY <2>3, CountAt, Zenon
  <2>6. d[k + 1] = e[k + 1] /\ g[k] = f[k]
    BY <2>1, <2>3, Zenon
  <2> QED  BY <2>4, <2>5, <2>6, Zenon
<1>3. Same \in SUBSET Nat
  BY Zenon
<1> HIDE DEF Same
<1>4. n \in Same
  BY <1>1, <1>2, <1>3, Reaches, Zenon
<1> QED  BY <1>4 DEF Same

LEMMA HashesOfAppend ==
  ASSUME NEW e \in Seq(Sent), NEW a \in Sent
  PROVE  tick_hash_count(Append(e, a)) = add_hashes(tick_hash_count(e), a)
<1> DEFINE d == Append(e, a)
           n == Len(e)
<1>1. /\ n \in Nat /\ Len(d) = n + 1 /\ d[n + 1] = a
      /\ \A i \in 1..n : d[i] = e[i]
  OBVIOUS
<1> HIDE DEF d
<1>2. Counts(e, n, hash_counts(e)) /\ Counts(d, n + 1, hash_counts(d))
  BY <1>1, CountsChosen
<1>3. hash_counts(d)[n] = hash_counts(e)[n]
  <2>1. n + 1 \in Nat /\ n <= n + 1
    BY <1>1
  <2> HIDE DEF n
  <2> QED  BY <1>1, <1>2, <2>1, CountsAgree
<1>4. hash_counts(d)[n + 1] = add_hashes(hash_counts(d)[n], d[n + 1])
  <2>1. n + 1 \in Nat /\ n \in 0..(n + 1 - 1)
    BY <1>1
  <2> HIDE DEF n
  <2> QED  BY <1>2, <2>1, CountAt
<1> QED  BY <1>1, <1>3, <1>4, Zenon DEF tick_hash_count, d

\* d is e followed by n ticks.
TicksAfter(e, n, d) ==
    /\ d \in Seq(Sent) /\ Len(d) = Len(e) + n
    /\ \A i \in 1..Len(e) : d[i] = e[i]
    /\ \A i \in 1..n : d[Len(e) + i].tick = TRUE

LEMMA HashesOfTicks ==
  ASSUME NEW e \in Seq(Sent), NEW n \in Nat \ {0}, NEW d, TicksAfter(e, n, d),
         tick_hash_count(e) \in Nat,
         tick_hash_count(e) + d[Len(e) + 1].num_hashes = hashes_per_tick,
         \A i \in 2..n : d[Len(e) + i].num_hashes = hashes_per_tick
  PROVE  tick_hash_count(d) = 0
<1>1. PICK l, m, f, g : l = Len(e) /\ m = Len(e) + n /\ f = hash_counts(e) /\ g = hash_counts(d)
  BY Zenon
<1>2. /\ l \in Nat /\ Len(d) = m /\ m = l + n /\ m \in Nat /\ l <= m
      /\ \A i \in 1..l : d[i] = e[i]
      /\ \A i \in 1..n : d[l + i].tick = TRUE
  BY <1>1 DEF TicksAfter
<1>3. Counts(e, l, f) /\ Counts(d, m, g)
  BY <1>1, <1>2, CountsChosen, Zenon
<1>4. \A k \in 0..(m - 1) : g[k + 1] = add_hashes(g[k], d[k + 1])
  <2>1. m \in Nat /\ Counts(d, m, g)
    BY <1>2, <1>3, Zenon
  <2> QED  BY <2>1, CountAt, Zenon
<1>5. g[l] = f[l]
  BY <1>2, <1>3, CountsAgree
<1>6. g[l] \in Nat /\ g[l] + d[l + 1].num_hashes = hashes_per_tick
  BY <1>1, <1>5, Zenon DEF tick_hash_count
<1>7. ASSUME NEW i \in 1..n, NEW c \in Nat, g[l + i - 1] = c,
             c + d[l + i].num_hashes = hashes_per_tick
      PROVE  g[l + i] = 0
  <2>1. PICK j : j = l + i - 1
    BY Zenon
  <2>2. j \in 0..(m - 1) /\ j + 1 = l + i
    BY <1>2, <2>1
  <2>3. g[j + 1] = add_hashes(g[j], d[j + 1])
    BY <1>4, <2>2, Zenon
  <2>4. g[l + i] = add_hashes(c, d[l + i])
    BY <1>7, <2>1, <2>2, <2>3, Zenon
  <2>5. d[l + i].tick = TRUE
    BY <1>2, Zenon
  <2>6. ~(c < 0)
    OBVIOUS
  <2> QED  BY <1>7, <2>4, <2>5, <2>6, Zenon DEF add_hashes
<1> DEFINE Zero == {k \in Nat : k + 1 <= n => g[l + (k + 1)] = 0}
<1>8. 0 \in Zero
  <2>1. 1 \in 1..n /\ l + 1 - 1 = l /\ 0 + 1 = 1
    BY <1>2
  <2>2. g[l + 1] = 0
    BY <1>6, <1>7, <2>1, Zenon
  <2> QED  BY <2>1, <2>2, Zenon
<1>9. ASSUME NEW k \in Zero PROVE k + 1 \in Zero
  <2>1. SUFFICES ASSUME k + 1 + 1 <= n PROVE g[l + (k + 1 + 1)] = 0
    OBVIOUS
  <2>2. PICK i : i = k + 1 + 1
    BY Zenon
  <2>3. /\ i \in 1..n /\ i \in 2..n /\ l + i - 1 = l + (k + 1) /\ k + 1 <= n
    BY <1>2, <2>1, <2>2
  <2>4. g[l + i - 1] = 0
    BY <2>3, Zenon
  <2>5. d[l + i].num_hashes = hashes_per_tick
    BY <1>1, <2>3, Zenon
  <2>6. 0 \in Nat /\ 0 + hashes_per_tick = hashes_per_tick
    BY PohAssumption
  <2>7. g[l + i] = 0
    BY <1>7, <2>3, <2>4, <2>5, <2>6, Zenon
  <2> QED  BY <2>2, <2>7, Zenon
<1>10. Zero \in SUBSET Nat
  BY Zenon
<1> HIDE DEF Zero
<1>11. n - 1 \in Nat /\ n - 1 \in Zero /\ n - 1 + 1 = n
  BY <1>8, <1>9, <1>10, Reaches
<1>12. g[l + n] = 0
  BY <1>11 DEF Zero
<1> QED  BY <1>1, <1>2, <1>12, Zenon DEF tick_hash_count

TicksOf(e) == {i \in 1..Len(e) : e[i].tick}

LEMMA TicksFinite ==
  ASSUME NEW e \in Seq(Sent)
  PROVE  IsFiniteSet(TicksOf(e)) /\ tick_count(e) \in Nat /\ tick_count(e) = Cardinality(TicksOf(e))
<1>1. IsFiniteSet(1..Len(e))
  BY FS_Interval
<1>2. TicksOf(e) \subseteq 1..Len(e)
  BY Zenon DEF TicksOf
<1>3. IsFiniteSet(TicksOf(e))
  BY <1>1, <1>2, FS_Subset, Zenon
<1> QED  BY <1>3, FS_CardinalityType, Zenon DEF tick_count, TicksOf

LEMMA TicksOfAppend ==
  ASSUME NEW e \in Seq(Sent), NEW a \in Sent, ~a.tick
  PROVE  tick_count(Append(e, a)) = tick_count(e)
<1> DEFINE d == Append(e, a)
<1>1. /\ Len(e) \in Nat /\ Len(d) = Len(e) + 1 /\ d[Len(e) + 1] = a
      /\ \A i \in 1..Len(e) : d[i] = e[i]
  OBVIOUS
<1> HIDE DEF d
<1>2. \A i : i \in 1..Len(d) /\ d[i].tick <=> i \in 1..Len(e) /\ e[i].tick
  <2> TAKE i
  <2>1. i \in 1..Len(d) <=> i \in 1..Len(e) \/ i = Len(e) + 1
    BY <1>1
  <2>2. i \in 1..Len(e) => d[i].tick = e[i].tick
    BY <1>1, Zenon
  <2>3. i = Len(e) + 1 => ~d[i].tick
    BY <1>1, Zenon
  <2> QED  BY <2>1, <2>2, <2>3, Zenon
<1>3. TicksOf(d) = TicksOf(e)
  BY <1>2, Zenon DEF TicksOf
<1> QED  BY <1>3, Zenon DEF tick_count, TicksOf, d

LEMMA TicksOfTicks ==
  ASSUME NEW e \in Seq(Sent), NEW n \in Nat, NEW d, TicksAfter(e, n, d)
  PROVE  tick_count(d) = tick_count(e) + n
<1>1. PICK l, T : l = Len(e) /\ T = (l + 1)..(l + n)
  BY Zenon
<1>2. /\ l \in Nat /\ Len(d) = l + n /\ d \in Seq(Sent)
      /\ \A i \in 1..l : d[i] = e[i]
      /\ \A i \in 1..n : d[l + i].tick = TRUE
  BY <1>1 DEF TicksAfter
<1>3. IsFiniteSet(T) /\ Cardinality(T) = n
  <2>1. PICK a, b : a = l + 1 /\ b = l + n
    BY Zenon
  <2>2. IsFiniteSet(T) /\ Cardinality(T) = (IF a > b THEN 0 ELSE b - a + 1)
    <3>1. a \in Int /\ b \in Int /\ T = a..b
      BY <1>1, <1>2, <2>1
    <3> QED  BY <3>1, FS_Interval, Zenon
  <2>3. (IF a > b THEN 0 ELSE b - a + 1) = n
    BY <1>2, <2>1
  <2> QED  BY <2>2, <2>3, Zenon
<1>4. ASSUME NEW i PROVE i \in TicksOf(d) <=> i \in TicksOf(e) \cup T
  <2>1. i \in 1..Len(d) <=> i \in 1..l \/ i \in T
    BY <1>1, <1>2
  <2>2. i \in 1..l => (d[i].tick = e[i].tick)
    BY <1>2, Zenon
  <2>3. i \in T => d[i].tick
    <3> SUFFICES ASSUME i \in T PROVE d[i].tick
      BY Zenon
    <3>1. i - l \in 1..n /\ l + (i - l) = i
      BY <1>1, <1>2
    <3> QED  BY <1>2, <3>1, Zenon
  <2> QED  BY <1>1, <2>1, <2>2, <2>3, Zenon DEF TicksOf
<1>5. TicksOf(d) = TicksOf(e) \cup T
  BY <1>4, Zenon
<1>6. TicksOf(e) \cap T = {}
  <2>1. \A i \in 1..l : i \notin T
    BY <1>1, <1>2
  <2> QED  BY <1>1, <2>1, Zenon DEF TicksOf
<1>7. /\ IsFiniteSet(TicksOf(e)) /\ tick_count(e) \in Nat
      /\ tick_count(e) = Cardinality(TicksOf(e)) /\ tick_count(d) = Cardinality(TicksOf(d))
  BY <1>2, TicksFinite, Zenon
<1>8. Cardinality(TicksOf(e) \cup T) = Cardinality(TicksOf(e)) + Cardinality(T) - Cardinality({})
  BY <1>3, <1>6, <1>7, FS_Union
<1>9. Cardinality({}) = 0
  BY FS_EmptySet, Zenon
<1> QED  BY <1>3, <1>5, <1>7, <1>8, <1>9

LEMMA NothingSent ==
  tick_count(<<>>) = 0 /\ tick_hash_count(<<>>) = 0 /\ <<>> \in Seq(Sent)
<1> DEFINE e == << >>
<1>1. Len(e) = 0 /\ e \in Seq(Sent)
  OBVIOUS
<1> HIDE DEF e
<1>2. TicksOf(e) = {}
  BY <1>1 DEF TicksOf
<1>3. tick_count(e) = 0
  BY <1>1, <1>2, TicksFinite, FS_EmptySet, Zenon
<1>4. tick_hash_count(e) = 0
  <2>1. Counts(e, 0, hash_counts(e))
    BY <1>1, CountsChosen
  <2> QED  BY <1>1, <2>1, CountAt DEF tick_hash_count
<1> QED  BY <1>1, <1>3, <1>4, Zenon DEF e

-----------------------------------------------------------------------------
(* The methods of the recorder and the block.                              *)

\* What flush_ticks does to the block of slot x: send n ticks.
Flushed(s, t, x, n) ==
    LET r == s.recorder
    IN  /\ n \in 0..Len(r.tick_cache)
        /\ r.tick_height < end_tick_height(x) => n = Len(r.tick_cache)
        /\ r.tick_height >= end_tick_height(x) => n = end_tick_height(x) - s.banks[x].tick_height
        /\ t.banks[x].parent = s.banks[x].parent
        /\ connected =>
               /\ t.banks[x].tick_height = s.banks[x].tick_height + n
               /\ t.broadcast[x] = s.broadcast[x]
                    \o [i \in 1..n |-> Entry(TRUE, r.tick_cache[i].num_hashes)]
               /\ t.recorder.tick_cache = SubSeq(r.tick_cache, n + 1, Len(r.tick_cache))
        /\ ~connected => t.broadcast[x] = s.broadcast[x]

LEMMA FlushSends ==
  ASSUME NEW s, NEW x, StateTypes(s), Leading(s, x), NEW received,
         s.broadcast[x] \in Seq(Sent)
  PROVE  Flushed(s, flush_ticks(s, x, received), x,
                 entry_count(s.recorder.tick_cache, end_tick_height(x)))
<1>0. PICK r, h, max, t, ended, count, ticks :
          /\ r = s.recorder /\ h = s.banks[x].tick_height /\ max = end_tick_height(x)
          /\ t = flush_ticks(s, x, received) /\ ended = Ended(r, x, received)
          /\ count = entry_count(r.tick_cache, max)
          /\ ticks = [i \in 1..count |-> Entry(TRUE, r.tick_cache[i].num_hashes)]
  BY Zenon
<1> DEFINE sent == connected \/ count = 0
<1>1. /\ RecorderTypes(r) /\ x \in Slots /\ s.banks[x] \in Bank
      /\ h \in Nat /\ max \in Nat /\ h <= max /\ Aligned(r, h) /\ r.tick_cache \in Seq(Tick)
  <2>1. x \in Slots
    BY PohAssumption, Zenon DEF Leading
  <2>2. RecorderTypes(r) /\ s.banks[x] \in Bank /\ h <= max /\ Aligned(r, h)
    BY <1>0, <2>1, Zenon DEF StateTypes, Leading
  <2>3. max \in Nat
    BY <1>0, <2>1, SlotEnd, Zenon
  <2>4. h \in Nat
    BY <1>0, <2>2, BankHeight, Zenon
  <2> QED  BY <2>1, <2>2, <2>3, <2>4, Zenon DEF RecorderTypes
<1>2. /\ count \in 0..Len(r.tick_cache)
      /\ r.tick_height < max => count = Len(r.tick_cache)
      /\ r.tick_height >= max => count = max - h
  BY <1>0, <1>1, EntryCount, ZenonT(60)
<1>3. /\ t.recorder = (IF sent THEN Dropped(ended, count) ELSE clear_bank(ended, received))
      /\ t.banks = [s.banks EXCEPT ![x].tick_height = @ + (IF sent THEN count ELSE 1)]
      /\ t.broadcast = (IF sent THEN [s.broadcast EXCEPT ![x] = @ \o ticks] ELSE s.broadcast)
  BY <1>0, Zenon DEF flush_ticks, Ended, Dropped
<1>4. ended.tick_cache = r.tick_cache /\ RecorderTypes(ended)
  <2>1. RecorderTypes(r) /\ x \in Slots
    BY <1>1, Zenon
  <2>2. Ended(r, x, received).tick_cache = r.tick_cache /\ RecorderTypes(Ended(r, x, received))
    BY <2>1, EndedFields
  <2> QED  BY <1>0, <2>2, Zenon
<1>5. /\ t.banks[x].parent = s.banks[x].parent
      /\ t.banks[x].tick_height = h + (IF sent THEN count ELSE 1)
  <2> DEFINE n == h + (IF sent THEN count ELSE 1)
             b == [s.banks[x] EXCEPT !.tick_height = n]
  <2>1. t.banks = [s.banks EXCEPT ![x] = b]
    BY <1>0, <1>1, <1>3, Zenon DEF StateTypes
  <2> HIDE DEF n
  <2>2. b.parent = s.banks[x].parent /\ b.tick_height = n
    BY <1>1, Zenon DEF Bank
  <2> HIDE DEF b
  <2>3. t.banks[x] = b
    BY <1>1, <2>1, Zenon DEF StateTypes
  <2> QED  BY <2>2, <2>3, Zenon DEF n
<1>6. t.broadcast[x] = (IF sent THEN s.broadcast[x] \o ticks ELSE s.broadcast[x])
  BY <1>1, <1>3, Zenon DEF StateTypes
<1>7. ASSUME connected
      PROVE  t.recorder.tick_cache = SubSeq(r.tick_cache, count + 1, Len(r.tick_cache))
  <2>1. t.recorder = Dropped(ended, count)
    BY <1>3, <1>7, Zenon
  <2>2. Dropped(ended, count).tick_cache = SubSeq(ended.tick_cache, count + 1, Len(ended.tick_cache))
    BY <1>4, Zenon DEF Dropped, RecorderTypes, IsRecorder, Fields
  <2> QED  BY <1>4, <2>1, <2>2, Zenon
<1>8. ASSUME ~connected PROVE t.broadcast[x] = s.broadcast[x]
  <2>1. CASE count = 0
    <3>1. ticks = << >>
      BY <1>0, <2>1
    <3>2. s.broadcast[x] \o << >> = s.broadcast[x]
      OBVIOUS
    <3> QED  BY <1>6, <2>1, <3>1, <3>2, Zenon
  <2>2. CASE count # 0
    BY <1>6, <1>8, <2>2, Zenon
  <2> QED  BY <2>1, <2>2, Zenon
<1>9. connected => /\ t.banks[x].tick_height = h + count
                   /\ t.broadcast[x] = s.broadcast[x] \o ticks
  BY <1>5, <1>6, Zenon
<1>10. Flushed(s, t, x, count)
  BY <1>0, <1>2, <1>5, <1>7, <1>8, <1>9, Zenon DEF Flushed
<1> QED  BY <1>0, <1>10, Zenon

LEMMA AcceptedSame ==
  ASSUME NEW s, NEW t, NEW x, Accepted(s, x),
         t.broadcast[x] = s.broadcast[x], t.banks[x].parent = s.banks[x].parent
  PROVE  /\ Accepted(t, x) /\ BlockHeight(t, x) = BlockHeight(s, x)
         /\ (t.banks[x].tick_height = s.banks[x].tick_height /\ Registered(s, x) => Registered(t, x))
  BY Zenon DEF Accepted, BlockHeight, Registered

\* The ticks of the cache as entries of a block.
LEMMA TicksAreSent ==
  ASSUME NEW b \in Seq(Sent), NEW c \in Seq(Tick), NEW n \in 0..Len(c)
  PROVE  LET d == b \o [i \in 1..n |-> Entry(TRUE, c[i].num_hashes)] IN
         /\ TicksAfter(b, n, d)
         /\ \A i \in 1..n : d[Len(b) + i].num_hashes = c[i].num_hashes
<1> DEFINE ticks == [i \in 1..n |-> Entry(TRUE, c[i].num_hashes)]
           d == b \o ticks
<1>1. n \in Nat /\ Len(b) \in Nat /\ Len(c) \in Nat
  OBVIOUS
<1>2. \A i \in 1..n : c[i] \in Tick
  BY <1>1
<1>3. \A i \in 1..n : /\ ticks[i] \in Sent /\ ticks[i].tick = TRUE
                      /\ ticks[i].num_hashes = c[i].num_hashes
  BY <1>2, Zenon DEF Entry, Sent, Tick
<1>4. ticks \in Seq(Sent) /\ Len(ticks) = n
  <2>1. ticks = [i \in 1..n |-> ticks[i]]
    BY Zenon
  <2> HIDE DEF ticks
  <2>2. ticks \in [1..n -> Sent]
    BY <1>3, <2>1, Zenon
  <2> QED  BY <1>1, <2>2
<1> HIDE DEF ticks
<1>5. /\ d \in Seq(Sent) /\ Len(d) = Len(b) + n
      /\ \A i \in 1..Len(b) : d[i] = b[i]
  <2>1. d \in Seq(Sent) /\ Len(d) = Len(b) + n
    BY <1>4
  <2>2. \A i \in 1..Len(b) : d[i] = b[i]
    BY <1>4
  <2> QED  BY <2>1, <2>2, Zenon
<1>6. ASSUME NEW i \in 1..n PROVE d[Len(b) + i] = ticks[i]
  <2>1. Len(b) + i \in (Len(b) + 1)..(Len(b) + Len(ticks)) /\ Len(b) + i - Len(b) = i
        /\ ~(Len(b) + i <= Len(b))
    BY <1>1, <1>4
  <2> QED  BY <1>1, <1>4, <2>1
<1> HIDE DEF d
<1>7. \A i \in 1..n : d[Len(b) + i].tick = TRUE /\ d[Len(b) + i].num_hashes = c[i].num_hashes
  BY <1>3, <1>6, Zenon
<1>8. TicksAfter(b, n, d)
  BY <1>5, <1>7, Zenon DEF TicksAfter
<1> QED  BY <1>7, <1>8, Zenon DEF d, ticks

\* A flush sends a block that a validator accepts, and goes on with it only
\* when it has sent all the ticks of the cache.
LEMMA FlushBlock ==
  ASSUME NEW s, NEW x, StateTypes(s), Leading(s, x), NEW received,
         Block(s, x), s.banks[x].tick_height < end_tick_height(x)
  PROVE  LET t == flush_ticks(s, x, received) IN
         /\ Block(t, x)
         /\ connected /\ t.recorder.working_bank # {} => t.recorder.tick_cache = <<>>
<1>0. PICK t, r, c, b, d, h, max, n, m :
          /\ t = flush_ticks(s, x, received) /\ r = s.recorder /\ c = r.tick_cache
          /\ b = s.broadcast[x] /\ d = t.broadcast[x] /\ h = s.banks[x].tick_height
          /\ max = end_tick_height(x) /\ n = entry_count(c, max) /\ m = tick_hash_count(b)
  BY Zenon
<1>1. Accepted(s, x) /\ (connected => Registered(s, x) /\ FullFrom(m, r))
  <2>1. r.working_bank # {}
    BY <1>0, Zenon DEF Leading
  <2> QED  BY <1>0, <2>1, Zenon DEF Block
<1>2. b \in Seq(Sent) /\ m \in 0..(hashes_per_tick - 1) /\ BlockHeight(s, x) <= max
  BY <1>0, <1>1, Zenon DEF Accepted
<1>3. /\ x \in Slots /\ c \in Seq(Tick) /\ Len(c) \in Nat /\ h \in Nat /\ max \in Nat /\ h < max
      /\ r.tick_height \in Int /\ hashes_per_tick \in Nat \ {0, 1}
      /\ r.num_hashes \in Nat /\ r.remaining_hashes \in Nat
  <2>1. x \in Slots /\ hashes_per_tick \in Nat \ {0, 1}
    BY PohAssumption, Zenon DEF Leading
  <2>2. RecorderTypes(r) /\ s.banks[x] \in Bank
    BY <1>0, <2>1, Zenon DEF StateTypes
  <2>3. max \in Nat /\ MaxTickHeight \in Int
    BY <1>0, <2>1, SlotEnd, ZenonT(60)
  <2>4. c \in Seq(Tick) /\ r.tick_height \in Int /\ r.num_hashes \in Nat /\ r.remaining_hashes \in Nat
    BY <1>0, <2>2, <2>3 DEF RecorderTypes
  <2>5. h \in Nat
    BY <1>0, <2>2, BankHeight, Zenon
  <2>6. h < max
    BY <1>0, Zenon
  <2> QED  BY <2>1, <2>3, <2>4, <2>5, <2>6
<1>4. /\ n \in 0..Len(c)
      /\ r.tick_height < max => n = Len(c)
      /\ r.tick_height >= max => n = max - h
      /\ t.banks[x].parent = s.banks[x].parent
      /\ connected => /\ t.banks[x].tick_height = h + n
                      /\ d = b \o [i \in 1..n |-> Entry(TRUE, c[i].num_hashes)]
                      /\ t.recorder.tick_cache = SubSeq(c, n + 1, Len(c))
      /\ ~connected => d = b
  <2>1. s.broadcast[x] \in Seq(Sent)
    BY <1>0, <1>2, Zenon
  <2>2. Flushed(s, t, x, n)
    <3>1. Flushed(s, flush_ticks(s, x, received), x,
                  entry_count(s.recorder.tick_cache, end_tick_height(x)))
      BY <2>1, FlushSends, ZenonT(60)
    <3> QED  BY <1>0, <3>1, Zenon
  <2> QED  BY <1>0, <2>2, Zenon DEF Flushed
<1>5. /\ t.recorder.num_hashes = r.num_hashes /\ t.recorder.remaining_hashes = r.remaining_hashes
      /\ t.recorder.tick_height = r.tick_height /\ Effect(s, t, x)
  BY <1>0, FlushTicks
<1>6. CASE ~connected
  <2>1. Accepted(t, x)
    BY <1>0, <1>1, <1>4, <1>6, AcceptedSame, Zenon
  <2> QED  BY <1>0, <1>6, <2>1, Zenon DEF Block
<1>7. CASE connected
  <2>1. /\ t.recorder.working_bank # {} => r.tick_height < max
        /\ t.recorder.working_bank = {} => h + n = max
    <3>1. GoesOn(s, t, x) \/ Leaves(t, x)
      BY <1>5, <1>7, Zenon DEF Effect, GivesUp
    <3>2. CASE GoesOn(s, t, x)
      BY <1>0, <1>5, <3>2, Zenon DEF GoesOn, Leading
    <3>3. CASE Leaves(t, x)
      BY <1>0, <1>4, <1>7, <3>3, ZenonT(60) DEF Leaves
    <3> QED  BY <3>1, <3>2, <3>3, Zenon
  <2>2. n \in Nat /\ h + n <= max
    <3>1. h + Len(c) = r.tick_height
      BY <1>0, Zenon DEF Leading, Aligned
    <3> QED  BY <1>3, <1>4, <3>1
  <2>3. TicksAfter(b, n, d) /\ \A i \in 1..n : d[Len(b) + i].num_hashes = c[i].num_hashes
    <3>1. b \in Seq(Sent) /\ c \in Seq(Tick) /\ n \in 0..Len(c)
      BY <1>2, <1>3, <1>4, Zenon
    <3>2. d = b \o [i \in 1..n |-> Entry(TRUE, c[i].num_hashes)]
      BY <1>4, <1>7, Zenon
    <3> QED  BY <3>1, <3>2, TicksAreSent, Zenon
  <2>4. d \in Seq(Sent) /\ Len(d) = Len(b) + n /\ Len(b) \in Nat
    BY <1>2, <2>3 DEF TicksAfter
  <2>5. BlockHeight(t, x) = h + n
    <3>1. PICK e : e = end_tick_height(s.banks[x].parent)
      BY Zenon
    <3>2. e \in Nat /\ tick_count(b) \in Nat
      <4>1. s.banks[x].parent \in Slots
        BY <1>3, Zenon DEF StateTypes, Bank
      <4> QED  BY <1>2, <3>1, <4>1, SlotEnd, TicksFinite, ZenonT(60)
    <3>3. h = e + tick_count(b)
      BY <1>0, <1>1, <1>7, <3>1, Zenon DEF Registered, BlockHeight
    <3>4. tick_count(d) = tick_count(b) + n
      BY <1>2, <2>2, <2>3, TicksOfTicks, Zenon
    <3>5. BlockHeight(t, x) = e + tick_count(d)
      BY <1>0, <1>4, <3>1, Zenon DEF BlockHeight
    <3>6. e + (tick_count(b) + n) = (e + tick_count(b)) + n
      BY <2>2, <3>2, SumMoves, Zenon
    <3> QED  BY <3>3, <3>4, <3>5, <3>6, Zenon
  <2>6. Registered(t, x)
    BY <1>4, <1>7, <2>5, Zenon DEF Registered
  <2>7. t.recorder.working_bank # {} => t.recorder.tick_cache = << >>
    <3>1. SubSeq(c, Len(c) + 1, Len(c)) = << >>
      BY <1>3
    <3> QED  BY <1>4, <1>7, <2>1, <3>1, ZenonT(60)
  <2>8. CASE n = 0
    <3>1. d = b
      <4>1. [i \in 1..n |-> Entry(TRUE, c[i].num_hashes)] = << >>
        BY <2>8
      <4>2. b \o << >> = b
        BY <1>2
      <4> QED  BY <1>4, <1>7, <4>1, <4>2, ZenonT(60)
    <3>2. Accepted(t, x)
      BY <1>0, <1>1, <1>4, <3>1, AcceptedSame, ZenonT(60)
    <3>3. t.recorder.working_bank # {}
      <4>1. h + n = h
        BY <1>3, <2>8
      <4>2. h # max
        BY <1>3
      <4> QED  BY <2>1, <4>1, <4>2, Zenon
    <3>4. c = << >>
      <4>1. Len(c) = 0
        BY <1>4, <2>1, <2>8, <3>3, ZenonT(60)
      <4> QED  BY <1>3, <4>1
    <3>5. FullFrom(m, t.recorder)
      BY <1>0, <1>1, <1>5, <1>7, <2>7, <3>3, <3>4, ZenonT(60) DEF FullFrom
    <3> QED  BY <1>0, <2>6, <2>7, <3>1, <3>2, <3>3, <3>5, ZenonT(60) DEF Block
  <2>9. CASE n # 0
    <3>1. /\ c # << >> /\ m + c[1].num_hashes = hashes_per_tick
          /\ r.num_hashes + r.remaining_hashes = hashes_per_tick
          /\ \A i \in 2..Len(c) : c[i].num_hashes = hashes_per_tick
      <4>1. c # << >>
        BY <1>4, <2>9
      <4> QED  BY <1>0, <1>1, <1>7, <4>1, ZenonT(60) DEF FullFrom
    <3>2. tick_hash_count(d) = 0
      <4>1. n \in Nat \ {0} /\ 1 \in 1..n /\ m \in Nat
        BY <1>2, <1>3, <2>2, <2>9
      <4>2. m + d[Len(b) + 1].num_hashes = hashes_per_tick
        BY <2>3, <3>1, <4>1, ZenonT(60)
      <4>3. \A i \in 2..n : i \in 1..n /\ i \in 2..Len(c)
        BY <1>3, <1>4, <2>2
      <4>4. \A i \in 2..n : d[Len(b) + i].num_hashes = hashes_per_tick
        BY <2>3, <3>1, <4>3, Zenon
      <4>5. b \in Seq(Sent) /\ TicksAfter(b, n, d) /\ tick_hash_count(b) \in Nat
            /\ tick_hash_count(b) + d[Len(b) + 1].num_hashes = hashes_per_tick
        BY <1>0, <1>2, <2>3, <4>1, <4>2, ZenonT(60)
      <4> QED  BY <4>1, <4>4, <4>5, HashesOfTicks, ZenonT(60)
    <3>3. d # << >> /\ d[Len(d)].tick
      <4>1. n \in 1..n /\ Len(d) # 0
        BY <2>2, <2>4, <2>9
      <4>2. d[Len(b) + n].tick = TRUE
        BY <2>3, <4>1, Zenon DEF TicksAfter
      <4> QED  BY <2>4, <4>1, <4>2
    <3>4. Accepted(t, x)
      <4>1. 0 \in 0..(hashes_per_tick - 1)
        BY <1>3
      <4> QED  BY <1>0, <2>2, <2>4, <2>5, <3>2, <3>3, <4>1, ZenonT(60) DEF Accepted
    <3>5. FullTicks(t.recorder)
      <4>1. PICK q : q = SubSeq(c, n + 1, Len(c))
        BY Zenon
      <4>2. Len(q) = Len(c) - n /\ \A i \in 1..Len(q) : q[i] = c[n + i]
        BY <1>3, <1>4, <4>1, DropTicks, ZenonT(60)
      <4>3. \A i \in 1..Len(q) : n + i \in 2..Len(c)
        BY <1>3, <1>4, <2>2, <2>9, <4>2
      <4>4. \A i \in 1..Len(q) : q[i].num_hashes = hashes_per_tick
        BY <3>1, <4>2, <4>3, Zenon
      <4> QED  BY <1>4, <1>5, <1>7, <3>1, <4>1, <4>4, ZenonT(60) DEF FullTicks
    <3>6. t.recorder.working_bank # {} => FullFrom(0, t.recorder)
      <4>1. 0 + r.num_hashes + r.remaining_hashes = hashes_per_tick
        BY <1>3, <3>1
      <4> QED  BY <1>5, <2>7, <4>1, ZenonT(60) DEF FullFrom
    <3> QED  BY <1>0, <2>6, <2>7, <3>2, <3>4, <3>5, <3>6, ZenonT(60) DEF Block
  <2> QED  BY <2>8, <2>9, Zenon
<1> QED  BY <1>6, <1>7, Zenon

LEMMA HashedCounts ==
  ASSUME NEW r, RecorderTypes(r)
  PROVE  /\ Hashed(r).num_hashes = r.num_hashes + 1
         /\ Hashed(r).remaining_hashes = r.remaining_hashes - 1
         /\ Ticked(r).num_hashes = 0 /\ Ticked(r).remaining_hashes = hashes_per_tick
         /\ Ticked(r).tick_cache = r.tick_cache
         /\ Recorded(r).num_hashes = 0 /\ Recorded(r).remaining_hashes = r.remaining_hashes - 1
<1>1. IsRecorder(r)
  BY Zenon DEF RecorderTypes
<1>2. /\ Hashed(r).num_hashes = r.num_hashes + 1
      /\ Hashed(r).remaining_hashes = r.remaining_hashes - 1
  BY <1>1, Zenon DEF IsRecorder, Fields, Hashed
<1>3. /\ Ticked(r).num_hashes = 0 /\ Ticked(r).remaining_hashes = hashes_per_tick
      /\ Ticked(r).tick_cache = r.tick_cache
  BY <1>1, Zenon DEF IsRecorder, Fields, Ticked
<1>4. Recorded(r).num_hashes = 0 /\ Recorded(r).remaining_hashes = r.remaining_hashes - 1
  BY <1>1, Zenon DEF IsRecorder, Fields, Recorded
<1> QED  BY <1>2, <1>3, <1>4, Zenon

LEMMA CachedCounts ==
  ASSUME NEW r, RecorderTypes(r)
  PROVE  /\ Cached(r).num_hashes = 0 /\ Cached(r).remaining_hashes = hashes_per_tick
         /\ \E e : Cached(r).tick_cache = Append(r.tick_cache, e) /\ e \in Tick
                   /\ e.num_hashes = r.num_hashes + 1
<1> DEFINE e == [num_hashes |-> Hashed(r).num_hashes, height |-> Ticked(r).tick_height]
<1>1. /\ Ticked(r).num_hashes = 0 /\ Ticked(r).remaining_hashes = hashes_per_tick
      /\ Ticked(r).tick_cache = r.tick_cache /\ Hashed(r).num_hashes = r.num_hashes + 1
  BY HashedCounts, Zenon
<1>2. IsRecorder(Ticked(r)) /\ Ticked(r).tick_height = r.tick_height + 1
  BY Zenon DEF RecorderTypes, IsRecorder, Fields, Ticked
<1>3. e \in Tick /\ e.num_hashes = r.num_hashes + 1
  <2>1. r.num_hashes + 1 \in Int /\ r.tick_height + 1 \in Int
    <3>1. MaxTickHeight \in Int
      BY PohAssumption DEF MaxTickHeight
    <3> QED  BY <3>1 DEF RecorderTypes
  <2> QED  BY <1>1, <1>2, <2>1, Zenon DEF Tick
<1>4. Cached(r) = [Ticked(r) EXCEPT !.tick_cache = Append(@, e)]
  BY Zenon DEF Cached
<1> HIDE DEF e
<1>5. /\ Cached(r).num_hashes = Ticked(r).num_hashes
      /\ Cached(r).remaining_hashes = Ticked(r).remaining_hashes
      /\ Cached(r).tick_cache = Append(Ticked(r).tick_cache, e)
  BY <1>2, <1>4, Zenon DEF IsRecorder, Fields
<1> QED  BY <1>1, <1>3, <1>5, Zenon

\* The tick that is cached is as long as the one that was under way.
LEMMA FullCached ==
  ASSUME NEW r, RecorderTypes(r), r.remaining_hashes = 1, NEW n \in Nat
  PROVE  /\ FullFrom(n, r) => FullFrom(n, Cached(r))
         /\ FullTicks(r) => FullTicks(Cached(r))
<1>1. PICK e, c, q : /\ c = r.tick_cache /\ q = Cached(r).tick_cache
                     /\ q = Append(c, e) /\ e \in Tick /\ e.num_hashes = r.num_hashes + 1
  BY CachedCounts, Zenon
<1>2. Cached(r).num_hashes = 0 /\ Cached(r).remaining_hashes = hashes_per_tick
  BY CachedCounts, Zenon
<1>3. c \in Seq(Tick) /\ Len(c) \in Nat /\ r.num_hashes \in Nat /\ hashes_per_tick \in Nat
  BY <1>1, PohAssumption DEF RecorderTypes
<1>4. /\ Len(q) = Len(c) + 1 /\ q[Len(c) + 1] = e /\ q # << >>
      /\ \A i \in 1..Len(c) : q[i] = c[i]
  BY <1>1, <1>3
<1>5. 0 + hashes_per_tick = hashes_per_tick
  BY <1>3
<1>6. ASSUME NEW k \in 1..2, r.num_hashes + 1 = hashes_per_tick,
             \A i \in k..Len(c) : c[i].num_hashes = hashes_per_tick
      PROVE  \A i \in k..Len(q) : q[i].num_hashes = hashes_per_tick
  <2> TAKE i \in k..Len(q)
  <2>1. (i \in k..Len(c) /\ i \in 1..Len(c)) \/ i = Len(c) + 1
    BY <1>3, <1>4
  <2>2. CASE i = Len(c) + 1
    BY <1>1, <1>4, <1>6, <2>2, Zenon
  <2>3. CASE i \in k..Len(c) /\ i \in 1..Len(c)
    BY <1>4, <1>6, <2>3, Zenon
  <2> QED  BY <2>1, <2>2, <2>3, Zenon
<1>7. ASSUME FullTicks(r) PROVE FullTicks(Cached(r))
  <2>1. r.num_hashes + 1 = hashes_per_tick /\ \A i \in 1..Len(c) : c[i].num_hashes = hashes_per_tick
    BY <1>1, <1>7, Zenon DEF FullTicks
  <2>2. 1 \in 1..2
    OBVIOUS
  <2>3. \A i \in 1..Len(q) : q[i].num_hashes = hashes_per_tick
    BY <1>6, <2>1, <2>2, Zenon
  <2> QED  BY <1>1, <1>2, <1>5, <2>3, Zenon DEF FullTicks
<1>8. ASSUME FullFrom(n, r) PROVE FullFrom(n, Cached(r))
  <2>1. n + q[1].num_hashes = hashes_per_tick /\ \A i \in 2..Len(q) : q[i].num_hashes = hashes_per_tick
    <3>1. CASE c = << >>
      <4>1. n + r.num_hashes + 1 = hashes_per_tick
        BY <1>1, <1>8, <3>1, Zenon DEF FullFrom
      <4>2. Len(c) = 0
        BY <3>1, Zenon
      <4>3. Len(q) = 1 /\ q[1] = e /\ \A i \in 2..Len(q) : FALSE
        BY <1>4, <4>2
      <4>4. n + (r.num_hashes + 1) = hashes_per_tick
        BY <1>3, <4>1
      <4> QED  BY <1>1, <4>3, <4>4, Zenon
    <3>2. CASE c # << >>
      <4>1. /\ n + c[1].num_hashes = hashes_per_tick /\ r.num_hashes + 1 = hashes_per_tick
            /\ \A i \in 2..Len(c) : c[i].num_hashes = hashes_per_tick
        BY <1>1, <1>8, <3>2, Zenon DEF FullFrom
      <4>2. 2 \in 1..2 /\ 1 \in 1..Len(c)
        BY <1>3, <3>2
      <4>3. \A i \in 2..Len(q) : q[i].num_hashes = hashes_per_tick
        BY <1>6, <4>1, <4>2, Zenon
      <4> QED  BY <1>4, <4>1, <4>2, <4>3, Zenon
    <3> QED  BY <3>1, <3>2, Zenon
  <2> QED  BY <1>1, <1>2, <1>4, <1>5, <2>1, ZenonT(60) DEF FullFrom
<1> QED  BY <1>7, <1>8, Zenon

\* Counting hashes does not change how long a tick is.
LEMMA FullMoved ==
  ASSUME NEW r, NEW q, q.tick_cache = r.tick_cache, NEW n \in Nat,
         r.num_hashes \in Nat, r.remaining_hashes \in Nat,
         q.num_hashes \in Nat, q.remaining_hashes \in Nat,
         q.num_hashes + q.remaining_hashes = r.num_hashes + r.remaining_hashes
  PROVE  (FullFrom(n, r) => FullFrom(n, q)) /\ (FullTicks(r) => FullTicks(q))
<1>1. n + q.num_hashes + q.remaining_hashes = n + r.num_hashes + r.remaining_hashes
  OBVIOUS
<1> QED  BY <1>1, Zenon DEF FullFrom, FullTicks

\* The state of a recorder that leads slot x.
LEMMA LeadingTypes ==
  ASSUME NEW s, NEW x, StateTypes(s), Leading(s, x)
  PROVE  /\ x \in Slots /\ RecorderTypes(s.recorder) /\ s.recorder.tick_height \in Int
         /\ s.recorder.num_hashes \in Nat /\ s.recorder.remaining_hashes \in Nat \ {0}
         /\ s.recorder.min_tick_height \in Int /\ s.recorder.working_bank = {x}
         /\ s.banks[x].tick_height \in Nat /\ end_tick_height(x) \in Nat
         /\ s.banks[x].tick_height <= s.recorder.tick_height
         /\ s.recorder.tick_cache = <<>> => s.banks[x].tick_height = s.recorder.tick_height
<1>1. x \in Slots /\ s.recorder.working_bank = {x}
  BY PohAssumption, Zenon DEF Leading
<1>2. RecorderTypes(s.recorder) /\ s.banks[x] \in Bank
  BY <1>1, Zenon DEF StateTypes
<1>3. end_tick_height(x) \in Nat /\ MaxTickHeight \in Int
  BY <1>1, SlotEnd, Zenon
<1>4. /\ s.recorder.tick_height \in Int /\ s.recorder.num_hashes \in Nat
      /\ s.recorder.remaining_hashes \in Nat \ {0} /\ s.recorder.min_tick_height \in Int
      /\ Len(s.recorder.tick_cache) \in Nat
  BY <1>2, <1>3 DEF RecorderTypes
<1>5. s.banks[x].tick_height \in Nat
  BY <1>2, <1>3 DEF Bank
<1>6. s.banks[x].tick_height + Len(s.recorder.tick_cache) = s.recorder.tick_height
  BY Zenon DEF Leading, Aligned
<1>7. Len(<< >>) = 0
  BY Zenon
<1>8. /\ s.banks[x].tick_height <= s.recorder.tick_height
      /\ Len(s.recorder.tick_cache) = 0 => s.banks[x].tick_height = s.recorder.tick_height
  BY <1>4, <1>5, <1>6
<1> QED  BY <1>1, <1>2, <1>3, <1>4, <1>5, <1>7, <1>8, ZenonT(60)

\* Block depends on the slot's bank and entries and on the hashes only.
LEMMA BlockMoved ==
  ASSUME NEW s, NEW t, NEW x, Block(s, x), t.banks[x] = s.banks[x],
         t.broadcast[x] = s.broadcast[x],
         t.recorder.working_bank = s.recorder.working_bank,
         FullTicks(s.recorder) => FullTicks(t.recorder),
         \A n \in Nat : FullFrom(n, s.recorder) => FullFrom(n, t.recorder)
  PROVE  Block(t, x)
<1>1. Accepted(t, x) /\ (Registered(s, x) => Registered(t, x))
  BY AcceptedSame, Zenon DEF Block
<1>2. tick_hash_count(s.broadcast[x]) \in Nat
  <2>1. tick_hash_count(s.broadcast[x]) \in 0..(hashes_per_tick - 1)
    BY Zenon DEF Block, Accepted
  <2> QED  BY <2>1, PohAssumption
<1> QED  BY <1>1, <1>2, Zenon DEF Block

LEMMA PohTickBlock ==
  ASSUME NEW s, NEW x, StateTypes(s), Leading(s, x), s.recorder.tick_height < end_tick_height(x),
         NEW received, Block(s, x)
  PROVE  Block(poh_tick(s, received), x)
<1>0. PICK r, t : r = s.recorder /\ t = poh_tick(s, received)
  BY Zenon
<1>1. /\ x \in Slots /\ RecorderTypes(r) /\ r.tick_height \in Int /\ r.min_tick_height \in Int
      /\ r.num_hashes \in Nat /\ r.remaining_hashes \in Nat \ {0}
      /\ s.banks[x].tick_height \in Nat /\ end_tick_height(x) \in Nat
      /\ s.banks[x].tick_height <= r.tick_height /\ r.tick_height < end_tick_height(x)
  BY <1>0, LeadingTypes, Zenon
<1>2. CASE r.remaining_hashes # 1
  <2>1. t = [s EXCEPT !.recorder = Hashed(r)]
    <3>1. r.remaining_hashes - 1 # 0
      BY <1>1, <1>2
    <3>2. Hashed(r).remaining_hashes # 0
      BY <1>1, <3>1, HashedCounts, Zenon
    <3> QED  BY <1>0, <3>2, Zenon DEF poh_tick, Hashed
  <2>2. RecorderTypes(Hashed(r)) /\ SameStart(r, Hashed(r)) /\ Hashed(r).tick_cache = r.tick_cache
    BY <1>1, <1>2, TickFields, Zenon
  <2>3. t.recorder = Hashed(r) /\ t.banks = s.banks /\ t.broadcast = s.broadcast
    BY <2>1, <2>2, NewRecorder, ZenonT(60)
  <2>4. /\ Hashed(r).num_hashes \in Nat /\ Hashed(r).remaining_hashes \in Nat
        /\ Hashed(r).num_hashes + Hashed(r).remaining_hashes = r.num_hashes + r.remaining_hashes
    <3>1. Hashed(r).num_hashes = r.num_hashes + 1 /\ Hashed(r).remaining_hashes = r.remaining_hashes - 1
      BY <1>1, HashedCounts, Zenon
    <3> QED  BY <1>1, <3>1
  <2>5. /\ \A n \in Nat : FullFrom(n, r) => FullFrom(n, Hashed(r))
        /\ FullTicks(r) => FullTicks(Hashed(r))
    <3>1. r.remaining_hashes \in Nat /\ 0 \in Nat
      BY <1>1, Zenon
    <3> QED  BY <1>1, <2>2, <2>4, <3>1, FullMoved, ZenonT(60)
  <2>6. Block(t, x)
    <3>1. /\ t.banks[x] = s.banks[x] /\ t.broadcast[x] = s.broadcast[x]
          /\ t.recorder.working_bank = s.recorder.working_bank
          /\ FullTicks(s.recorder) => FullTicks(t.recorder)
          /\ \A n \in Nat : FullFrom(n, s.recorder) => FullFrom(n, t.recorder)
      BY <1>0, <2>2, <2>3, <2>5, Zenon DEF SameStart
    <3> QED  BY <3>1, BlockMoved, Zenon
  <2> QED  BY <1>0, <2>6, Zenon
<1>3. CASE r.remaining_hashes = 1
  <2>1. PICK c : c = [s EXCEPT !.recorder = Cached(r)]
    BY Zenon
  <2>2. r.tick_height < MaxTickHeight
    <3>1. end_tick_height(x) <= MaxTickHeight /\ MaxTickHeight \in Int
      BY <1>1, SlotEnd, Zenon
    <3> QED  BY <1>1, <3>1
  <2>3. /\ RecorderTypes(Cached(r)) /\ SameStart(r, Cached(r))
        /\ Cached(r).tick_height = r.tick_height + 1
        /\ \A h \in Int : Aligned(r, h) => Aligned(Cached(r), h)
    BY <1>1, <2>2, TickFields, Zenon
  <2>4. /\ StateTypes(c) /\ c.recorder = Cached(r) /\ c.banks = s.banks
        /\ c.broadcast = s.broadcast
    BY <2>1, <2>3, NewRecorder, ZenonT(60)
  <2>5. t = flush_cache(c, TRUE, received)
    <3>1. r.leader_first # {} /\ Hashed(r).remaining_hashes = r.remaining_hashes - 1
      BY <1>0, <1>1, HashedCounts, Zenon DEF Leading
    <3>2. Hashed(r).remaining_hashes = 0
      BY <1>3, <3>1
    <3> QED  BY <1>0, <2>1, <3>1, <3>2, TickCached, Zenon
  <2>6. Leading(c, x) /\ c.recorder.min_tick_height < c.recorder.tick_height
        /\ c.recorder.min_tick_height \in Int /\ c.recorder.tick_height \in Int
    <3>1. c.recorder.min_tick_height = r.min_tick_height /\ c.recorder.tick_height = r.tick_height + 1
      BY <2>3, <2>4, Zenon DEF SameStart
    <3>2. r.min_tick_height <= r.tick_height
      BY <1>0, Zenon DEF Leading
    <3>3. /\ c.recorder.min_tick_height < c.recorder.tick_height
          /\ c.recorder.min_tick_height <= c.recorder.tick_height
          /\ c.recorder.min_tick_height \in Int /\ c.recorder.tick_height \in Int
      BY <1>1, <3>1, <3>2
    <3>4. s.banks[x].tick_height \in Int
      BY <1>1
    <3> QED  BY <1>0, <2>3, <2>4, <3>3, <3>4, ZenonT(60) DEF Leading, SameStart
  <2>7. t = flush_ticks(c, x, received)
    <3>1. TRUE \in BOOLEAN /\ (TRUE => c.recorder.min_tick_height < c.recorder.tick_height)
      BY <2>6, Zenon
    <3> QED  BY <2>5, <2>6, <3>1, FlushCache, Zenon
  <2>8. Block(c, x)
    <3>1. \A n \in Nat : FullFrom(n, r) => FullFrom(n, Cached(r))
      BY <1>1, <1>3, FullCached, Zenon
    <3>2. FullTicks(r) => FullTicks(Cached(r))
      <4>1. 0 \in Nat
        BY Zenon
      <4> QED  BY <1>1, <1>3, <4>1, FullCached, Zenon
    <3>3. /\ c.banks[x] = s.banks[x] /\ c.broadcast[x] = s.broadcast[x]
          /\ c.recorder.working_bank = s.recorder.working_bank
          /\ FullTicks(s.recorder) => FullTicks(c.recorder)
          /\ \A n \in Nat : FullFrom(n, s.recorder) => FullFrom(n, c.recorder)
      BY <1>0, <2>3, <2>4, <3>1, <3>2, ZenonT(60) DEF SameStart
    <3> QED  BY <3>3, BlockMoved, Zenon
  <2>9. c.banks[x].tick_height < end_tick_height(x)
    <3>1. s.banks[x].tick_height < end_tick_height(x)
      BY <1>1
    <3> QED  BY <2>4, <3>1, Zenon
  <2> QED  BY <1>0, <2>4, <2>6, <2>7, <2>8, <2>9, FlushBlock, ZenonT(60)
<1> QED  BY <1>2, <1>3, Zenon

\* An entry is sent after all the ticks before it, and a hash of its tick
\* remains.
LEMMA RecordOnceBlock ==
  ASSUME NEW s, NEW x, StateTypes(s), Leading(s, x), NEW slot, NEW received, Block(s, x),
         s.recorder.tick_height < end_tick_height(x)
  PROVE  Block(record_once(s, slot, received), x)
<1>0. PICK t, f : t = record_once(s, slot, received) /\ f = flush_ticks(s, x, received)
  BY Zenon
<1>1. /\ s.recorder.min_tick_height \in Int /\ s.recorder.tick_height \in Int
      /\ s.banks[x].tick_height < end_tick_height(x)
  <2>1. /\ s.recorder.min_tick_height \in Int /\ s.recorder.tick_height \in Int
        /\ s.banks[x].tick_height \in Nat /\ end_tick_height(x) \in Nat
        /\ s.banks[x].tick_height <= s.recorder.tick_height
    BY LeadingTypes, Zenon
  <2> QED  BY <2>1
<1>2. f = flush_cache(s, FALSE, received)
  <2>1. FALSE \in BOOLEAN /\ (FALSE => s.recorder.min_tick_height < s.recorder.tick_height)
    BY Zenon
  <2> QED  BY <1>0, <1>1, <2>1, FlushCache, Zenon
<1>3. Effect(s, f, x) /\ f.result = "Ok" /\ StateTypes(f)
  <2>1. Effect(s, f, x) /\ f.result = "Ok"
    BY <1>0, FlushTicks, ZenonT(60)
  <2> QED  BY <2>1, Zenon DEF Effect
<1>4. Block(f, x) /\ (connected /\ f.recorder.working_bank # {} => f.recorder.tick_cache = << >>)
  BY <1>0, <1>1, FlushBlock, Zenon
<1>5. ASSUME NEW v, t = [f EXCEPT !.result = v] PROVE Block(t, x)
  <2>1. t.recorder = f.recorder /\ t.banks = f.banks /\ t.broadcast = f.broadcast
    BY <1>3, <1>5, NewResult, Zenon
  <2> QED  BY <1>4, <2>1, BlockMoved, Zenon
<1>6. CASE f.recorder.working_bank # {slot}
  <2>1. t = [f EXCEPT !.result = "MaxHeightReached"]
    BY <1>0, <1>2, <1>3, <1>6, ZenonT(60) DEF record_once
  <2> QED  BY <1>0, <1>5, <2>1, Zenon
<1>7. CASE f.recorder.working_bank = {slot} /\ f.recorder.remaining_hashes = 1
  <2>1. t = [f EXCEPT !.result = "TickFirst"]
    BY <1>0, <1>2, <1>3, <1>7, ZenonT(60) DEF record_once
  <2> QED  BY <1>0, <1>5, <2>1, Zenon
<1>8. CASE f.recorder.working_bank = {slot} /\ f.recorder.remaining_hashes # 1
  <2>1. PICK r, e : r = f.recorder /\ e = Entry(FALSE, r.num_hashes + 1)
    BY Zenon
  <2>2. slot = x /\ Leading(f, x) /\ r.tick_height < end_tick_height(x)
    BY <1>3, <1>8, <2>1, Zenon DEF Effect, GoesOn, Leaves, GivesUp, Leading
  <2>3. t = [f EXCEPT !.recorder.num_hashes = 0,
                      !.recorder.remaining_hashes = @ - 1,
                      !.broadcast[x] = IF connected THEN Append(@, e) ELSE @,
                      !.result = IF connected THEN "Ok" ELSE "SendError"]
    BY <1>0, <1>2, <1>3, <1>8, <2>1, <2>2, ZenonT(60) DEF record_once
  <2>4. /\ t.banks = f.banks /\ t.recorder = Recorded(r)
        /\ t.broadcast = [f.broadcast EXCEPT ![x] = IF connected THEN Append(@, e) ELSE @]
    BY <1>3, <2>1, <2>3, Zenon DEF StateTypes, IsState, Recorded
  <2>5. /\ x \in Slots /\ RecorderTypes(r) /\ r.tick_height \in Int /\ r.working_bank = {x}
        /\ r.num_hashes \in Nat /\ r.remaining_hashes \in Nat \ {0}
        /\ f.banks[x].tick_height \in Nat /\ end_tick_height(x) \in Nat
        /\ r.tick_cache = << >> => f.banks[x].tick_height = r.tick_height
    BY <1>3, <2>1, <2>2, LeadingTypes, ZenonT(60)
  <2>6. t.broadcast[x] = IF connected THEN Append(f.broadcast[x], e) ELSE f.broadcast[x]
    BY <1>3, <2>4, <2>5, Zenon DEF StateTypes
  <2>7. CASE ~connected
    <3>1. Accepted(t, x)
      BY <1>4, <2>4, <2>6, <2>7, AcceptedSame, ZenonT(60) DEF Block
    <3> QED  BY <1>0, <2>7, <3>1, Zenon DEF Block
  <2>8. CASE connected
    <3>1. PICK b, d, m : b = f.broadcast[x] /\ d = Append(b, e) /\ m = tick_hash_count(b)
      BY Zenon
    <3>2. /\ r.tick_cache = << >> /\ Accepted(f, x) /\ Registered(f, x)
          /\ m + r.num_hashes + r.remaining_hashes = hashes_per_tick
      <4>1. r.working_bank # {} /\ r.tick_cache = << >>
        BY <1>4, <2>1, <2>5, <2>8, ZenonT(60)
      <4>2. FullFrom(m, r) /\ Accepted(f, x) /\ Registered(f, x)
        BY <1>4, <2>1, <2>8, <3>1, <4>1, ZenonT(60) DEF Block
      <4> QED  BY <4>1, <4>2, Zenon DEF FullFrom
    <3>3. b \in Seq(Sent) /\ m \in 0..(hashes_per_tick - 1)
      BY <3>1, <3>2, ZenonT(60) DEF Accepted
    <3>4. e \in Sent /\ ~e.tick /\ e.num_hashes = r.num_hashes + 1
      BY <2>1, <2>5 DEF Entry, Sent
    <3>5. m \in Nat /\ hashes_per_tick \in Nat
      BY <3>3, PohAssumption
    <3>6. tick_hash_count(d) = m + (r.num_hashes + 1)
      <4>1. tick_hash_count(d) = add_hashes(m, e)
        BY <3>1, <3>3, <3>4, HashesOfAppend, ZenonT(60)
      <4>2. ~(m < 0)
        BY <3>5
      <4> QED  BY <3>4, <4>1, <4>2, Zenon DEF add_hashes
    <3>7. tick_count(d) = tick_count(b) /\ d \in Seq(Sent) /\ t.broadcast[x] = d
      <4>1. d \in Seq(Sent)
        BY <3>1, <3>3, <3>4
      <4> QED  BY <2>6, <2>8, <3>1, <3>3, <3>4, <4>1, TicksOfAppend, ZenonT(60)
    <3>8. BlockHeight(t, x) = f.banks[x].tick_height
      BY <2>4, <3>1, <3>2, <3>7, ZenonT(60) DEF BlockHeight, Registered
    <3>9. BlockHeight(t, x) < end_tick_height(x) /\ BlockHeight(t, x) <= end_tick_height(x)
          /\ BlockHeight(t, x) # end_tick_height(x)
      <4>1. PICK k, max : k = r.tick_height /\ max = end_tick_height(x)
        BY Zenon
      <4>2. k \in Int /\ max \in Nat /\ k < max /\ BlockHeight(t, x) = k
        BY <2>2, <2>5, <3>2, <3>8, <4>1, ZenonT(60)
      <4>3. k <= max /\ k # max
        BY <4>2
      <4> QED  BY <4>1, <4>2, <4>3, Zenon
    <3>10. r.remaining_hashes - 1 \in Nat \ {0}
      BY <1>8, <2>1, <2>5
    <3>11. /\ tick_hash_count(d) \in 0..(hashes_per_tick - 1)
           /\ tick_hash_count(d) + 0 + (r.remaining_hashes - 1) = hashes_per_tick
      <4>1. PICK k, q : k = r.num_hashes /\ q = r.remaining_hashes
        BY Zenon
      <4>2. k \in Nat /\ q \in Nat \ {0} /\ q - 1 \in Nat \ {0} /\ m + k + q = hashes_per_tick
        BY <2>5, <3>2, <3>10, <4>1, ZenonT(60)
      <4>3. m + (k + 1) \in 0..(hashes_per_tick - 1) /\ m + (k + 1) + 0 + (q - 1) = hashes_per_tick
        BY <3>5, <4>2
      <4> QED  BY <3>6, <4>1, <4>3, Zenon
    <3>12. Accepted(t, x) /\ Registered(t, x)
      BY <2>4, <3>7, <3>8, <3>9, <3>11, ZenonT(60) DEF Accepted, Registered
    <3>13. /\ t.recorder.num_hashes = 0 /\ t.recorder.remaining_hashes = r.remaining_hashes - 1
           /\ t.recorder.tick_cache = << >> /\ t.recorder.working_bank # {}
      <4>1. Recorded(r).num_hashes = 0 /\ Recorded(r).remaining_hashes = r.remaining_hashes - 1
        BY <2>5, HashedCounts, Zenon
      <4>2. SameStart(r, Recorded(r)) /\ Recorded(r).tick_cache = r.tick_cache
        BY <1>8, <2>1, <2>5, RecordedFields, ZenonT(60)
      <4> QED  BY <2>4, <2>5, <3>2, <4>1, <4>2, ZenonT(60) DEF SameStart
    <3>14. FullFrom(tick_hash_count(d), t.recorder)
      BY <3>11, <3>13, Zenon DEF FullFrom
    <3> QED  BY <1>0, <3>7, <3>12, <3>13, <3>14, ZenonT(60) DEF Block
  <2> QED  BY <2>7, <2>8, Zenon
<1> QED  BY <1>6, <1>7, <1>8, Zenon

LEMMA RecordEntryBlock ==
  ASSUME NEW s, NEW x, StateTypes(s), Leading(s, x), s.recorder.tick_height < end_tick_height(x),
         NEW slot, NEW received, Block(s, x)
  PROVE  Block(record_entry(s, slot, received), x)
<1>0. PICK t, f, p : /\ t = record_entry(s, slot, received) /\ f = record_once(s, slot, received)
                     /\ p = poh_tick(f, received)
  BY Zenon
<1>1. /\ Effect(s, f, x) /\ Block(f, x)
      /\ f.result = "TickFirst" => GoesOn(s, f, x)
  BY <1>0, RecordOnce, RecordOnceBlock, Zenon
<1>2. CASE f.result # "TickFirst"
  BY <1>0, <1>1, <1>2, Zenon DEF record_entry
<1>3. CASE f.result = "TickFirst"
  <2>1. t = record_once(p, slot, received)
    BY <1>0, <1>3, Zenon DEF record_entry
  <2>2. StateTypes(f) /\ Leading(f, x) /\ f.recorder.tick_height < end_tick_height(x)
    BY <1>1, <1>3, Zenon DEF Effect, GoesOn
  <2>3. Effect(f, p, x) /\ Block(p, x)
    BY <1>0, <1>1, <2>2, PohTickLeading, PohTickBlock, ZenonT(60)
  <2>4. StateTypes(p)
    BY <2>3, Zenon DEF Effect
  <2>5. CASE GoesOn(f, p, x)
    BY <1>0, <2>1, <2>3, <2>4, <2>5, RecordOnceBlock, ZenonT(60) DEF GoesOn
  <2>6. CASE ~GoesOn(f, p, x)
    <3>1. p.recorder.working_bank = {}
      BY <2>3, <2>6, Zenon DEF Effect, Leaves, GivesUp
    <3>2. t = [p EXCEPT !.result = "MaxHeightReached"]
      BY <2>1, <2>4, <3>1, RecordIdle, Zenon
    <3>3. t.recorder = p.recorder /\ t.banks = p.banks /\ t.broadcast = p.broadcast
      BY <2>4, <3>2, NewResult, Zenon
    <3>4. Block(t, x)
      BY <2>3, <3>3, BlockMoved, Zenon
    <3> QED  BY <1>0, <3>4, Zenon
  <2> QED  BY <2>5, <2>6, Zenon
<1> QED  BY <1>2, <1>3, Zenon

-----------------------------------------------------------------------------
(* The steps and the blocks.                                               *)

\* Slot y has a block, and a step leaves it alone.
HasBlock(y) == broadcast[y] # <<>> \/ y \in recorder.working_bank \cup tpu_bank
Kept(y) ==
    /\ HasBlock(y) /\ broadcast'[y] = broadcast[y]
    /\ banks'[y].parent = banks[y].parent /\ banks'[y].tick_height = banks[y].tick_height

LEMMA BlockInvStep ==
  ASSUME BlockInv, connected' => connected,
         \A y \in Slots : HasBlock(y)' =>
             Kept(y) \/ (Accepted(State, y)' /\ (connected' => Registered(State, y)')),
         connected' => IF recorder'.working_bank = {} THEN FullTicks(recorder')
                       ELSE \A x \in recorder'.working_bank :
                                FullFrom(tick_hash_count(broadcast'[x]), recorder')
  PROVE  BlockInv'
<1>1. ASSUME NEW y \in Slots, Kept(y)
      PROVE  Accepted(State, y)' /\ (connected' => Registered(State, y)')
  <2>1. Accepted(State, y) /\ (connected => Registered(State, y))
    BY <1>1, Zenon DEF BlockInv, Kept, HasBlock
  <2>2. /\ State'.broadcast[y] = State.broadcast[y] /\ State'.banks[y].parent = State.banks[y].parent
        /\ State'.banks[y].tick_height = State.banks[y].tick_height
    BY <1>1, StateFields, StateFieldsNext, Zenon DEF Kept
  <2>3. Accepted(State', y) /\ (Registered(State, y) => Registered(State', y))
    BY <2>1, <2>2, AcceptedSame, Zenon
  <2> QED  BY <2>1, <2>3, Zenon
<1> QED  BY <1>1, Zenon DEF BlockInv, HasBlock

\* A method that works on slot x.
LEMMA BlockEffect ==
  ASSUME BlockInv, NEW x \in Slots, NEW s, NEW t, s.banks = banks, s.broadcast = broadcast,
         recorder.working_bank \cup tpu_bank = {x}, tpu_bank' = {}, connected' = connected,
         Effect(s, t, x), Block(t, x), Assign(t)
  PROVE  BlockInv'
<1>1. recorder' = t.recorder /\ banks' = t.banks /\ broadcast' = t.broadcast
  BY Zenon DEF Assign
<1>2. /\ \A y \in Slots \ {x} : banks'[y] = banks[y] /\ broadcast'[y] = broadcast[y]
      /\ recorder'.working_bank = {} \/ recorder'.working_bank = {x}
  BY <1>1, Zenon DEF Effect, GoesOn, Leaves, GivesUp, Leading
<1>3. /\ Accepted(t, x)
      /\ connected => /\ Registered(t, x)
                      /\ IF recorder'.working_bank = {} THEN FullTicks(recorder')
                         ELSE FullFrom(tick_hash_count(broadcast'[x]), recorder')
  BY <1>1, Zenon DEF Block
<1>4. Accepted(State, x)' /\ (connected' => Registered(State, x)')
  <2>1. /\ State'.broadcast[x] = t.broadcast[x] /\ State'.banks[x].parent = t.banks[x].parent
        /\ State'.banks[x].tick_height = t.banks[x].tick_height
    BY <1>1, StateFieldsNext, Zenon
  <2>2. Accepted(State', x) /\ (Registered(t, x) => Registered(State', x))
    BY <1>3, <2>1, AcceptedSame, Zenon
  <2> QED  BY <1>3, <2>2, Zenon
<1>5. ASSUME NEW y \in Slots, HasBlock(y)', y # x PROVE Kept(y)
  <2>1. broadcast'[y] = broadcast[y] /\ banks'[y] = banks[y]
    BY <1>2, <1>5, Zenon
  <2>2. y \notin recorder'.working_bank \cup tpu_bank'
    BY <1>2, <1>5, Zenon
  <2> QED  BY <1>5, <2>1, <2>2, Zenon DEF Kept, HasBlock
<1>6. \A y \in Slots : HasBlock(y)' =>
          Kept(y) \/ (Accepted(State, y)' /\ (connected' => Registered(State, y)'))
  <2> TAKE y \in Slots
  <2>1. CASE y = x
    BY <1>4, <2>1, Zenon
  <2>2. CASE y # x
    BY <1>5, <2>2, Zenon
  <2> QED  BY <2>1, <2>2, Zenon
<1>7. connected' => IF recorder'.working_bank = {} THEN FullTicks(recorder')
                    ELSE \A z \in recorder'.working_bank :
                             FullFrom(tick_hash_count(broadcast'[z]), recorder')
  BY <1>2, <1>3, Zenon
<1>8. connected' => connected
  BY Zenon
<1> QED  BY <1>6, <1>7, <1>8, BlockInvStep, Zenon

\* Without a change to the banks and the broadcast the blocks stay.
LEMMA QuietBlocks ==
  ASSUME BlockInv, UNCHANGED <<banks, broadcast>>, connected' => connected,
         recorder'.working_bank \subseteq recorder.working_bank, tpu_bank' = tpu_bank,
         connected' => IF recorder'.working_bank = {} THEN FullTicks(recorder')
                       ELSE \A x \in recorder'.working_bank :
                                FullFrom(tick_hash_count(broadcast[x]), recorder')
  PROVE  BlockInv'
<1>1. banks' = banks /\ broadcast' = broadcast
  BY Zenon
<1>2. \A y \in Slots : HasBlock(y)' => Kept(y)
  BY <1>1, Zenon DEF HasBlock, Kept
<1>3. connected' => IF recorder'.working_bank = {} THEN FullTicks(recorder')
                       ELSE \A x \in recorder'.working_bank :
                                FullFrom(tick_hash_count(broadcast'[x]), recorder')
  BY <1>1, Zenon
<1> QED  BY <1>2, <1>3, BlockInvStep, Zenon

LEMMA LeadsBlock ==
  ASSUME PohInv, BlockInv, recorder.working_bank # {}
  PROVE  \E x \in MyLeaderSlots :
             /\ x \in Slots /\ Leading(State, x) /\ recorder.tick_height < end_tick_height(x)
             /\ recorder.working_bank \cup tpu_bank = {x} /\ tpu_bank = {} /\ Block(State, x)
<1>1. PICK x \in MyLeaderSlots : /\ x \in Slots /\ recorder.working_bank = {x}
                                 /\ Leading(State, x) /\ recorder.tick_height < end_tick_height(x)
  BY Working, Zenon
<1>2. tpu_bank = {}
  BY Zenon DEF PohInv, WorkingInv, NewBankInv
<1>3. recorder.working_bank \cup tpu_bank = {x}
  BY <1>1, <1>2, Zenon
<1>4. /\ Accepted(State, x) /\ (connected => Registered(State, x))
      /\ connected => FullFrom(tick_hash_count(broadcast[x]), recorder)
  BY <1>1, <1>3, Zenon DEF BlockInv
<1>5. Block(State, x)
  BY <1>1, <1>4, StateFields, Zenon DEF Block
<1> QED  BY <1>1, <1>2, <1>3, <1>5, Zenon

LEMMA HashBlocks ==
  ASSUME PohInv, BlockInv, hash
  PROVE  BlockInv'
<1>1. PICK k : /\ k = Min({recorder.remaining_hashes - 1, hashes_per_batch})
               /\ recorder' = [recorder EXCEPT !.num_hashes = @ + k, !.remaining_hashes = @ - k]
  BY Zenon DEF hash
<1>2. UNCHANGED <<banks, broadcast, connected, tpu_bank>>
  BY Zenon DEF hash, replayVars
<1>3. RecorderTypes(recorder)
  BY StateFields, Zenon DEF PohInv, StateTypes
<1>4. recorder.num_hashes \in Nat /\ recorder.remaining_hashes \in Nat \ {0}
  BY <1>3, Zenon DEF RecorderTypes
<1>5. k \in 0..(recorder.remaining_hashes - 1)
  <2>1. hashes_per_batch \in Nat /\ recorder.remaining_hashes - 1 \in Nat
    BY <1>4, PohAssumption
  <2>2. \A a, b \in Nat : Min({a, b}) \in 0..a
    BY SMTT(60) DEF Min
  <2> QED  BY <1>1, <2>1, <2>2, Zenon
<1>6. /\ recorder'.num_hashes = recorder.num_hashes + k
      /\ recorder'.remaining_hashes = recorder.remaining_hashes - k
      /\ recorder'.tick_cache = recorder.tick_cache
      /\ recorder'.working_bank = recorder.working_bank
  BY <1>1, <1>3, Zenon DEF RecorderTypes, IsRecorder, Fields
<1>7. /\ recorder'.num_hashes \in Nat /\ recorder'.remaining_hashes \in Nat
      /\ recorder.remaining_hashes \in Nat
      /\ recorder'.num_hashes + recorder'.remaining_hashes
           = recorder.num_hashes + recorder.remaining_hashes
  BY <1>4, <1>5, <1>6
<1>8. /\ \A n \in Nat : FullFrom(n, recorder) => FullFrom(n, recorder')
      /\ FullTicks(recorder) => FullTicks(recorder')
  <2>1. 0 \in Nat
    BY Zenon
  <2> QED  BY <1>4, <1>6, <1>7, <2>1, FullMoved, ZenonT(60)
<1>9. ASSUME connected, NEW x \in recorder.working_bank
      PROVE  FullFrom(tick_hash_count(broadcast[x]), recorder')
  <2>1. x \in Slots
    BY <1>3, PohAssumption, Zenon DEF RecorderTypes
  <2>2. /\ tick_hash_count(broadcast[x]) \in 0..(hashes_per_tick - 1)
        /\ FullFrom(tick_hash_count(broadcast[x]), recorder)
    BY <1>9, <2>1, StateFields, Zenon DEF BlockInv, Accepted
  <2>3. tick_hash_count(broadcast[x]) \in Nat
    BY <2>2, PohAssumption
  <2> QED  BY <1>8, <2>2, <2>3, Zenon
<1>10. connected /\ recorder.working_bank = {} => FullTicks(recorder')
  BY <1>8, Zenon DEF BlockInv
<1>11. /\ connected' => IF recorder'.working_bank = {} THEN FullTicks(recorder')
                        ELSE \A x \in recorder'.working_bank :
                                FullFrom(tick_hash_count(broadcast[x]), recorder')
       /\ recorder'.working_bank \subseteq recorder.working_bank
       /\ connected' => connected
  BY <1>2, <1>6, <1>9, <1>10, ZenonT(60)
<1>12. UNCHANGED <<banks, broadcast>> /\ tpu_bank' = tpu_bank
  BY <1>2, Zenon
<1> QED  BY <1>11, <1>12, QuietBlocks, Zenon

LEMMA TickBlocks ==
  ASSUME PohInv, BlockInv, tick
  PROVE  BlockInv'
<1>1. PICK received, t : Assign(t) /\ t = poh_tick(State, received)
  BY Zenon DEF tick
<1>2. /\ UNCHANGED <<connected, tpu_bank>> /\ recorder.tick_height < MaxTickHeight
      /\ StateTypes(State) /\ RecorderTypes(recorder)
      /\ recorder' = t.recorder /\ banks' = t.banks /\ broadcast' = t.broadcast
  <2>1. StateTypes(State)
    BY Zenon DEF PohInv
  <2> QED  BY <1>1, <2>1, StateFields, Zenon DEF tick, replayVars, StateTypes, Assign
<1>3. CASE recorder.working_bank # {}
  <2>1. PICK x \in MyLeaderSlots :
             /\ x \in Slots /\ Leading(State, x) /\ recorder.tick_height < end_tick_height(x)
             /\ recorder.working_bank \cup tpu_bank = {x} /\ tpu_bank = {} /\ Block(State, x)
    BY <1>3, LeadsBlock, Zenon
  <2>2. Effect(State, t, x) /\ Block(t, x)
    BY <1>1, <1>2, <2>1, PohTickLeading, PohTickBlock, StateFields, ZenonT(60)
  <2>3. tpu_bank' = {} /\ connected' = connected
    BY <1>2, <2>1, Zenon
  <2> QED  BY <1>1, <2>1, <2>2, <2>3, BlockEffect, StateFields, ZenonT(60)
<1>4. CASE recorder.working_bank = {}
  <2>1. /\ t.banks = banks /\ t.broadcast = broadcast /\ SameStart(recorder, t.recorder)
    BY <1>1, <1>2, <1>4, PohTickIdle, StateFields, ZenonT(60)
  <2>2. FullTicks(recorder) => FullTicks(t.recorder)
    <3>1. CASE recorder.remaining_hashes # 1
      <4>1. t = [State EXCEPT !.recorder = Hashed(recorder)]
        <5>1. recorder.remaining_hashes - 1 # 0
          BY <1>2, <3>1 DEF RecorderTypes
        <5>2. Hashed(recorder).remaining_hashes # 0
          BY <1>2, <5>1, HashedCounts, Zenon
        <5> QED  BY <1>1, <5>2, StateFields, Zenon DEF poh_tick, Hashed
      <4>2. RecorderTypes(Hashed(recorder)) /\ Hashed(recorder).tick_cache = recorder.tick_cache
        BY <1>2, <3>1, TickFields, Zenon
      <4>3. t.recorder = Hashed(recorder)
        BY <1>2, <4>1, <4>2, NewRecorder, ZenonT(60)
      <4>4. /\ recorder.num_hashes \in Nat /\ recorder.remaining_hashes \in Nat
            /\ Hashed(recorder).num_hashes \in Nat /\ Hashed(recorder).remaining_hashes \in Nat
            /\ Hashed(recorder).num_hashes + Hashed(recorder).remaining_hashes
                 = recorder.num_hashes + recorder.remaining_hashes
        <5>1. /\ Hashed(recorder).num_hashes = recorder.num_hashes + 1
              /\ Hashed(recorder).remaining_hashes = recorder.remaining_hashes - 1
          BY <1>2, HashedCounts, Zenon
        <5>2. recorder.num_hashes \in Nat /\ recorder.remaining_hashes \in Nat \ {0}
          BY <1>2, Zenon DEF RecorderTypes
        <5> QED  BY <5>1, <5>2
      <4>5. 0 \in Nat
        BY Zenon
      <4> QED  BY <4>2, <4>3, <4>4, <4>5, FullMoved, Zenon
    <3>2. CASE recorder.remaining_hashes = 1
      <4>1. Hashed(recorder).remaining_hashes = 0
        <5>1. Hashed(recorder).remaining_hashes = recorder.remaining_hashes - 1
          BY <1>2, HashedCounts, Zenon
        <5> QED  BY <3>2, <5>1
      <4>2. CASE recorder.leader_first = {}
        <5>1. t = [State EXCEPT !.recorder = Ticked(recorder)]
          BY <1>1, <4>1, <4>2, StateFields, Zenon DEF poh_tick, Hashed, Ticked
        <5>2. t.recorder = Ticked(recorder)
          BY <1>2, <5>1, TickFields, NewRecorder, ZenonT(60)
        <5>3. /\ Ticked(recorder).num_hashes = 0 /\ Ticked(recorder).remaining_hashes = hashes_per_tick
              /\ Ticked(recorder).tick_cache = recorder.tick_cache
          BY <1>2, HashedCounts, Zenon
        <5>4. 0 + hashes_per_tick = hashes_per_tick
          BY PohAssumption
        <5> QED  BY <5>2, <5>3, <5>4, Zenon DEF FullTicks
      <4>3. CASE recorder.leader_first # {}
        <5>1. PICK c : c = [State EXCEPT !.recorder = Cached(recorder)]
          BY Zenon
        <5>2. RecorderTypes(Cached(recorder)) /\ SameStart(recorder, Cached(recorder))
          BY <1>2, TickFields, Zenon
        <5>3. StateTypes(c) /\ c.recorder = Cached(recorder)
          BY <1>2, <5>1, <5>2, NewRecorder, Zenon
        <5>4. t = flush_cache(c, TRUE, received)
          BY <1>1, <4>1, <4>3, <5>1, TickCached, StateFields, ZenonT(60)
        <5>5. t = [c EXCEPT !.result = "MaxHeightReached"]
          BY <1>4, <5>2, <5>3, <5>4, Zenon DEF flush_cache, SameStart
        <5>6. t.recorder = Cached(recorder)
          BY <5>3, <5>5, NewResult, Zenon
        <5>7. 0 \in Nat
          BY Zenon
        <5> QED  BY <1>2, <3>2, <5>6, <5>7, FullCached, ZenonT(60)
      <4> QED  BY <4>2, <4>3, Zenon
    <3> QED  BY <3>1, <3>2, Zenon
  <2>3. recorder'.working_bank = {}
    BY <1>2, <1>4, <2>1, Zenon DEF SameStart
  <2>4. UNCHANGED <<banks, broadcast>> /\ connected' = connected /\ tpu_bank' = tpu_bank
    BY <1>2, <2>1, Zenon
  <2>5. /\ connected' => IF recorder'.working_bank = {} THEN FullTicks(recorder')
                         ELSE \A x \in recorder'.working_bank :
                                  FullFrom(tick_hash_count(broadcast[x]), recorder')
        /\ connected' => connected
        /\ recorder'.working_bank \subseteq recorder.working_bank
    <3>1. connected => FullTicks(recorder')
      BY <1>2, <1>4, <2>2, Zenon DEF BlockInv
    <3>2. recorder'.working_bank \subseteq recorder.working_bank
      BY <2>3, Zenon
    <3> QED  BY <2>3, <2>4, <3>1, <3>2, Zenon
  <2> QED  BY <2>4, <2>5, QuietBlocks, Zenon
<1> QED  BY <1>3, <1>4, Zenon

LEMMA RecordBlocks ==
  ASSUME PohInv, BlockInv, NEW slot \in Slots, record(slot)
  PROVE  BlockInv'
<1>1. PICK received, t : Assign(t) /\ t = record_entry(State, slot, received)
  BY Zenon DEF record
<1>2. /\ UNCHANGED <<connected, tpu_bank>> /\ StateTypes(State)
      /\ recorder' = t.recorder /\ banks' = t.banks /\ broadcast' = t.broadcast
  BY <1>1, Zenon DEF record, replayVars, PohInv, Assign
<1>3. CASE recorder.working_bank # {}
  <2>1. PICK x \in MyLeaderSlots :
             /\ x \in Slots /\ Leading(State, x) /\ recorder.tick_height < end_tick_height(x)
             /\ recorder.working_bank \cup tpu_bank = {x} /\ tpu_bank = {} /\ Block(State, x)
    BY <1>3, LeadsBlock, Zenon
  <2>2. Effect(State, t, x) /\ Block(t, x)
    BY <1>1, <1>2, <2>1, RecordEntry, RecordEntryBlock, StateFields, ZenonT(60)
  <2>3. tpu_bank' = {} /\ connected' = connected
    BY <1>2, <2>1, Zenon
  <2> QED  BY <1>1, <2>1, <2>2, <2>3, BlockEffect, StateFields, ZenonT(60)
<1>4. CASE recorder.working_bank = {}
  <2>1. t = [State EXCEPT !.result = "MaxHeightReached"]
    <3>1. record_once(State, slot, received) = [State EXCEPT !.result = "MaxHeightReached"]
      BY <1>2, <1>4, RecordIdle, StateFields, Zenon
    <3>2. [State EXCEPT !.result = "MaxHeightReached"].result # "TickFirst"
      BY Zenon DEF State
    <3> QED  BY <1>1, <3>1, <3>2, Zenon DEF record_entry
  <2>2. t.recorder = recorder /\ t.banks = banks /\ t.broadcast = broadcast
    BY <2>1, Zenon DEF State
  <2>3. /\ recorder' = recorder /\ connected' = connected
        /\ UNCHANGED <<banks, broadcast>> /\ tpu_bank' = tpu_bank
    BY <1>2, <2>2, Zenon
  <2> QED  BY <2>3, QuietBlocks, Zenon DEF BlockInv
<1> QED  BY <1>3, <1>4, Zenon

LEMMA LoopBlocks ==
  ASSUME BlockInv, disconnect \/ read_has_bank \/ keep_fork \/ dont_start_leader
  PROVE  BlockInv'
<1>1. UNCHANGED <<recorder, banks, broadcast, tpu_bank>> /\ (connected' => connected)
  BY DEF disconnect, read_has_bank, keep_fork, dont_start_leader, replayVars
<1> QED  BY <1>1, QuietBlocks, Zenon DEF BlockInv

\* Only banks without a block are replayed, and freezing keeps their height.
LEMMA ReplayBlocks ==
  ASSUME PohInv, BlockInv, replay_active_banks
  PROVE  BlockInv'
<1>1. UNCHANGED <<recorder, broadcast, connected, tpu_bank>>
  BY Zenon DEF replay_active_banks
<1>2. PICK new \in SUBSET {s \in Slots \ MyLeaderSlots : banks[s].status = "none"},
           parent \in Slots :
          banks' = [s \in Slots |->
                  IF s \in new
                  THEN [parent |-> parent, tick_height |-> end_tick_height(s), status |-> "frozen"]
                  ELSE IF banks[s].status = "active" /\ is_complete(s)
                  THEN [banks[s] EXCEPT !.status = "frozen"]
                  ELSE banks[s]]
  BY ZenonT(60) DEF replay_active_banks
<1>3. banks \in [Slots -> Bank] /\ recorder.working_bank \subseteq MyLeaderSlots
  BY StateFields, Zenon DEF PohInv, StateTypes, RecorderTypes
<1>4. tpu_bank \subseteq MyLeaderSlots
  BY Zenon DEF PohInv, NewBankInv
<1>5. ASSUME NEW y \in Slots, HasBlock(y)' PROVE Kept(y)
  <2>1. HasBlock(y)
    BY <1>1, <1>5, Zenon DEF HasBlock
  <2>2. y \notin new
    <3>1. CASE broadcast[y] # << >>
      <4>1. banks[y].status # "none"
        BY <3>1, Zenon DEF PohInv, SlotInv
      <4> QED  BY <1>2, <4>1, Zenon
    <3>2. CASE y \in recorder.working_bank \cup tpu_bank
      BY <1>2, <1>3, <1>4, <3>2, ZenonT(60)
    <3> QED  BY <2>1, <3>1, <3>2, Zenon DEF HasBlock
  <2>3. banks[y] \in Bank
    BY <1>3, Zenon
  <2>4. banks'[y] = banks[y] \/ banks'[y] = [banks[y] EXCEPT !.status = "frozen"]
    BY <1>2, <2>2, Zenon
  <2>5. banks'[y].parent = banks[y].parent /\ banks'[y].tick_height = banks[y].tick_height
    BY <2>3, <2>4, Zenon DEF Bank
  <2> QED  BY <1>1, <2>1, <2>5, Zenon DEF Kept
<1>6. connected' => IF recorder'.working_bank = {} THEN FullTicks(recorder')
                    ELSE \A x \in recorder'.working_bank :
                             FullFrom(tick_hash_count(broadcast'[x]), recorder')
  BY <1>1, Zenon DEF BlockInv
<1>7. connected' => connected
  BY <1>1, Zenon
<1> QED  BY <1>5, <1>6, <1>7, BlockInvStep, Zenon

LEMMA ResetBlocks ==
  ASSUME PohInv, BlockInv, reset_poh_recorder
  PROVE  BlockInv'
<1>1. UNCHANGED <<banks, broadcast>> /\ tpu_bank' = tpu_bank /\ (connected' => connected)
  BY Zenon DEF reset_poh_recorder
<1>2. PICK slot, received : slot \in Slots /\ recorder' = reset(slot, received)
  BY Zenon DEF reset_poh_recorder
<1>3. RecorderTypes(recorder)
  BY StateFields, Zenon DEF PohInv, StateTypes
<1>4. recorder'.working_bank = {} /\ FullTicks(recorder')
  BY <1>2, <1>3, Reset, Zenon
<1>5. recorder'.working_bank \subseteq recorder.working_bank
  BY <1>4, Zenon
<1> QED  BY <1>1, <1>4, <1>5, QuietBlocks, Zenon

\* A new bank starts at the last tick of its parent.
LEMMA StartLeaderBlocks ==
  ASSUME PohInv, BlockInv, maybe_start_leader
  PROVE  BlockInv'
<1>0. PICK x : x = poh_slot
  BY Zenon
<1>1. /\ UNCHANGED <<recorder, broadcast, connected>>
      /\ replay_pc' = "set_bank" /\ tpu_bank' = {x} /\ replay_pc = "start_leader" /\ ~tpu_has_bank
      /\ recorder.leader_first # {} /\ x \in MyLeaderSlots /\ banks[x].status = "none"
      /\ banks' = [banks EXCEPT ![x] = [parent |-> recorder.start_slot,
                       tick_height |-> banks[recorder.start_slot].tick_height, status |-> "active"]]
  BY <1>0, Zenon DEF maybe_start_leader, reached_leader_slot, parent_slot
<1>2. banks \in [Slots -> Bank] /\ x \in Slots /\ recorder.start_slot \in Slots
  BY <1>1, StateFields, PohAssumption, ZenonT(60) DEF PohInv, StateTypes, RecorderTypes
<1>3. banks[recorder.start_slot].tick_height = end_tick_height(recorder.start_slot)
  BY <1>1, Zenon DEF PohInv, StartInv, MayLead
<1>4. broadcast'[x] = << >>
  BY <1>1, <1>2, Zenon DEF PohInv, SlotInv
<1>5. /\ banks'[x].parent = recorder.start_slot
      /\ banks'[x].tick_height = end_tick_height(recorder.start_slot)
      /\ \A y \in Slots \ {x} : banks'[y] = banks[y]
  BY <1>1, <1>2, <1>3, Zenon
<1>6. banks'[x].tick_height <= end_tick_height(x)
  <2>1. PohInv'
    BY StartLeaderStep, Zenon
  <2> QED  BY <1>1, <2>1, Zenon DEF PohInv, NewBankInv
<1>7. BlockHeight(State', x) = end_tick_height(recorder.start_slot)
  <2>1. /\ State'.banks[x].parent = recorder.start_slot /\ State'.broadcast[x] = << >>
    BY <1>4, <1>5, StateFieldsNext, Zenon
  <2>2. BlockHeight(State', x) = end_tick_height(recorder.start_slot) + 0
    BY <2>1, NothingSent, Zenon DEF BlockHeight
  <2>3. end_tick_height(recorder.start_slot) \in Nat
    BY <1>2, SlotEnd, Zenon
  <2> QED  BY <2>2, <2>3
<1>8. Accepted(State', x) /\ Registered(State', x)
  <2>1. State'.broadcast[x] = << >> /\ State'.banks[x].tick_height = banks'[x].tick_height
    BY <1>4, StateFieldsNext, Zenon
  <2>2. 0 \in 0..(hashes_per_tick - 1)
    BY PohAssumption
  <2> QED  BY <1>5, <1>6, <1>7, <2>1, <2>2, NothingSent, ZenonT(60) DEF Accepted, Registered
<1>9. ASSUME NEW y \in Slots, HasBlock(y)', y # x PROVE Kept(y)
  <2>1. HasBlock(y) /\ banks'[y] = banks[y]
    BY <1>1, <1>5, <1>9, Zenon DEF HasBlock
  <2> QED  BY <1>1, <2>1, Zenon DEF Kept
<1>10. \A y \in Slots : HasBlock(y)' =>
           Kept(y) \/ (Accepted(State, y)' /\ (connected' => Registered(State, y)'))
  <2> TAKE y \in Slots
  <2>1. CASE y = x
    BY <1>8, <2>1, Zenon
  <2>2. CASE y # x
    BY <1>9, <2>2, Zenon
  <2> QED  BY <2>1, <2>2, Zenon
<1>11. connected' => IF recorder'.working_bank = {} THEN FullTicks(recorder')
                     ELSE \A z \in recorder'.working_bank :
                              FullFrom(tick_hash_count(broadcast'[z]), recorder')
  BY <1>1, Zenon DEF BlockInv
<1>12. connected' => connected
  BY <1>1, Zenon
<1> QED  BY <1>10, <1>11, <1>12, BlockInvStep, Zenon

LEMMA SetBankBlocks ==
  ASSUME PohInv, BlockInv, set_bank
  PROVE  BlockInv'
<1>1. PICK s, t, x : SetsBank(s, t, x)
  BY SetBankFlushes, Zenon
<1>2. /\ x \in Slots /\ recorder.start_slot \in Slots /\ x # recorder.start_slot
      /\ tpu_bank = {x} /\ recorder.working_bank = {} /\ broadcast[x] = <<>>
      /\ banks[x].tick_height = end_tick_height(recorder.start_slot)
      /\ s.banks = banks /\ s.broadcast = broadcast /\ StateTypes(s) /\ Leading(s, x)
      /\ s.recorder.tick_cache = recorder.tick_cache
      /\ s.recorder.num_hashes = recorder.num_hashes
      /\ s.recorder.remaining_hashes = recorder.remaining_hashes
      /\ Assign(t) /\ Effect(s, t, x)
  BY <1>1, Zenon DEF SetsBank
<1>3. PICK received : t = flush_ticks(s, x, received)
  BY <1>1, Zenon DEF SetsBank
<1>4. tpu_bank' = {} /\ connected' = connected /\ recorder.working_bank \cup tpu_bank = {x}
  BY <1>2, Zenon DEF set_bank
<1>5. s.banks[x].tick_height < end_tick_height(x)
  <2>1. s.banks[x].tick_height <= end_tick_height(x)
    BY <1>2, Zenon DEF Leading
  <2>2. \A a, b \in Nat, n \in Nat \ {0} : (a + 1) * n <= (b + 1) * n /\ a # b => (a + 1) * n < (b + 1) * n
    BY SMT
  <2>3. x \in Nat /\ recorder.start_slot \in Nat /\ ticks_per_slot \in Nat \ {0}
    BY <1>2, PohAssumption DEF Slots
  <2> QED  BY <1>2, <2>1, <2>2, <2>3, Zenon DEF end_tick_height
<1>6. Block(s, x)
  <2>1. Accepted(State, x) /\ (connected => Registered(State, x) /\ FullTicks(recorder))
    BY <1>2, <1>4, Zenon DEF BlockInv
  <2>2. Accepted(s, x) /\ (connected => Registered(s, x))
    <3>1. /\ s.broadcast[x] = State.broadcast[x] /\ s.banks[x].parent = State.banks[x].parent
          /\ s.banks[x].tick_height = State.banks[x].tick_height
      BY <1>2, StateFields, Zenon
    <3> QED  BY <2>1, <3>1, AcceptedSame, Zenon
  <2>3. connected => FullFrom(0, s.recorder)
    <3>1. SUFFICES ASSUME connected PROVE FullFrom(0, s.recorder)
      BY Zenon
    <3>2. PICK r : r = s.recorder
      BY Zenon
    <3>3. /\ r.num_hashes + r.remaining_hashes = hashes_per_tick
          /\ \A i \in 1..Len(r.tick_cache) : r.tick_cache[i].num_hashes = hashes_per_tick
      BY <1>2, <2>1, <3>1, <3>2, ZenonT(60) DEF FullTicks
    <3>4. r.num_hashes \in Nat /\ r.remaining_hashes \in Nat \ {0} /\ r.tick_cache \in Seq(Tick)
      BY <1>2, <3>2, Zenon DEF StateTypes, RecorderTypes
    <3>5. 0 + r.num_hashes + r.remaining_hashes = hashes_per_tick
      BY <3>3, <3>4
    <3>6. hashes_per_tick \in Nat /\ Len(r.tick_cache) \in Nat
      BY <3>4, PohAssumption
    <3>7. r.tick_cache # << >> => 1 \in 1..Len(r.tick_cache)
      BY <3>4
    <3>8. r.tick_cache # << >> => 0 + r.tick_cache[1].num_hashes = hashes_per_tick
      BY <3>3, <3>6, <3>7
    <3>9. \A i \in 2..Len(r.tick_cache) : i \in 1..Len(r.tick_cache)
      BY <3>6
    <3> QED  BY <3>2, <3>3, <3>5, <3>8, <3>9, ZenonT(60) DEF FullFrom
  <2>4. tick_hash_count(s.broadcast[x]) = 0 /\ s.recorder.working_bank # {}
    BY <1>2, NothingSent, Zenon DEF Leading
  <2> QED  BY <2>2, <2>3, <2>4, Zenon DEF Block
<1>7. Block(t, x)
  BY <1>2, <1>3, <1>5, <1>6, FlushBlock, ZenonT(60)
<1> QED  BY <1>2, <1>4, <1>7, BlockEffect, ZenonT(60)

LEMMA InitBlocks ==
  ASSUME Init
  PROVE  BlockInv
<1>1. recorder.working_bank = {} /\ FullTicks(recorder)
  BY PohInit, Zenon
<1>2. tpu_bank = {} /\ \A x \in Slots : broadcast[x] = << >>
  BY Zenon DEF Init
<1> QED  BY <1>1, <1>2, Zenon DEF BlockInv

LEMMA BlockStep ==
  ASSUME PohInv, BlockInv, [Next]_vars
  PROVE  BlockInv'
<1>1. CASE hash
  BY <1>1, HashBlocks, Zenon
<1>2. CASE tick
  BY <1>2, TickBlocks, Zenon
<1>3. CASE \E slot \in Slots : record(slot)
  BY <1>3, RecordBlocks, Zenon
<1>4. CASE disconnect \/ read_has_bank \/ keep_fork \/ dont_start_leader
  BY <1>4, LoopBlocks, Zenon
<1>5. CASE replay_active_banks
  BY <1>5, ReplayBlocks, Zenon
<1>6. CASE reset_poh_recorder
  BY <1>6, ResetBlocks, Zenon
<1>7. CASE maybe_start_leader
  BY <1>7, StartLeaderBlocks, Zenon
<1>8. CASE set_bank
  BY <1>8, SetBankBlocks, Zenon
<1>9. CASE UNCHANGED vars
  <2>1. UNCHANGED <<recorder, banks, broadcast, tpu_bank>> /\ (connected' => connected)
    BY <1>9, Zenon DEF vars, replayVars
  <2> QED  BY <2>1, QuietBlocks, Zenon DEF BlockInv
<1> QED  BY <1>1, <1>2, <1>3, <1>4, <1>5, <1>6, <1>7, <1>8, <1>9, ZenonT(60) DEF Next, ReplayStep

\* What flush_cache and record send of a slot passes the verify_ticks of a
\* validator that replays it, whatever resets, ticks and records come between,
\* and the leader's own bank has registered the same ticks.
THEOREM PohBlocksVerify == Spec => []BlockVerifies
<1>1. Init => PohInv /\ BlockInv
  BY PohInit, InitBlocks, Zenon
<1>2. PohInv /\ BlockInv /\ [Next]_vars => PohInv' /\ BlockInv'
  BY PohStep, BlockStep, Zenon
<1>3. BlockInv => BlockVerifies
  <2> SUFFICES ASSUME BlockInv, NEW s \in Slots, broadcast[s] # << >>
               PROVE  Accepted(State, s) /\ (connected => Registered(State, s))
    BY StateFields, Zenon DEF BlockVerifies, Accepted, Registered, BlockHeight
  <2> QED  BY Zenon DEF BlockInv
<1> QED  BY <1>1, <1>2, <1>3, PTL DEF Spec

=============================================================================
