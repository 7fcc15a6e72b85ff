---------------------------- MODULE PohRecorder ----------------------------
(***************************************************************************)
(* The PoH recorder of a leader (src/poh/src/poh_recorder.rs), the service *)
(* that hashes, ticks and records through it (poh_service.rs,              *)
(* src/entry/src/poh.rs), and the part of the replay loop that resets it,  *)
(* freezes its banks and gives it the next one                             *)
(* (src/core/src/replay_stage.rs).  What the recorder sends to the         *)
(* broadcast stage must be a block that other validators accept.           *)
(*                                                                         *)
(* The methods of the recorder run under its mutex.  Each is a function of *)
(* a state [recorder, banks, broadcast, result], so that one may call      *)
(* another.  A bank is named by its slot.                                  *)
(***************************************************************************)
EXTENDS Integers, Sequences, FiniteSets, FiniteSetsExt

CONSTANTS
    ticks_per_slot, hashes_per_tick, hashes_per_batch,
    NUM_CONSECUTIVE_LEADER_SLOTS,
    LastSlot,         \* bound on the slots
    MyLeaderSlots,    \* the leader schedule of this validator
    MaxRecords        \* bound on the record requests

GRACE_TICKS_FACTOR == 2
MAX_GRACE_SLOTS == 2
Slots == 0..LastSlot
MaxTickHeight == (LastSlot + 1) * ticks_per_slot

ASSUME PohAssumption ==
    /\ {ticks_per_slot, hashes_per_batch, NUM_CONSECUTIVE_LEADER_SLOTS} \subseteq Nat \ {0}
    /\ hashes_per_tick \in Nat \ {0, 1}
    /\ LastSlot \in Nat
    /\ MyLeaderSlots \subseteq Slots \ {0}
    /\ MaxRecords \in Nat

VARIABLES
    recorder,       \* PohRecorder, with the counters of its Poh
    should_tick,    \* tick_producer is about to tick
    banks,          \* BankForks: parent, tick height and status of a slot's bank
    broadcast,      \* the entries sent for a slot
    connected,      \* the broadcast stage receives
    records,        \* the number of record requests so far
    results,        \* the results they got
    replay_pc, tpu_has_bank, last_reset, tpu_bank   \* the replay loop

serviceVars == <<should_tick, records, results>>
replayVars == <<replay_pc, tpu_has_bank, last_reset, tpu_bank>>
vars == <<recorder, banks, broadcast, connected, serviceVars, replayVars>>

end_tick_height(slot) == (slot + 1) * ticks_per_slot   \* Bank::max_tick_height
NoBank == [parent |-> 0, tick_height |-> 0, status |-> "none"]

----------------------------------------------------------------------------
(* The leader schedule.                                                    *)

\* The next slots to lead, <<>> when there are none.  Slots of which shreds
\* were received are skipped; those of the broadcast arrive with a delay.
next_leader_slot(slot, received) ==
    LET candidates == {s \in MyLeaderSlots : s > slot} \ received
        first == Min(candidates)
        led == {s \in MyLeaderSlots :
                   /\ s >= first
                   /\ s <= first + GRACE_TICKS_FACTOR * MAX_GRACE_SLOTS - 1
                   /\ first..s \subseteq MyLeaderSlots}
    IN  IF candidates = {} THEN <<>> ELSE <<first, Max(led)>>

\* The fields that say when to lead next; leader_first is {} for None.
compute_leader_slot_tick_heights(r, next) ==
    LET num_slots == IF next = <<>> THEN NUM_CONSECUTIVE_LEADER_SLOTS ELSE next[2] - next[1] + 1
        grace == Min({ticks_per_slot * MAX_GRACE_SLOTS,
                      (ticks_per_slot * num_slots) \div GRACE_TICKS_FACTOR})
    IN  [r EXCEPT !.grace_ticks = grace,
                  !.leader_first = IF next = <<>> THEN {}
                                   ELSE {next[1] * ticks_per_slot + 1 + grace}]

slot_for_tick_height(h) == Max({h - 1, 0}) \div ticks_per_slot

prev_slot_was_mine(slot) == Max({slot - 1, 0}) \in MyLeaderSlots

is_same_fork_as_previous_leader(slot) ==
    recorder.start_slot \in Max({slot - NUM_CONSECUTIVE_LEADER_SLOTS, 0})..(slot - 1)

reached_leader_tick(leader_first) ==
    LET target == leader_first - 1
        next_slot == slot_for_tick_height(recorder.tick_height + 1)
    IN  \/ recorder.tick_height >= target
        \/ recorder.start_tick_height + recorder.grace_ticks = leader_first
        \/ /\ recorder.tick_height >= target - recorder.grace_ticks
           /\ prev_slot_was_mine(next_slot) \/ ~is_same_fork_as_previous_leader(next_slot)

reached_leader_slot == \E h \in recorder.leader_first : reached_leader_tick(h)
poh_slot == slot_for_tick_height(recorder.tick_height + 1)
parent_slot == recorder.start_slot

----------------------------------------------------------------------------
(* The recorder.                                                           *)

clear_bank(r, received) ==
    IF r.working_bank = {} THEN r
    ELSE LET slot == CHOOSE s \in r.working_bank : TRUE
         IN  compute_leader_slot_tick_heights([r EXCEPT !.working_bank = {}],
                                              next_leader_slot(slot, received))

Entry(tick, n) == [tick |-> tick, num_hashes |-> n]

\* Mutant: a tick past the end of the slot goes to the bank as well.
FlushAll(cache, max) == Len(cache)

\* The leading ticks of the cache that belong to the bank.
entry_count(cache, max) ==
    Max({n \in 0..Len(cache) : \A i \in 1..n : cache[i].height <= max})

\* The send fails when the receiver is gone: one tick was registered by then.
flush_ticks(s, slot, received) ==
    LET r == s.recorder
        count == entry_count(r.tick_cache, end_tick_height(slot))
        sent == connected \/ count = 0
        full == r.tick_height >= end_tick_height(slot)
        ended == IF full
                 THEN clear_bank([r EXCEPT !.start_slot = slot,
                                           !.start_tick_height = slot * ticks_per_slot + 1],
                                 received)
                 ELSE r
        ticks == [i \in 1..count |-> Entry(TRUE, r.tick_cache[i].num_hashes)]
    IN  [recorder |-> IF sent
                      THEN [ended EXCEPT !.tick_cache = SubSeq(@, count + 1, Len(@))]
                      ELSE clear_bank(ended, received),
         banks |-> [s.banks EXCEPT ![slot].tick_height = @ + (IF sent THEN count ELSE 1)],
         broadcast |-> IF sent THEN [s.broadcast EXCEPT ![slot] = @ \o ticks] ELSE s.broadcast,
         result |-> "Ok"]

\* Mutant: nothing is recorded at the height the bank starts at.
FlushAfterMin(s, tick, received) ==
    LET r == s.recorder
    IN  IF r.working_bank = {} THEN [s EXCEPT !.result = "MaxHeightReached"]
        ELSE IF r.tick_height <= r.min_tick_height
        THEN [s EXCEPT !.result = "MinHeightNotReached"]
        ELSE flush_ticks(s, CHOOSE slot \in r.working_bank : TRUE, received)

flush_cache(s, tick, received) ==
    LET r == s.recorder
        min == r.min_tick_height
    IN  IF r.working_bank = {} THEN [s EXCEPT !.result = "MaxHeightReached"]
        ELSE IF r.tick_height < min \/ (tick /\ r.tick_height = min)
        THEN [s EXCEPT !.result = "MinHeightNotReached"]
        ELSE flush_ticks(s, CHOOSE slot \in r.working_bank : TRUE, received)

\* Poh::tick yields an entry when it was the last hash of the tick.
poh_tick(s, received) ==
    LET r == s.recorder
        hashed == [r EXCEPT !.num_hashes = @ + 1, !.remaining_hashes = @ - 1]
        ticked == [r EXCEPT !.num_hashes = 0, !.remaining_hashes = hashes_per_tick,
                            !.tick_height = @ + 1]
        cached == [ticked EXCEPT !.tick_cache =
                      Append(@, [num_hashes |-> hashed.num_hashes, height |-> ticked.tick_height])]
    IN  IF hashed.remaining_hashes # 0 THEN [s EXCEPT !.recorder = hashed]
        ELSE IF r.leader_first = {} THEN [s EXCEPT !.recorder = ticked]
        ELSE flush_cache([s EXCEPT !.recorder = cached], TRUE, received)

\* Mutant: the bank of the request must be unfinished, not be the recorder's.
RecordUnfinished(s, slot, received) ==
    LET flushed == flush_cache(s, FALSE, received)
        r == flushed.recorder
    IN  IF flushed.result # "Ok" THEN flushed
        ELSE IF flushed.banks[slot].status # "active" \/ flushed.banks[slot].tick_height = end_tick_height(slot)
        THEN [flushed EXCEPT !.result = "MaxHeightReached"]
        ELSE IF r.remaining_hashes = 1 THEN [flushed EXCEPT !.result = "TickFirst"]
        ELSE [flushed EXCEPT
                !.recorder.num_hashes = 0,
                !.recorder.remaining_hashes = @ - 1,
                !.broadcast[slot] = IF connected THEN Append(@, Entry(FALSE, r.num_hashes + 1)) ELSE @,
                !.result = IF connected THEN "Ok" ELSE "SendError"]

\* One turn of the loop in record.
record_once(s, slot, received) ==
    LET flushed == flush_cache(s, FALSE, received)
        r == flushed.recorder
    IN  IF flushed.result # "Ok" THEN flushed
        ELSE IF r.working_bank # {slot} THEN [flushed EXCEPT !.result = "MaxHeightReached"]
        ELSE IF r.remaining_hashes = 1 THEN [flushed EXCEPT !.result = "TickFirst"]
        ELSE [flushed EXCEPT
                !.recorder.num_hashes = 0,
                !.recorder.remaining_hashes = @ - 1,
                !.broadcast[slot] = IF connected THEN Append(@, Entry(FALSE, r.num_hashes + 1)) ELSE @,
                !.result = IF connected THEN "Ok" ELSE "SendError"]

\* The turn after a tick does not find the last hash again.
record_entry(s, slot, received) ==
    LET first == record_once(s, slot, received)
    IN  IF first.result = "TickFirst"
        THEN record_once(poh_tick(first, received), slot, received)
        ELSE first

----------------------------------------------------------------------------
State == [recorder |-> recorder, banks |-> banks, broadcast |-> broadcast, result |-> "Ok"]

Assign(s) == recorder' = s.recorder /\ banks' = s.banks /\ broadcast' = s.broadcast

\* The broadcast slots of which the blockstore may have shreds.
Received == SUBSET {s \in Slots : broadcast[s] # <<>>}

\* The validator starts on the frozen bank of slot 0.
Init ==
    /\ recorder = compute_leader_slot_tick_heights(
           [tick_height |-> end_tick_height(0), start_slot |-> 0,
            start_tick_height |-> end_tick_height(0) + 1, tick_cache |-> <<>>,
            working_bank |-> {}, min_tick_height |-> 0, leader_first |-> {}, grace_ticks |-> 0,
            num_hashes |-> 0, remaining_hashes |-> hashes_per_tick],
           next_leader_slot(0, {}))
    /\ should_tick = FALSE
    /\ banks = [s \in Slots |-> IF s = 0
           THEN [parent |-> 0, tick_height |-> end_tick_height(0), status |-> "frozen"]
           ELSE NoBank]
    /\ broadcast = [s \in Slots |-> <<>>]
    /\ connected = TRUE
    /\ records = 0
    /\ results = {}
    /\ replay_pc = "has_bank"
    /\ tpu_has_bank = FALSE
    /\ last_reset = {}
    /\ tpu_bank = {}

\* record_or_hash without a request: hash without the lock of the recorder.
hash ==
    LET num_hashes == Min({recorder.remaining_hashes - 1, hashes_per_batch})
    IN  /\ ~should_tick
        /\ recorder' = [recorder EXCEPT !.num_hashes = @ + num_hashes,
                                        !.remaining_hashes = @ - num_hashes]
        /\ should_tick' = (recorder.remaining_hashes - num_hashes = 1)
        /\ UNCHANGED <<banks, broadcast, connected, records, results, replayVars>>

\* tick_producer takes the lock and ticks; a reset may have come before.
tick ==
    /\ should_tick
    /\ recorder.tick_height < MaxTickHeight
    /\ should_tick' = FALSE
    /\ \E received \in Received : Assign(poh_tick(State, received))
    /\ UNCHANGED <<connected, records, results, replayVars>>

\* A banking thread asks for a slot whose bank it got from the recorder,
\* now or earlier.
record(slot) ==
    /\ ~should_tick
    /\ records < MaxRecords
    /\ slot \in MyLeaderSlots
    /\ banks[slot].status # "none"
    /\ tpu_bank # {slot}
    /\ recorder.remaining_hashes = 1 => recorder.tick_height < MaxTickHeight
    /\ \E received \in Received :
           LET s == record_entry(State, slot, received)
           IN  Assign(s) /\ results' = results \cup {s.result}
    /\ records' = records + 1
    /\ UNCHANGED <<should_tick, connected, replayVars>>

\* The broadcast stage ends; it sets the exit flag before its receiver goes.
disconnect ==
    /\ connected
    /\ connected' = FALSE
    /\ UNCHANGED <<recorder, banks, broadcast, serviceVars, replayVars>>

----------------------------------------------------------------------------
(* The replay loop.                                                        *)

\* Mutant: the recorder is asked after the complete banks were frozen.
ReadLater ==
    /\ replay_pc = "has_bank"
    /\ connected
    /\ replay_pc' = "active_banks"
    /\ tpu_has_bank' = FALSE
    /\ UNCHANGED <<recorder, banks, broadcast, connected, serviceVars, last_reset, tpu_bank>>

\* The next turn of the loop, unless the exit flag is set.
read_has_bank ==
    /\ replay_pc = "has_bank"
    /\ connected
    /\ replay_pc' = "active_banks"
    /\ tpu_has_bank' = (recorder.working_bank # {})
    /\ UNCHANGED <<recorder, banks, broadcast, connected, serviceVars, last_reset, tpu_bank>>

is_complete(slot) == banks[slot].tick_height = end_tick_height(slot)

\* Freeze the complete banks; the block of another leader may be replayed.
replay_active_banks ==
    /\ replay_pc = "active_banks"
    /\ replay_pc' = "reset"
    /\ \E new \in {{}} \cup {{s} : s \in {t \in Slots \ MyLeaderSlots : banks[t].status = "none"}},
          parent \in {t \in Slots : banks[t].status = "frozen"} :
           /\ \A s \in new : parent < s
           /\ banks' = [s \in Slots |->
                  IF s \in new
                  THEN [parent |-> parent, tick_height |-> end_tick_height(s), status |-> "frozen"]
                  ELSE IF banks[s].status = "active" /\ is_complete(s)
                  THEN [banks[s] EXCEPT !.status = "frozen"]
                  ELSE banks[s]]
    /\ UNCHANGED <<recorder, broadcast, connected, serviceVars, tpu_has_bank, last_reset, tpu_bank>>

reset(slot, received) ==
    compute_leader_slot_tick_heights(
        [clear_bank(recorder, received) EXCEPT
            !.num_hashes = 0, !.remaining_hashes = hashes_per_tick, !.tick_cache = <<>>,
            !.start_slot = slot, !.tick_height = end_tick_height(slot),
            !.start_tick_height = end_tick_height(slot) + 1],
        next_leader_slot(slot, received))

\* Fork choice picks a frozen bank that the recorder was not last reset to.
reset_poh_recorder ==
    /\ replay_pc = "reset"
    /\ replay_pc' = "start_leader"
    /\ \E slot \in {s \in Slots : banks[s].status = "frozen"} \ last_reset, received \in Received :
           /\ recorder' = reset(slot, received)
           /\ last_reset' = {slot}
    /\ tpu_has_bank' = FALSE
    /\ UNCHANGED <<banks, broadcast, connected, serviceVars, tpu_bank>>

keep_fork ==
    /\ replay_pc = "reset"
    /\ replay_pc' = "start_leader"
    /\ UNCHANGED <<recorder, banks, broadcast, connected, serviceVars,
                   tpu_has_bank, last_reset, tpu_bank>>

\* maybe_start_leader returns early: votes or propagation may also be missing.
dont_start_leader ==
    /\ replay_pc = "start_leader"
    /\ replay_pc' = "has_bank"
    /\ UNCHANGED <<recorder, banks, broadcast, connected, serviceVars,
                   tpu_has_bank, last_reset, tpu_bank>>

maybe_start_leader ==
    /\ replay_pc = "start_leader"
    /\ ~tpu_has_bank
    /\ reached_leader_slot
    /\ poh_slot \in MyLeaderSlots
    /\ banks[poh_slot].status = "none"
    /\ replay_pc' = "set_bank"
    /\ tpu_bank' = {poh_slot}
    /\ banks' = [banks EXCEPT ![poh_slot] =
           [parent |-> parent_slot, tick_height |-> banks[parent_slot].tick_height,
            status |-> "active"]]
    /\ UNCHANGED <<recorder, broadcast, connected, serviceVars, tpu_has_bank, last_reset>>

\* The lock of the recorder was released while the bank was made.
set_bank ==
    /\ replay_pc = "set_bank"
    /\ replay_pc' = "has_bank"
    /\ \E received \in Received :
           Assign(flush_cache([State EXCEPT
                      !.recorder.working_bank = tpu_bank,
                      !.recorder.min_tick_height = banks[CHOOSE s \in tpu_bank : TRUE].tick_height],
                  FALSE, received))
    /\ tpu_bank' = {}
    /\ UNCHANGED <<connected, serviceVars, tpu_has_bank, last_reset>>

ReplayStep ==
    \/ read_has_bank \/ replay_active_banks \/ reset_poh_recorder \/ keep_fork
    \/ dont_start_leader \/ maybe_start_leader \/ set_bank

Next ==
    \/ hash \/ tick \/ disconnect
    \/ \E slot \in Slots : record(slot)
    \/ ReplayStep

Spec == Init /\ [][Next]_vars

----------------------------------------------------------------------------
(* Properties.                                                             *)

\* The types of the variables; at least one hash of the tick remains.
TypeOK ==
    /\ recorder.tick_height \in 0..MaxTickHeight
    /\ recorder.start_slot \in Slots
    /\ recorder.working_bank \in SUBSET MyLeaderSlots
    /\ recorder.num_hashes \in 0..(hashes_per_tick - 1)
    /\ recorder.remaining_hashes \in 1..hashes_per_tick
    /\ should_tick \in BOOLEAN
    /\ banks \in [Slots -> [parent : Slots, tick_height : 0..MaxTickHeight,
                            status : {"none", "active", "frozen"}]]
    /\ results \subseteq {"Ok", "MaxHeightReached", "MinHeightNotReached", "SendError"}
    /\ replay_pc \in {"has_bank", "active_banks", "reset", "start_leader", "set_bank"}
    /\ tpu_has_bank \in BOOLEAN

\* The assertions of maybe_start_leader and of reached_leader_slot hold: the
\* recorder has no bank, the parent is frozen, and the next tick is not before
\* the first one, although ticks arrive between the steps of the replay loop.
\* Nor do the counters leave their types: Poh::hash asserts that at least one
\* hash of the tick remains.
LeaderAssertions ==
    /\ TypeOK
    /\ replay_pc = "start_leader" /\ ~tpu_has_bank =>
           /\ recorder.working_bank = {}
           /\ reached_leader_slot =>
                  /\ banks[parent_slot].status = "frozen"
                  /\ recorder.tick_height + 1 >= recorder.start_tick_height

\* A record never comes too early, and never fails to reach the broadcast
\* stage while there is one: record_transactions panics on such an answer.
RecordsAreAnswered ==
    /\ "MinHeightNotReached" \notin results
    /\ "SendError" \in results => ~connected

\* A slot that the recorder has left is never continued and never started
\* again: two versions of a block would be a duplicate block.  Nor does its
\* bank get a tick once the replay loop has frozen it, as register_tick asserts.
SlotIsLeftForGood ==
    [][\A s \in Slots :
           /\ broadcast[s] # <<>> /\ recorder.working_bank # {s} =>
                  broadcast'[s] = broadcast[s] /\ recorder'.working_bank # {s}
           /\ banks[s].status = "frozen" => banks'[s] = banks[s]]_vars

============================================================================
