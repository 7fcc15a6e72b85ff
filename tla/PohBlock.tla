------------------------------ MODULE PohBlock ------------------------------
(***************************************************************************)
(* What a validator that replays a slot checks of the entries it received  *)
(* (verify_ticks in src/ledger/src/blockstore_processor.rs, with the       *)
(* counts of src/entry/src/entry.rs), of the blocks of PohRecorder.        *)
(***************************************************************************)
EXTENDS PohRecorder

tick_count(entries) == Cardinality({i \in 1..Len(entries) : entries[i].tick})

\* The hashes since the last tick after one more entry, -1 once a tick had the
\* wrong number.
add_hashes(n, entry) ==
    IF n < 0 THEN n
    ELSE IF ~entry.tick THEN n + entry.num_hashes
    ELSE IF n + entry.num_hashes = hashes_per_tick THEN 0 ELSE -1

hash_counts(entries) ==
    LET count[k \in 0..Len(entries)] ==
            IF k = 0 THEN 0 ELSE add_hashes(count[k - 1], entries[k])
    IN  count

tick_hash_count(entries) == hash_counts(entries)[Len(entries)]

\* verify_ticks of a validator that replays the slot accepts what was sent:
\* the ticks do not exceed the slot, no entry follows the last one, and every
\* tick took hashes_per_tick hashes.  The bank has registered the same ticks.
BlockVerifies ==
    \A s \in Slots :
        broadcast[s] # <<>> =>
            LET height == end_tick_height(banks[s].parent) + tick_count(broadcast[s])
                count == tick_hash_count(broadcast[s])
            IN  /\ height <= end_tick_height(s)
                /\ height = end_tick_height(s) => broadcast[s][Len(broadcast[s])].tick
                /\ count \in 0..(hashes_per_tick - 1)
                /\ connected => banks[s].tick_height = height

=============================================================================
