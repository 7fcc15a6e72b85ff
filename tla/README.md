# A TLA+ model of the Solana-MEV validator

Solana-MEV is a Solana validator that looks for arbitrage while it produces
blocks. This directory models two halves of it. The first is the block
production in which the MEV code lives: the account locks, the banking threads,
the cost limits, the arbitrage itself, the MEV log, and the Proof of History
recorder with the replay loop that hands it banks. The second is what the
validator does with the blocks of others: shreds in the blockstore, fork choice
among blocks that may have two versions, votes and lockouts across crashes, and
the tree of banks with its status cache and snapshots. TLC checks the models on
small instances. TLAPS proves the central properties for every value of the
constants.

`PROJECT.json` lists the components, the runs, the mutants that show that every
checked property can fail, the source lines behind every definition, the
hazards, the findings and the theorems.

## The system

| Part | State | Operations | Who runs it |
|---|---|---|---|
| Account lock table (`runtime/src/accounts.rs`) | write-locked accounts, read counts, one mutex | lock, unlock and drop a batch | every banking thread, simulations |
| Banking stage (`core/src/banking_stage.rs`) | packet buffer, batch, execution results, MEV transaction | scan, lock, check, load and execute, record, commit, unlock, retry | several threads |
| Bank (`runtime/src/bank.rs`) | tick height, accounts, status cache, freeze lock, hash | register a tick, commit, freeze | banking, PoH and replay threads |
| Cost tracker and QoS (`runtime/src/cost_tracker.rs`, `core/src/qos_service.rs`) | costs of the block, of its votes, of each account | reserve, update, remove | every banking thread |
| MEV scan (`runtime/src/mev.rs`, `runtime/src/mev/arbitrage.rs`) | none of its own: quotes on the loaded pools | quote every path, craft one transaction | the banking thread, inside execution |
| MEV log (`runtime/src/mev.rs`, `core/src/validator.rs`) | channel, file, the log thread | send, receive, exit | banking threads, log thread, main thread |
| PoH recorder and service (`poh/src`) | tick height, tick cache, working bank, hash count | hash, tick, record, reset, set bank | PoH thread, replay thread |
| Replay loop (`core/src/replay_stage.rs`) | its reading of `has_bank`, trackers of duplicate slots, progress | freeze, mark dead, apply signals, vote, purge, root, start a leader slot | one thread |
| Blockstore (`ledger/src/blockstore.rs`) | shred index, slot metadata, erasure sets, orphans, roots | insert a batch, recover, chain, clear a slot, set roots | window service, replay thread |
| Fork choice (`core/src/heaviest_subtree_fork_choice.rs`) | tree of blocks with stake, best block, validity | add a leaf, add votes, mark a fork, set the root | replay thread |
| Duplicate slots (`core/src/cluster_slot_state_verifier.rs`) | none of its own: decides what a signal changes | frozen, dead, duplicate, confirmed, sampled | replay thread |
| Tower (`core/src/consensus.rs`, `programs/vote/src/vote_state`) | votes with lockouts, root, last vote, the tower file | check, vote, refresh, restore | replay thread, main thread at a start |
| Voting service (`core/src/voting_service.rs`) | queue of votes | store the tower, send the vote | its own thread |
| Bank forks (`runtime/src/bank_forks.rs`) | banks, root, snapshot request | insert, remove, set the root, prune | replay thread |
| Status cache and blockhash queue (`runtime/src/status_cache.rs`, `blockhash_queue.rs`) | statuses by blockhash and slot, ages | look up, insert, forget, save, reload | every thread with a bank |
| Snapshots (`runtime/src/snapshot_utils.rs`, `accounts_background_service.rs`) | newest archive | archive a root, load | background service, main thread at a start |

They meet as follows. A banking thread takes packets from its buffer, reserves
their costs, locks their accounts, executes them, and asks the PoH service to
record what was executed. It commits only what was recorded, between taking and
dropping a read guard of the bank's freeze lock. After each executed transaction
that calls a watched program it scans the configured pools. The best transaction
found is processed as a batch of its own, after the first batch was unlocked. The
PoH service ticks the bank. With the last tick of the slot the recorder lets the
bank go, and the replay loop freezes it and may start the next leader slot.

Blocks of other leaders come as shreds. The blockstore stores and recovers them,
chains slots to their parents and signals the replay loop, which makes a bank of
each slot on a frozen parent, replays it, and gives it to fork choice. News about
slots with two versions comes from gossip, from samples of other validators and
from votes, in any order. The loop votes on the heaviest bank its tower allows,
the voting service saves the tower and sends the vote, and the vote that falls
off a full tower becomes the new root, in the blockstore, in the bank forks and
in fork choice. After a crash the validator starts from a snapshot, the
blockstore and the tower file, none of them written in step with the others.

### What is hard

- Two threads want the same accounts, and a monitored transaction locks accounts
  its message does not name. Refused and granted transactions share a batch, and
  the unlock must tell them apart from their errors alone.
- The last tick, the freeze and a commit are decided by three threads.
- The same packet can be in two buffers. The same MEV transaction can be crafted
  twice.
- Other threads swap on the pools between the scan and the arbitrage.
- Reservations of costs and their settlement interleave between threads.
- The replay loop decides to start a leader slot from a value it read some ticks
  ago, and a bank can come late, when its ticks are already in the cache.
- Threads are stopped in an order that lets one of them talk to another that is
  gone.
- Shreds arrive in any order, repeated, in two versions or never, and a child may
  come long before its parent.
- A slot has two versions. The one replayed may be the wrong one, and the news of
  it comes before, during or after its replay.
- The process dies between two writes: the tower and the vote, the tower and the
  roots, the metadata of a slot and that of its parent.
- One status cache serves every fork and forgets by roots, while a blockhash ages
  by blocks. A forgotten status lets a transaction run twice.

The full list, with the line where each one bites and the property that would
notice, is `hazards` in `PROJECT.json`.

## Modules

| Module | Models | Notes |
|---|---|---|
| `LockSets` | lock set of a transaction, MEV keys included | pure operators, shared |
| `BatchLocks` | abstract: a batch is locked and unlocked in one step | what the callers rely on |
| `AccountLocks` | the loops over the table under its mutex | implements `BatchLocks` |
| `AccountLocksProofs` | proofs about `AccountLocks`, its refinement of `BatchLocks` among them | |
| `Transactions` | what a commit writes | an account's value is the sequence of its writers |
| `Ledger` | abstract: a block executed entry by entry | what replay relies on |
| `BankingStage` | the threads, the bank, ticks and freeze in one slot | built on `BatchLocks`, implements `Ledger` |
| `BankingStageProofs` | proofs of the types of `BankingStage`, that no commit meets a freeze, and that MEV transactions follow their trigger | |
| `BankingBlockProofs` | proofs that no packet is lost, and that `BankingStage` implements `Ledger` | |
| `CostTracker` | the tracker as operators | u64 arithmetic, saturating |
| `QosService` | threads that reserve and settle | built on `CostTracker` |
| `TokenSwap` | the constant-product swap program | external to the repository |
| `MevArbitrage` | scan, MEV transaction, its execution hop by hop | built on `TokenSwap` |
| `MevArbitrageProofs` | proofs about `MevArbitrage` | |
| `MevLog` | channel, log thread, shutdown | |
| `MevLogProofs` | proofs about `MevLog` | |
| `PohRecorder` | recorder, PoH service, the replay loop around it | |
| `PohBlock` | `verify_ticks` of the validators that get the block | checks what `PohRecorder` broadcasts |
| `PohRecorderProofs` | proofs about `PohRecorder` and the blocks it broadcasts | |
| `ForkTree` | fork choice as operators on its map | |
| `DuplicateSlots` | the handlers of the replay loop that feed it | built on `ForkTree` |
| `Tower` | votes, lockouts, tower file, crash and restart | |
| `TowerProofs` | proofs that no signed vote is sent before its tower is saved, and that roots are confirmed | |
| `TowerSafetyProofs` | proofs that lockouts are kept through crashes, and of what an assertion can fail | |
| `StatusCache` | status cache and blockhash queue as operators | |
| `BankForks` | banks, roots, purges, snapshots, restart | built on `StatusCache` |
| `Blockstore` | insertion, recovery, chaining, clearing of slots | |
| `MC*` | the instances for TLC | |

Variables and actions keep the names of the code. Each step of an action model
is one call that other threads can see as indivisible: a section under a mutex
or a read-write lock, or a message sent or received. Where the code holds a lock
over several calls, the guard of that lock is a variable (`mutex`,
`freeze_readers`, `freeze_writer`).

**`AccountLocks`.** `write_locks` and `readonly_locks` are the two maps of the
table. `phase` and `pos` say how far a thread is in its loop. A simulation batch
takes no locks and has `needs_unlock` false.

**`BankingStage`.** `pc` walks through `process_and_record_transactions`. `view`
is the loaded accounts. `store` is the accounts database: stored values become
visible when the code stores them, in two places (`store_cached`, and the fee
withdrawal after it). `ledger` is the sequence of recorded entries. Executing a
transaction may give any of its `Outcomes`. A MEV transaction may be found
whenever one with MEV keys was executed, successful or not, as in the code.

**`QosService`.** Both loops of the code hold the tracker's write lock, so each
is one action. The execution consumes any of the `Units` of a transaction, more
than estimated included.

**`MevArbitrage`.** One banking thread. Swaps of other threads happen whenever
this thread does not hold the pool's locks. The authority's key may be configured
or not (`user_authority`). Fees and rounding are those of the swap curve. The
optimal input is computed in floating point in the code, and is any of
`OptimalInputs` here.

**`PohRecorder`.** The methods of the recorder are functions on a record that
holds it, so that a call inside a call (a tick that flushes the cache and clears
the bank) is part of one action. The replay loop takes its steps in the order of
the code: read `has_bank`, freeze complete banks, reset, start the leader slot.

**`ForkTree` and `DuplicateSlots`.** A block is a slot and a hash.
`process_update_operations` visits the blocks from the largest key down and
applies to each its operations in the order of `UpdateLabel`, as the code's
ordered map does. `latest_invalid_ancestor` is a slot, as in the code. Every
handler of the replay loop is an action, and the handlers interleave freely,
which allows more orders than the loop takes. `panicked` records a failed
assertion. Stake is the same in every epoch. Votes seen in gossip only, the
updates for the ancestor hashes service, and the time in which a bank is being
replayed are left out. `process_duplicate_slots` waits while a leader bank is
set, which is one of the orders. A sample may report another version of a slot
than the one the cluster confirms. `Contested` names the blocks on the fork of
such a confirmation. There the code keeps the request to repair the sampled
version, and `dump_then_repair_correct_slots` purges banks that are confirmed. A
block under the purged one then becomes a candidate again without a bank, and the
record of the confirmation is gone. `CandidatesAreReplayed` and
`ConfirmationsArePersisted` are stated with that exception; the other properties
need none.

**`Tower`.** A block is its slot. `promised` records, per slot, how long the
votes sent so far lock the validator out on other forks; the code has no such
variable, the cluster does. The stake behind the threshold is the constant
`Supermajority`, and whether there is a switching proof is free. Banks that are
still being replayed are `active`; `BankForks::ancestors` lists them with the
frozen ones. Each vote may or may not be `signed`: `generate_vote_tx` returns no
transaction before `wait_to_vote_slot`, for a missing or foreign vote account, and
without the keypair of the authorized voter, which an operator can remove and add
at run time. Such a vote stays in the tower, is not saved, and can be sent later by
`refresh_last_vote`. `durable` is the part of `promised` that votes signed when
they were recorded made. A turn of the replay loop that fails an assertion is the
action `select_vote_and_reset_forks`, which sets `panicked`. A
crash may lose the end of the blockstore, slots and roots separately, since its
writes are not ordered with those of the tower file, which is replaced by a
rename. A restart replays the ledger from slot 0. The feature
`direct_vote_state_update` is taken as inactive, and slots too old for the slot
history do not occur.

**`StatusCache` and `BankForks`.** The last blockhash of a slot is the slot. A
status is filed under message hash and signature in the code and once here.
`slot_history` is the sysvar a restart verifies the deltas with. Rooted banks
stay in `bank` for the properties, as `banks` says which of them the code still
holds. `set_root` squashes the newest bank whose height is a multiple of the hash
interval, asks for a snapshot of the new root with the deltas of that moment, and
then squashes the rest. Durable nonces are left out. Incremental archives take
the path of full ones and only full ones are modelled. A slot pruned with a dead
fork is not replayed in another version, and after a restart a slot may be
replayed with other contents, which allows more than the code.

**`Blockstore`.** An insertion is one write batch under one lock and therefore
one action. Its working set is a record, and each function of the code is a
function on it. The order in which the hash map yields the slots to chain is
free. `clear_unconfirmed_slot` makes three writes, and a crash may come between
them. Each version of a slot has one erasure set. The callback for repeated
shreds, the statistics and the dead mark of replay are left out.

## What is checked

Run one with `tlc -workers 2 -config <cfg> <module>`.

| Run | Config | Instance | Shows |
|---|---|---|---|
| `locks` | `MCAccountLocks.cfg` | 2 threads, batches of up to 2 of 4 transactions, one extracting and one monitored pool | `MutualExclusion`; `LockTableExact`; `LocksAreAtomic`, the refinement of `BatchLocks` |
| `banking` | `MCBankingStage.cfg` | 2 threads, 3 packets (one of them in both buffers), cost errors, a MEV transaction | `CommitBeforeFreeze`; `NothingLost`; `MevFollowsTrigger`; `BlockIsSequential`, the refinement of `Ledger` |
| `banking_live` | `MCBankingLive.cfg` | the same with an expiring packet, one that cannot be sanitized, 2 ticks | `CompleteIsFrozen`, `SlotEnds` under fairness |
| `qos` | `MCQosService.cfg` | 2 threads, a vote, a payment that can cost more than estimated, an account creation | `CostsAreExact`; `AdmittedWithinLimits` |
| `arbitrage` | `MCMevArbitrage.cfg` | 5 pools, one without our accounts and one with host fees, two cycles of 2 hops and one of 3, an authority or none, 2 swaps of others | `NoLoss`; `ExecutesAsQuoted`; `OpportunitiesAreLogged` |
| `mev_log` | `MCMevLog.cfg` | 2 threads, writes may fail, exit at any time | `LogIsCausal`; `PanicHasCause`; `ShutdownEnds` under fairness |
| `poh` | `MCPohRecorder.cfg` | slots 0 to 3, two consecutive leader slots, 2 ticks of 3 hashes, 2 records | `BlockVerifies`; `LeaderAssertions`; `RecordsAreAnswered`; `SlotIsLeftForGood` |
| `duplicates` | `MCDuplicateSlots.cfg` | 6 blocks in 5 slots, one slot in two versions, a sample against a confirmation, 2 validators | `WeightsExact`; `BestIsHeaviest`; `CandidatesAreReplayed`; `ClusterVersionWins`; `MarksFitTree`; `ConfirmationsArePersisted`; `NoPanic` |
| `tower` | `MCTower.cfg` | 9 slots on two forks, towers of 3 votes, votes signed or not, one bank under replay, 1 crash | `LockoutsAreKept`; `VotesAreSaved`; `RootIsConfirmed`; `PanicsOnlyUnsynced` |
| `bank_forks` | `MCBankForks.cfg` | 6 slots, one with two possible parents, 2 transactions, caches of 2 entries, 1 restart | `StatusIsExact`; `NoPanic`; `ArchiveLoads` |
| `blockstore` | `MCBlockstore.cfg` | 4 slots, one in two versions, data sets of one and of two shreds, batches of 2 shreds, 1 crash | `MetaMatchesIndex`; `LinksAreExact`; `DataSetsOnce`; `NothingToRecover`; `ReplayIsSignalled` |

The types are proved for `AccountLocks`, `BankingStage`, `MevArbitrage`, `MevLog`,
`PohRecorder` and `Tower` (see the theorems). In all but the locks and the MEV modules
`TypeOK` is a conjunct of the invariant that its bounds belong to: `NothingLost`,
`CostsAreExact`, `LeaderAssertions`, `MetaMatchesIndex`, `PanicsOnlyUnsynced` and the
two `NoPanic`.

One more run, `qos_mev`, shows a place where the code does something else than a
comment says: a MEV transaction that fails is not recorded but is settled as
committed, so its cost stays in the tracker, while `qos_service.rs` says that the
settlement prevents exactly this.

Eight more disagreements can be reproduced, each with the configuration named.
TLC ends each of them with a counterexample.

- `MCMevMonitor.cfg`, module `MCMevArbitrage`, property
  `MonitoredWithoutAuthority`: without an authority, opportunities on fully
  configured pools are not logged. `README.md` of the repository says at line 163
  that the validator then only monitors. `OpportunitiesAreLogged` of the run
  `arbitrage` says which paths are logged.
- `MCMevMaxProfit.cfg`, module `MCMevArbitrage`: when the most profitable path
  carries no transaction, no transaction is returned, although another path has
  one.
- `MCMevLogExit.cfg`, module `MCMevLog`: the log thread is told to exit before
  the banking threads are joined, so a report of an executed transaction can find
  the channel closed.
- `MCDuplicatesExcluded.cfg`, module `MCDuplicateSlots`: a slot with a duplicate
  proof and a sample of the version replayed is votable when it freezes, although
  no version is confirmed. A comment in `select_vote_and_reset_forks` says that
  the heaviest fork never descends from a known unconfirmed duplicate.
- `MCTowerUnsigned.cfg`, module `MCTower`, property `EveryVoteIsSaved`: a vote
  that could not be signed is recorded in the tower and neither saved nor sent. A
  later refresh, when it can be signed, sends it without saving.
  `docs/src/running-validator/validator-failover.md` says at line 98 that the
  tower is written before a vote is submitted. After a crash the lockouts of such a
  vote are forgotten.
- `MCTowerFuture.cfg`, module `MCTower`, property `RootIsAncestor`: with a tower
  that is newer than the ledger, the assertion at the end of `is_locked_out`, "This
  case should never happen", fails for a replayed bank that does not descend from
  the root of the tower.
- `MCTowerReplay.cfg`, module `MCTower`, property `AncestorsAreFiltered`: a
  restored last vote whose bank is being replayed again is listed by
  `BankForks::ancestors`, but is no frozen descendant of its parent. The parent is
  then a candidate of `check_switch_threshold`, where the assertion at
  `consensus.rs:819` fails. The comment before it says that ancestors of the last
  vote have been filtered out.
- `MCBlockstoreCrash.cfg`, module `MCBlockstore`: a crash between the writes of
  `clear_unconfirmed_slot` loses the slot's `next_slots`, which its comment
  promises to keep, so the stored children are not found again.

Smaller differences were seen while modelling. The comment before
`commit_transactions` in `banking_stage.rs` equates executed and committed
transactions, which a failed MEV transaction breaks. The last swap of a MEV
transaction has the initial amount as its minimum, so one that was crafted with
the minimum profit can land with less when the pools moved. The comment in
`flush_cache` says that a bank whose slot was over before it was set broadcasts
no ticks, and the code broadcasts them. The comment before
`reconcile_blockstore_roots_with_tower` says that the tower is saved before the
roots are set, and `handle_votable_bank` sets the roots first. `is_connected` is
documented in `blockstore_meta.rs` as including that the slot is full, which the
code does not require. In `check_add_vote` a vote for a second version of the
slot voted on last enters the set of new votes as one for slot 0 and is dropped.

Statements after a crash are weaker where the code is: the links
and the connected slots of `LinksAreExact`, and `ReplayIsSignalled`, speak of
behaviours without a crash inside `clear_unconfirmed_slot`. `NothingToRecover` excuses a slot one
version of which is below the root: a rejected shred of that version decides the
parent with which the recovered shreds of the batch are checked (a TODO in
`should_insert_data_shred` asks about it).

### Bounds

- Two threads are enough for every conflict in the locks, the freeze and the
  tracker: each involves one thread's step between two steps of another. The
  proofs for any number of threads confirm it for the locks, the freeze, the
  packets, the MEV transactions and the order of the block.
- Batches of two hold the interesting mixes: one transaction refused and one
  granted, or two that conflict with each other.
- `MaxSwaps` bounds the steps of others around one arbitrage; two allow one to
  create the opportunity and one to spoil it. The runs with such a bound say
  `CHECK_DEADLOCK FALSE`, since the model stops where the bound is reached.
  So do the slot models, since a slot ends, and the log, since a validator does.
- `LastSlot` and `MaxRecords` bound the recorder. Slots 0 to 3 allow a slot led
  by another validator before, between or after our own, a skipped slot, and a
  reset onto an older parent. Two ticks per slot tell first and last tick apart.
  Three hashes per tick with a batch of two reach the record at the last hash.
  The same properties also hold with leader slots 1 and 3 apart and
  `NUM_CONSECUTIVE` 1, in 1.4 million states.
- Six blocks let a vote move from a block to its descendant across a fork, and let
  a wrong version be replayed, purged, and replaced by the right one. The cluster
  confirms one chain, as it does with less than a third of the stake faulty; a
  sample may contradict it on slot 3. No vote for the second version of slot 1
  occurs, so of `check_add_vote` the branch for a smaller hash is not reached.
- Towers of 3 votes with threshold depth 2 fill up on both forks. `MaxCrashes` 1
  restores every tower from every loss of the blockstore once; `MCTowerFuture.cfg`
  and `MCTowerReplay.cfg` take 2. `MaxQueued` 1 lets a vote wait while the tower
  moves on, and `MaxActive` 1 keeps a bank under replay during a vote. The proofs
  about `Tower` hold for every value of these bounds.
- Caches of 2 entries make the status cache and the blockhash queue forget within
  6 slots, and the snapshot intervals of 2 make a root jump over a snapshot bank.
- Two shreds in a batch reach a recovery and a repeated shred in one insertion,
  and two slots chained in one insertion. Slot 2 is one data set of two shreds and
  slot 3 has a set of one in both versions, so a shred may end a set or not.
- `U64_MAX` is 100 in the cost model. The costs stay below it, so saturation is
  modelled and the run shows that it does not happen.

Symmetry is used for the threads of the lock table only, whose actions and
properties treat all threads alike.

### Fairness

`FairBankingSpec` assumes weak fairness of each banking thread, of the tick, and
of the freeze. The operating system schedules the threads, the PoH service ticks
in a loop that nothing blocks for ever, and the replay loop freezes every
complete bank it finds. No fairness is assumed of the reset. A waiting writer of
the freeze lock needs only weak fairness here, because after the last tick each
thread can take the lock a bounded number of times. `FairSpec` of the log assumes
the same of each thread. Nothing obliges the validator to exit.

## What is proved

| Theorem | Module | Statement |
|---|---|---|
| `LockTypes` | `AccountLocksProofs` | `Spec => []TypeOK` |
| `LocksExclude` | `AccountLocksProofs` | `Spec => []MutualExclusion` |
| `LocksExact` | `AccountLocksProofs` | `Spec => []LockTableExact` |
| `LocksRefine` | `AccountLocksProofs` | `Spec => LocksAreAtomic` |
| `MevTypes` | `MevArbitrageProofs` | `Spec => []TypeOK` |
| `MevMakesNoLoss` | `MevArbitrageProofs` | `Spec => NoLoss` |
| `MevExecutesAsQuoted` | `MevArbitrageProofs` | `Spec => ExecutesAsQuoted` |
| `CommitsBeforeFreeze` | `BankingStageProofs` | `BankingSpec => []CommitBeforeFreeze` |
| `MevFollows` | `BankingStageProofs` | `BankingSpec => []MevFollowsTrigger` |
| `BankingTypes` | `BankingStageProofs` | `BankingSpec => []TypeOK` |
| `PacketsKept` | `BankingBlockProofs` | `BankingSpec => []NothingLost` |
| `BlockReplays` | `BankingBlockProofs` | `BankingSpec => BlockIsSequential` |
| `SentVotesAreSaved` | `TowerProofs` | `Spec => []VotesAreSaved` |
| `RootsAreConfirmed` | `TowerProofs` | `Spec => []RootIsConfirmed` |
| `LockoutsKept` | `TowerSafetyProofs` | `Spec => LockoutsAreKept` |
| `PanicsAreUnsynced` | `TowerSafetyProofs` | `Spec => []PanicsOnlyUnsynced` |
| `LogCausal` | `MevLogProofs` | `Spec => []LogIsCausal` |
| `PanicCaused` | `MevLogProofs` | `Spec => []PanicHasCause` |
| `LeaderMayStart` | `PohRecorderProofs` | `Spec => []LeaderAssertions` |
| `RecordAnswers` | `PohRecorderProofs` | `Spec => []RecordsAreAnswered` |
| `SlotIsLeft` | `PohRecorderProofs` | `Spec => SlotIsLeftForGood` |
| `PohBlocksVerify` | `PohRecorderProofs` | `Spec => []BlockVerifies` |

Check them with `tlapm <module>.tla`. `PohRecorderProofs` takes about 20 minutes,
`BankingBlockProofs` and `TowerSafetyProofs` somewhat less. Most leaves name Zenon as
their prover: in modules of this size it does the steps without arithmetic faster
and more reliably than SMT.

**Locks.** Assumed: finitely many threads, a positive batch size, and the types
of the configuration. `MutualExclusion` and `LockTableExact` need each other: a
lock is granted by looking at the table, so exclusion holds only if the table
tells the truth, and an unlock removes a write lock from the table, which is
right only if no one else holds it. The inductive invariant `LockInv` joins both
with the types and with what the loops know of their batch
(`BatchBookkeeping`). A step either leaves the set of holders alone, adds one
holder, or removes one (`NoChange`, `Grant`, `Release`).

**Refinement of the locks.** The abstract step happens when the loop ends and the
mutex is released. Until then the loop has decided about a prefix of the batch.
`GreedyInv` says that this prefix is decided as the abstract specification
decides it, against the batches in force, which cannot change while the mutex is
held.

**Arbitrage.** Assumed: the types of pools, fees and paths, and that each path is
a cycle whose hops fit together. The lemmas about `TokenSwap` show that a swap
takes at most what it is asked to and keeps balances natural numbers. `LossFree`
is the inductive invariant. During the execution, the loaded balances cover the
committed ones, once the input of the path is added back and the output of the
last finished hop is set aside. It holds because each hop must produce at least
the input of the next one. At the end the minimum of the last hop, which is the
initial amount, closes the account.

**Quotes.** Nothing is assumed further. `QuoteInv` keeps with the best transaction
what its scan knew: every amount is what the swap program pays for the one before
it on the scanned pools, none of them is zero, and the first is within the scanned
balance. `RunInv` says that the pools the transaction has not come to yet are as
they were when it locked them, which is where a path that visits no pool twice is
needed. If nothing was disturbed since the scan, the loaded pool of the next hop is
the scanned one, so the hop pays its quote and cannot fail. The last one leaves the
quoted profit in the wallet.

**Freeze.** Assumed: a positive number of ticks. `FreezeInv` says that a thread
between the record and the end of its commit is a reader of the freeze lock, that
the writer excludes readers, and that a freeze has begun only on a complete bank.
A record needs the recorder's working bank, which is gone with the last tick. So
no thread begins to commit once the bank is complete, and those that began
earlier keep the writer out. This is the argument of the comment in
`Bank::freeze`.

**MEV transactions.** Assumed: the types of the configuration, and
`CraftedAssumption`, that no received packet is one of the transactions the scan
crafts. `MevInv` says of each thread that a normal batch holds no MEV
transaction, that a scan which found one executed a trigger, and that from the
record on the block is `Triggered`: it has an entry with a trigger, or the
recorder has no bank any more. The second case is needed because the MEV batch is
processed even if the batch of its trigger came too late for the block; it is
harmless because then nothing more is recorded.

**Packets.** Assumed: the types of the configuration. `KeptInv` says where each
packet of a thread is (`PacketPlaces`) and why a transaction of its batch was
refused, not executed or not recorded (`BatchReasons`). `retryable` is empty
whenever a normal batch ends, so that overwriting it loses nothing, and the status
cache holds recorded transactions only, so that a packet found there need not be
kept. `BatchSettled` is the heart of it: every transaction of a batch that ends is
in the block, may be dropped, or is among `RetryableIndexes`. A MEV batch has one
transaction, so that what it executed is what it recorded once it recorded
anything.

**Refinement of the ledger.** The abstract accounts are the stored ones with the
writes that are recorded and not yet stored (`LedgerState`). A record is the
abstract `Record`, the store and the fee withdrawal after it leave the abstract
state alone, and the freeze is the abstract `Freeze`. `SeqInv` is the inductive
invariant, on top of `KeptInv` and `FreezeInv`. Transactions in flight share no
account that one of them writes (`LocksApart`), so at most one write to an account
is recorded and not stored, and what a thread read under its locks is still what
is stored when it records (`SeqThread`). A recorded transaction is in the status
cache or its thread is still to put it there, under its locks (`Covered`); the
check comes after the locks, so no transaction is recorded twice, even if its
packet was in two buffers. When the freeze holds its lock, no thread is between
record and store, so the hash covers every entry.

**Saved votes.** Assumed: the types of the tree of slots. Votes may be recorded
unsigned at any time; the theorem is about those that were signed when recorded,
and `MCTowerUnsigned.cfg` shows why it cannot be about all. `SavedInv` is the
inductive invariant. Behind the tower file comes the queue, in order: each queued
vote is no older than the one before it, a pushed vote is signed and brings its own
tower, and a refresh of a signed vote repeats the vote right before it, which was
pushed or is the one the file has. The tower in memory has the newest vote of all,
or has no votes and a root that is not older. If its last vote was signed, the queue
ends with it, or the file has it. A restart empties the queue and either keeps the
last vote of the file or replaces it by a root that is as new. So whatever is sent
and was signed when recorded is in the file.

**Ancestors.** The three other theorems about `Tower` need to know what `Above`
is. The lemmas `AboveStep` and `ParentInduction` get it from the tree of slots
alone: an ancestor is older, ancestors of ancestors are ancestors, and of two
ancestors of a slot the older is an ancestor of the other. The induction is that
of the well-founded order on numbers, over a set of slots.

**Roots.** Assumed further: the slots that have a supermajority are closed under
ancestors, as a vote counts for every ancestor of its slot, and they are one
chain. Also that 2 to the power c grows with c (`PowerAssumption`), which the
provers do not know. `RootInv` says that every tower, in memory, in the queue and
in the file, is `Sound`: a vote that is `VOTE_THRESHOLD_DEPTH` deep, or was
confirmed more often than that, has the supermajority. `check_vote_stake_threshold`
looks at one vote only. It is enough because the votes below it were checked when
they were at that depth, and because a vote whose confirmations already exceed the
depth was deeper once, before expired votes above it were popped. A root is deeper
than the threshold. A restart moves the root along the same chain and cuts votes
off at the old end, which keeps a tower sound.

**Lockouts.** Nothing is assumed further. The towers in the file, in the queue and
in memory are ordered in time, and `KeptInv` says that each one `Keeps` what the
one before it promised: a promise about a slot is past, or is made again by a vote
that is still there, or is about an ancestor of the root. `Keeps` is transitive, a
vote makes it true, and so does the adjustment at a restart (`VoteKeeps`,
`RestoredKeeps`). Two kinds of promises are told apart. Those of votes signed when
recorded (`durable`) are covered by the file. Those of a vote that was recorded
unsigned and refreshed are covered by every tower still to be sent, and by the one in
memory, until the process ends. The votes of a tower are all on one chain
(`OneChain`), and the vote that is sent is the last one of its tower. So a promise
that is not past is about a slot of that chain.

**Panics.** `PanicInv` adds to `RootInv` what the assertions need. The frozen banks
reach without gaps from every leaf down to the root of `BankForks` (`BanksInv`), so
that the bank of a new root exists and a leaf is never below the last vote. The last
vote is frozen, stray or forgotten (`LastVoteInv`). The votes in memory are on one
fork and not below the root of the tower (`BranchInv`). The root of the tower is
that of `BankForks`, or is ahead of it and all votes descend from it (`ForksInv`).
With the first, every bank that is not locked out descends from the root of the
tower, so `is_locked_out` can only fail with the second. A candidate of
`check_switch_threshold` that is an ancestor of the last vote has no frozen
descendant, so the last vote is a bank under replay, and is stray. A tower in the
file has its votes in order, on one chain and not below its root, from which it
follows that it is consistent with the history of any root a restart may arrive at
(`StorableIsConsistent`). `MCTowerFuture.cfg` and `MCTowerReplay.cfg` show that the
two remaining causes do occur.

**Log.** Assumed: nothing but the types. `LogInv` follows a message on its way:
a thread about to send a later message has sent the earlier ones, every message
in the channel has those it follows in the file or before it in the channel, and
so has every message in the file. The channel is closed only by a log thread that
ended, which it does after a failed write or after `Exit`.

**Recorder.** Assumed: `PohAssumption`, that slots, ticks and batches are not
empty, a tick has at least two hashes, and slot 0 is not ours. `PohInv` is the
inductive invariant. A recorder with a bank has cached exactly the ticks that its
bank does not have yet (`Aligned`), and has not reached the end of the slot. A
recorder without a bank has cached the ticks after the bank it would build on,
which is complete, and frozen once the replay loop has passed it. This holds only
while the recorder may still be given a bank (`MayLead`): after a failed send it
gives up its bank with ticks missing, and only the exit of the replay loop keeps
it from building on that. Each method is first shown to go on with the slot,
leave it complete or give it up (`Effect`), in the order in which the methods
call each other (`FlushTicks`, `PohTickLeading`, `RecordEntry`); the actions
follow from that. A slot that was left is not started again, because a bank is
made only for a slot without one, and a slot with entries has one.

**Blocks.** Assumed: `PohAssumption` again. `BlockVerifies` alone says nothing of
the ticks that are cached and not sent, so it is not inductive. `BlockInv` adds
them. The block sent so far, the first tick that is not sent and the hashes
counted towards it together make `hashes_per_tick` (`FullFrom`), and each later
cached tick makes them alone (`FullTicks`). The bank's tick height is the height
of the block (`Registered`). A flush sends the cached ticks up to the end of the
slot: the first completes the count of the block, the others return it to zero,
and the last entry is a tick if the slot is full (`FlushBlock`). A record adds its
hashes to the block and takes them from the tick under way, and is refused when
that tick has only its last hash left, so that the count stays below
`hashes_per_tick` (`RecordOnceBlock`). What `verify_tick_hash_count` computes over
a sequence of entries is a recursive function. `HashesOfAppend`, `HashesOfTicks`
and `TicksOfTicks` say what one more entry or a run of ticks does to it; the
induction in them takes the least counterexample of a set of numbers
(`Reaches`). TLC checked `BlockInv` on both leader schedules before it was proved.

Only model-checked:

- The liveness properties, which are beyond this prover.
- `OpportunitiesAreLogged`. It is about the pools of the instance and not true of
  all: fees are rounded down, so with tiny amounts a quote can beat the marginal
  price that the scan compares with one. Paths through a pool with host fees are
  excepted, as only the price counts those.
- `CostsAreExact` and `AdmittedWithinLimits`, `WeightsExact` and `BestIsHeaviest`.
  They are about sums over sets that every step changes in several places, and the
  first two hold only while no sum reaches `u64::MAX` and no MEV transaction fails
  (`qos_mev`).
- The other properties of `DuplicateSlots`, those of `BankForks` and those of
  `Blockstore`. Their operators walk trees, chains and caches by folds and
  recursion, and what those compute for every input needs an induction over data
  for each of them.

## What is not modelled

The computation inside the virtual machine, signatures, serialisation, the
erasure code and sockets are input and output or pure data. The configuration
parser and the metrics have no state the properties tell apart. The accounts
database behind `store` and the packet buffer behind `buffer` appear by what they
promise. Gossip and repair appear as the signals and shreds they may deliver, in
any order. The parallel replay of a block's entries, epochs, rent and rewards,
the ledger clean-up and the RPC services are not part of the models.
`components` in `PROJECT.json` gives the state of each part.

In `PohRecorder`, `would_be_leader` and the leader's timing metrics are left out.
In `BankingStage`, forwarding of packets is left out, and a thread may find its
time is up after any batch. In `Tower` and `BankForks`, the banks that `set_root`
keeps below the root for the highest confirmed root are left out; `DuplicateSlots`
has them. A banking thread that commits to a leader bank while the replay loop
purges its slot would need `BankingStage` and `BankForks` in one model. In
`Tower`, a loss of the tower file itself by the operating system is not modelled:
the code does not defend against it.

## Plan

1. `CostsAreExact` by proof, for costs that do not reach `u64::MAX`: the tracker's
   totals as sums over what is reserved and what is settled.
2. Replay of a block (`blockstore_processor.rs`), composed with `PohRecorder`:
   what the leader broadcasts is accepted and gives the same bank.
3. The accounts database: flush, clean and shrink against readers.
4. `Blockstore` with repair: what is requested for orphans and gaps, and that
   every slot the cluster confirms is in the end full.
