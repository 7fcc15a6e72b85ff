--------------------------- MODULE MevArbitrage ---------------------------
(***************************************************************************)
(* One banking thread looking for arbitrage (src/runtime/src/mev.rs,       *)
(* mev/arbitrage.rs, the scan in Bank::load_and_execute_transactions and   *)
(* the MEV batch in BankingStage::process_transactions).  After each       *)
(* monitored transaction of a batch the configured paths are quoted on the *)
(* post-transaction pools; the best transaction of the batch is executed   *)
(* as a batch of its own after the first one was unlocked, so that other   *)
(* threads may swap on the same pools in between.                          *)
(***************************************************************************)
EXTENDS TokenSwap, Functions

CONSTANTS
    HostFee,            \* [Pools -> Nat]
    Source,             \* the pools with a configured `source` account
    Destination,        \* the pools with a configured `destination` account
    MinimumProfit,      \* [Tokens -> Nat]
    InitialPools,
    InitialWallet,      \* [Tokens -> Nat]: the authority's token accounts
    OptimalInputs,      \* the values floor(optimal_input) may take
    UserAmounts,        \* the amounts of other users' swaps
    MaxSwaps            \* bound on the swaps and transfers of others

ASSUME MevAssumption ==
    /\ HostFee \in [Pools -> Nat]
    /\ Source \subseteq Pools
    /\ Destination \subseteq Pools
    /\ MinimumProfit \in [Tokens -> Nat]
    /\ InitialPools \in PoolStates
    /\ InitialWallet \in [Tokens -> Nat]
    /\ OptimalInputs \subseteq Nat
    /\ UserAmounts \subseteq Nat \ {0}
    /\ MaxSwaps \in Nat

VARIABLES
    user_authority, \* a user_authority_path is configured
    pools,          \* the committed balances of the pools
    wallet,         \* the committed balances of the authority's accounts
    pc,             \* "Idle", "Batch", "ReadBatch", "Mev" (between the batches), "Run"
    outputs,        \* the MevTxOutputs of the last scan, by path index
    logged,         \* the last Opportunities message: a set of path indexes
    best,           \* mev_sanitized_tx_profit, see NoTx
    hop,            \* the next instruction of the executing MEV transaction
    loaded_pools,   \* its loaded accounts
    loaded_wallet,
    swaps           \* counts the steps of others

scanVars == <<outputs, logged>>
runVars == <<hop, loaded_pools, loaded_wallet>>
vars == <<user_authority, pools, wallet, pc, outputs, logged, best, hop, loaded_pools, loaded_wallet, swaps>>

\* best = NoTx stands for None.  The fields seen_pools and seen_wallet are
\* history: the state the quote was computed from.
NoTx == [path |-> 0, amounts |-> <<>>, profit |-> 0,
         seen_pools |-> InitialPools, seen_wallet |-> InitialWallet]

NotRunning ==
    /\ hop = 0
    /\ loaded_pools = InitialPools
    /\ loaded_wallet = InitialWallet

Init ==
    /\ user_authority \in BOOLEAN
    /\ pools = InitialPools
    /\ wallet = InitialWallet
    /\ pc = "Idle"
    /\ outputs = <<>>
    /\ logged = {}
    /\ best = NoTx
    /\ NotRunning
    /\ swaps = 0

----------------------------------------------------------------------------
(* The scan.                                                               *)

\* Mutant: the ratio of a hop upside down.
InvertedPrice(path, states) ==
    LET Step(pair, acc) == <<acc[1] * balance_from(states, pair), acc[2] * balance_to(states, pair)>>
        price == FoldFunction(Step, <<1, 1>>, path)
    IN  price[1] > price[2]

\* get_path_calculation_output returns Some: the marginal price, the product
\* of the ratios and the fees along the path, is above one.
price_above_one(path, states) ==
    LET Step(pair, acc) ==
            <<acc[1] * balance_to(states, pair)
                * (FeeDenominator - HostFee[pair.pool] - OwnerFee[pair.pool] - TradeFee[pair.pool]),
              acc[2] * balance_from(states, pair) * FeeDenominator>>
        price == FoldFunction(Step, <<1, 1>>, path)
    IN  price[1] > price[2]

\* Mutant: the input is not capped.
UncappedInput(path, input, balances) == input

\* The optimal input, capped by our balance of the token that starts the path.
initial_amount(path, input, balances) ==
    LET first == path[1]
        known == first.pool \in (IF first.direction = "AtoB" THEN Source ELSE Destination)
        balance == balances[source_mint(first)]
    IN  IF known /\ balance < input THEN balance ELSE input

\* amounts[k] goes into hop k; every hop is quoted on the scanned pools.
quote(path, initial, states) ==
    LET amounts[k \in 1..Len(path) + 1] ==
            IF k = 1 THEN initial ELSE swap(states, path[k - 1], amounts[k - 1]).out
    IN  amounts

has_tx(path) == \A k \in 1..Len(path) : path[k].pool \in Source \cap Destination

\* saturating_sub
profit_of(path, amounts) ==
    LET last == amounts[Len(path) + 1]
    IN  IF last > amounts[1] THEN last - amounts[1] ELSE 0

\* get_arbitrage_tx_outputs yields an output for this path.  The `?` on the
\* authority drops the output of a path whose swaps are all configured.
IsOutput(path, amounts, states) ==
    /\ price_above_one(path, states)
    /\ \A k \in 2..Len(path) + 1 : amounts[k] > 0
    /\ profit_of(path, amounts) >= MinimumProfit[source_mint(path[1])]
    /\ amounts[Len(path) + 1] >= amounts[1]
    /\ has_tx(path) => user_authority

\* The last of the outputs with the largest profit, as max_by returns it.
is_max_by_profit(i, found, quotes) ==
    \A j \in found :
        LET pi == profit_of(Paths[i], quotes[i])
            pj == profit_of(Paths[j], quotes[j])
        IN  pj < pi \/ (pj = pi /\ j <= i)

\* The caller's update of mev_sanitized_tx_profit.
replace_best(i, amounts, states) ==
    LET profit == profit_of(Paths[i], amounts)
    IN  best' = IF has_tx(Paths[i]) /\ ~(best.path # 0 /\ best.profit >= profit)
                THEN [path |-> i, amounts |-> amounts, profit |-> profit,
                      seen_pools |-> states, seen_wallet |-> wallet]
                ELSE best

\* The scan of the post-transaction pools.  The optimal input is computed in
\* floating point: any of OptimalInputs.
log_mev_opportunities_get_max_profit_tx(states) ==
    \E inputs \in [1..Len(Paths) -> OptimalInputs] :
        LET quotes == [i \in 1..Len(Paths) |->
                quote(Paths[i], initial_amount(Paths[i], inputs[i], wallet), states)]
            found == {i \in 1..Len(Paths) : IsOutput(Paths[i], quotes[i], states)}
        IN  /\ \A i \in 1..Len(Paths) : quotes[i] \in [1..Len(Paths[i]) + 1 -> Nat]
            /\ outputs' = quotes
            /\ logged' = found
            /\ \/ found = {} /\ best' = best
               \/ \E i \in found :
                    is_max_by_profit(i, found, quotes) /\ replace_best(i, quotes[i], states)

----------------------------------------------------------------------------
(* The first batch.                                                        *)

\* A monitored transaction that swaps.  It is scanned on its own loaded
\* accounts whenever it was executed; if it failed they are not stored.
execute_monitored(pair, amount, ok) ==
    LET result == swap(pools, pair, amount)
        post == swapped(pools, pair, result)
    IN  /\ pc = "Idle"
        /\ swaps < MaxSwaps
        /\ result.out > 0
        /\ pc' = "Batch"
        /\ pools' = IF ok THEN post ELSE pools
        /\ swaps' = swaps + 1
        /\ log_mev_opportunities_get_max_profit_tx(post)
        /\ UNCHANGED <<wallet, runVars>>

\* A monitored transaction that changes no monitored account.  As every
\* monitored transaction locks all of them, and writes those of the pools
\* with source and destination, a second one fits in the batch only when no
\* pool has both.
execute_reader ==
    /\ pc \in IF Source \cap Destination = {} THEN {"Idle", "ReadBatch"} ELSE {"Idle"}
    /\ pc' = "ReadBatch"
    /\ log_mev_opportunities_get_max_profit_tx(pools)
    /\ UNCHANGED <<pools, wallet, runVars, swaps>>

\* The batch is unlocked and process_transactions looks at its MEV output.
unlock_batch ==
    /\ pc \in {"Batch", "ReadBatch"}
    /\ pc' = IF best.path = 0 THEN "Idle" ELSE "Mev"
    /\ outputs' = <<>>
    /\ logged' = {}
    /\ UNCHANGED <<pools, wallet, best, runVars, swaps>>

----------------------------------------------------------------------------
(* Other threads.                                                          *)

PathPools(path) == {path[k].pool : k \in 1..Len(path)}

\* A swap of another thread, on pools this thread holds no lock of.
user_swap(pair, amount) ==
    LET result == swap(pools, pair, amount)
    IN  /\ pc \notin {"Batch", "ReadBatch"}
        /\ pc = "Run" => pair.pool \notin PathPools(Paths[best.path])
        /\ swaps < MaxSwaps
        /\ result.out > 0
        /\ pools' = swapped(pools, pair, result)
        /\ swaps' = swaps + 1
        /\ UNCHANGED <<wallet, pc, scanVars, best, runVars>>

\* The owner of the authority moves tokens out of an account.
owner_transfer(token) ==
    /\ pc \in {"Idle", "Mev"}
    /\ swaps < MaxSwaps
    /\ wallet[token] > 0
    /\ wallet' = [wallet EXCEPT ![token] = 0]
    /\ swaps' = swaps + 1
    /\ UNCHANGED <<pools, pc, scanVars, best, runVars>>

----------------------------------------------------------------------------
(* The MEV batch.                                                          *)

lock_mev ==
    /\ pc = "Mev"
    /\ pc' = "Run"
    /\ hop' = 1
    /\ loaded_pools' = pools
    /\ loaded_wallet' = wallet
    /\ UNCHANGED <<pools, wallet, scanVars, best, swaps>>

Finished ==
    /\ pc' = "Idle"
    /\ best' = NoTx
    /\ hop' = 0
    /\ loaded_pools' = InitialPools
    /\ loaded_wallet' = InitialWallet
    /\ UNCHANGED <<scanVars, swaps>>

\* The batch is refused (its accounts are in use, or the cost limits are
\* reached).  A MEV transaction is never retried.
refuse_mev ==
    /\ pc = "Mev"
    /\ Finished
    /\ UNCHANGED <<pools, wallet>>

\* Mutant: the swaps keep the minimum they are pushed with.
NoMinimum(path, amounts, k) == 0

\* What hop k must produce: the input of the next hop, and for the last hop
\* what the path started with.
minimum_amount_out(path, amounts, k) == IF k < Len(path) THEN amounts[k + 1] ELSE amounts[1]

MevPath == Paths[best.path]

HopResult == swap(loaded_pools, MevPath[hop], best.amounts[hop])

HopSucceeds ==
    /\ HopResult.out > 0
    /\ HopResult.out >= minimum_amount_out(MevPath, best.amounts, hop)
    /\ loaded_wallet[source_mint(MevPath[hop])] >= HopResult.charged

\* One swap instruction of create_swap_tx, run by the on-chain program.
execute_hop ==
    /\ pc = "Run"
    /\ hop <= Len(MevPath)
    /\ HopSucceeds
    /\ hop' = hop + 1
    /\ loaded_pools' = swapped(loaded_pools, MevPath[hop], HopResult)
    /\ loaded_wallet' =
        [loaded_wallet EXCEPT ![source_mint(MevPath[hop])] = @ - HopResult.charged,
                              ![destination_mint(MevPath[hop])] = @ + HopResult.out]
    /\ UNCHANGED <<pools, wallet, pc, scanVars, best, swaps>>

\* An instruction fails: the transaction is neither recorded nor stored.
fail_hop ==
    /\ pc = "Run"
    /\ hop <= Len(MevPath)
    /\ ~HopSucceeds
    /\ Finished
    /\ UNCHANGED <<pools, wallet>>

\* The transaction succeeded and is recorded and committed.
commit_mev ==
    /\ pc = "Run"
    /\ hop = Len(MevPath) + 1
    /\ pools' = [p \in Pools |-> IF p \in PathPools(MevPath) THEN loaded_pools[p] ELSE pools[p]]
    /\ wallet' = loaded_wallet
    /\ Finished

\* The transaction succeeded but PoH refused the record.
record_fails ==
    /\ pc = "Run"
    /\ hop = Len(MevPath) + 1
    /\ Finished
    /\ UNCHANGED <<pools, wallet>>

Next ==
    /\ UNCHANGED user_authority
    /\ \/ \E pair \in PairInfo, amount \in UserAmounts :
           \/ \E ok \in BOOLEAN : execute_monitored(pair, amount, ok)
           \/ user_swap(pair, amount)
       \/ \E token \in Tokens : owner_transfer(token)
       \/ execute_reader \/ unlock_batch
       \/ lock_mev \/ refuse_mev \/ execute_hop \/ fail_hop \/ commit_mev \/ record_fails

Spec == Init /\ [][Next]_vars

----------------------------------------------------------------------------
\* The types of the variables; a MEV transaction runs only when a scan of the
\* batch yielded one.
TypeOK ==
    /\ pools \in PoolStates
    /\ wallet \in [Tokens -> Nat]
    /\ pc \in {"Idle", "Batch", "ReadBatch", "Mev", "Run"}
    /\ logged \subseteq 1..Len(Paths)
    /\ best.path \in 0..Len(Paths)
    /\ best.profit \in Nat
    /\ best.path # 0 => best.amounts \in [1..Len(MevPath) + 1 -> Nat]
    /\ pc \in {"Mev", "Run"} => best.path # 0
    /\ pc = "Run" <=> hop # 0
    /\ pc = "Run" => hop \in 1..Len(MevPath) + 1
    /\ loaded_pools \in PoolStates
    /\ loaded_wallet \in [Tokens -> Nat]

\* src/README.md: "Solana-MEV does ensure that it does not include transactions
\* that would make a loss".  A committed MEV transaction leaves the authority
\* with at least as much of every token, whatever the other threads did to the
\* pools between the scan and the execution: the minimum of each swap is the
\* input of the next one, and the minimum of the last is the initial amount.
NoLoss == [][commit_mev => \A t \in Tokens : wallet'[t] >= wallet[t]]_vars

\* The pools and the balances are as the scan saw them, and no pool is
\* visited twice (each hop is quoted on the scanned pools).
Undisturbed ==
    /\ \A k, l \in 1..Len(MevPath) : MevPath[k].pool = MevPath[l].pool => k = l
    /\ \A p \in PathPools(MevPath) : pools[p] = best.seen_pools[p]
    /\ wallet = best.seen_wallet

\* The quote of get_arbitrage_tx_outputs is what the on-chain program computes:
\* on the scanned state no hop fails, and the profit is at least the logged
\* possible_profit.
ExecutesAsQuoted ==
    [][pc = "Run" /\ Undisturbed =>
        /\ ~fail_hop
        /\ commit_mev => LET t == source_mint(MevPath[1])
                         IN  wallet'[t] >= wallet[t] + best.profit]_vars

\* The quote of path i makes a profit, and the minimum one.
Profitable(i) ==
    LET path == Paths[i]
        amounts == outputs[i]
    IN  /\ \A k \in 2..Len(path) + 1 : amounts[k] > 0
        /\ profit_of(path, amounts) > 0
        /\ profit_of(path, amounts) >= MinimumProfit[source_mint(path[1])]

\* A path whose quote makes the minimum profit is in the Opportunities message
\* whether or not it can be extracted (MevTxOutput: "Not every MevTxOutput
\* carries transactions, but we still want to log them"), although the price of
\* the path, computed apart from the quote, decides first.  What drops it is
\* the `?` on the authority: a path that has all of its accounts and no
\* authority to sign for them is not logged, one that lacks an account is.
\* Host fees, which only the price counts, are left out.
OpportunitiesAreLogged ==
    \A i \in DOMAIN outputs :
        Profitable(i) /\ (\A p \in PathPools(Paths[i]) : HostFee[p] = 0) =>
            (i \in logged <=> user_authority \/ ~has_tx(Paths[i]))

\* src/README.md on user_authority_path: "This key is optional, if not provided,
\* we only monitor for opportunities but don't extract".
MonitoredWithoutAuthority ==
    ~user_authority => \A i \in DOMAIN outputs :
        Profitable(i) /\ (\A p \in PathPools(Paths[i]) : HostFee[p] = 0) => i \in logged

\* log_mev_opportunities_get_max_profit_tx "Returns a tuple with the most
\* profitable MEV tx": if an output carries a transaction, the batch has one.
MostProfitableTx == (\E i \in logged : has_tx(Paths[i])) => best.path # 0

============================================================================
