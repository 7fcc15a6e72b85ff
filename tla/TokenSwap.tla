----------------------------- MODULE TokenSwap -----------------------------
(***************************************************************************)
(* The Orca pools and the cyclic paths over them                           *)
(* (src/runtime/src/mev/arbitrage.rs, OrcaPoolWithBalance in mev.rs), and  *)
(* the constant product swap of the external crate spl-token-swap, which   *)
(* both the quotes of get_arbitrage_tx_outputs and the on-chain program    *)
(* compute.                                                                *)
(***************************************************************************)
EXTENDS Integers, Sequences

CONSTANTS
    Tokens,
    Pools,
    TokenA,             \* [Pools -> Tokens]: the mint of pool_a_account
    TokenB,             \* [Pools -> Tokens]: the mint of pool_b_account
    TradeFee,           \* [Pools -> Nat]: numerators over FeeDenominator
    OwnerFee,
    FeeDenominator,
    Paths               \* the configured mev_path entries, in their order

PairInfo == [pool : Pools, direction : {"AtoB", "BtoA"}]

source_mint(pair) == IF pair.direction = "AtoB" THEN TokenA[pair.pool] ELSE TokenB[pair.pool]

destination_mint(pair) == IF pair.direction = "AtoB" THEN TokenB[pair.pool] ELSE TokenA[pair.pool]

ASSUME PoolsAssumption ==
    /\ TokenA \in [Pools -> Tokens]
    /\ TokenB \in [Pools -> Tokens]
    /\ \A p \in Pools : TokenA[p] # TokenB[p]
    /\ TradeFee \in [Pools -> Nat]
    /\ OwnerFee \in [Pools -> Nat]
    /\ FeeDenominator \in Nat \ {0}

\* A path is a non-empty cycle of swaps (Mev::new panics on an empty one; the
\* configuration in src/README.md asks for cycles).
ASSUME PathsAssumption ==
    /\ Paths \in Seq(Seq(PairInfo))
    /\ \A i \in 1..Len(Paths) :
        /\ Len(Paths[i]) > 0
        /\ \A k \in 1..Len(Paths[i]) - 1 :
            destination_mint(Paths[i][k]) = source_mint(Paths[i][k + 1])
        /\ destination_mint(Paths[i][Len(Paths[i])]) = source_mint(Paths[i][1])

----------------------------------------------------------------------------
\* The balances of a pool: pool_a_balance and pool_b_balance.
PoolStates == [Pools -> [a : Nat, b : Nat]]

balance_from(states, pair) ==
    IF pair.direction = "AtoB" THEN states[pair.pool].a ELSE states[pair.pool].b

balance_to(states, pair) ==
    IF pair.direction = "AtoB" THEN states[pair.pool].b ELSE states[pair.pool].a

calculate_fee(amount, numerator) ==
    LET fee == (amount * numerator) \div FeeDenominator
    IN  IF amount = 0 \/ numerator = 0 THEN 0 ELSE IF fee = 0 THEN 1 ELSE fee

total_fees(pair, amount) ==
    calculate_fee(amount, TradeFee[pair.pool]) + calculate_fee(amount, OwnerFee[pair.pool])

CeilDiv(n, d) == (n + d - 1) \div d

\* The swap fails (None) exactly when the destination amount would be zero.
Failed == [charged |-> 0, out |-> 0]

\* SwapCurve::swap: the amount the swap charges, fees included, and the
\* amount it pays out.
swap(states, pair, amount) ==
    LET from == balance_from(states, pair)
        to == balance_to(states, pair)
        fees == total_fees(pair, amount)
        less_fees == amount - fees
        invariant == from * to
        new_to == CeilDiv(invariant, from + less_fees)
    IN  IF less_fees <= 0 \/ invariant < from + less_fees
        THEN Failed
        ELSE [charged |-> fees + CeilDiv(invariant, new_to) - from, out |-> to - new_to]

\* The pools after a swap.
swapped(states, pair, result) ==
    [states EXCEPT ![pair.pool] =
        IF pair.direction = "AtoB"
        THEN [a |-> @.a + result.charged, b |-> @.b - result.out]
        ELSE [a |-> @.a - result.out, b |-> @.b + result.charged]]
============================================================================
