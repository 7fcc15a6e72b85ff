------------------------ MODULE MevArbitrageProofs ------------------------
(***************************************************************************)
(* The arbitrage never makes a loss, and on the scanned state it executes  *)
(* as quoted, for every set of pools, paths, fees and amounts.             *)
(***************************************************************************)
EXTENDS MevArbitrage, NaturalsInduction, WellFoundedInduction, TLAPS

\* Rounding up: the quotient is the least one whose product covers n.
LEMMA CeilDivBounds ==
    ASSUME NEW n \in Nat, NEW d \in Nat \ {0}
    PROVE  /\ CeilDiv(n, d) \in Nat
           /\ n <= d * CeilDiv(n, d)
           /\ d * (CeilDiv(n, d) - 1) < n
<1> DEFINE m == n + d - 1
           q == m \div d
<1>1. m \in Nat  OBVIOUS
<1>2. q \in Int /\ m = d * q + (m % d) /\ m % d \in 0..(d - 1)
  BY <1>1
<1>3. q \in Nat  BY <1>1, <1>2
<1>4. CeilDiv(n, d) = q  BY DEF CeilDiv
<1> QED  BY <1>2, <1>3, <1>4

LEMMA FeeType ==
    ASSUME NEW amount \in Nat, NEW numerator \in Nat
    PROVE  calculate_fee(amount, numerator) \in Nat
<1>1. amount * numerator \in Nat  OBVIOUS
<1>2. (amount * numerator) \div FeeDenominator \in Nat
  BY <1>1, PoolsAssumption
<1> QED  BY <1>2 DEF calculate_fee

LEMMA ProductMonotone ==
    ASSUME NEW x \in Nat, NEW y \in Nat, NEW z \in Nat, x <= y
    PROVE  x * z <= y * z
  OBVIOUS

LEMMA ProductCancel ==
    ASSUME NEW x \in Int, NEW y \in Int, NEW z \in Nat \ {0}, z * x < z * y
    PROVE  x < y
<1>1. SUFFICES ASSUME y <= x PROVE FALSE  OBVIOUS
<1>2. z * y <= z * x  BY <1>1
<1> QED  BY <1>2

\* The constant product swap never charges more than it was given, and never
\* pays out more than the pool holds.
LEMMA CurveBounds ==
    ASSUME NEW from \in Nat, NEW to \in Nat, NEW less \in Nat \ {0},
           from * to >= from + less
    PROVE  LET new_to == CeilDiv(from * to, from + less)
               new_from == CeilDiv(from * to, new_to)
           IN  /\ new_to \in Nat /\ new_to <= to
               /\ new_from \in Nat /\ new_from >= from /\ new_from <= from + less
<1> DEFINE inv == from * to
           sum == from + less
           new_to == CeilDiv(inv, sum)
           new_from == CeilDiv(inv, new_to)
<1>1. inv \in Nat /\ sum \in Nat \ {0} /\ inv >= sum  OBVIOUS
<1>2. new_to \in Nat /\ inv <= sum * new_to /\ sum * (new_to - 1) < inv
  BY <1>1, CeilDivBounds
<1>3. new_to # 0
  <2> HIDE DEF new_to, inv
  <2> QED  BY <1>1, <1>2
<1>4. new_from \in Nat /\ inv <= new_to * new_from /\ new_to * (new_from - 1) < inv
  <2> HIDE DEF new_to, inv
  <2> QED  BY <1>1, <1>2, <1>3, CeilDivBounds
<1>5. new_to <= to
  <2>1. inv <= sum * to  BY <1>1, ProductMonotone
  <2>2. sum * (new_to - 1) < sum * to
    <3> HIDE DEF new_to, inv
    <3> QED  BY <1>1, <1>2, <2>1
  <2>3. new_to - 1 < to
    <3> HIDE DEF new_to, sum
    <3> QED  BY <1>1, <1>2, <2>2, ProductCancel
  <2> HIDE DEF new_to
  <2> QED  BY <1>2, <2>3
<1>6. new_from <= sum
  <2>1. new_to * (new_from - 1) < new_to * sum
    <3> HIDE DEF new_to, inv, new_from, sum
    <3> QED  BY <1>1, <1>2, <1>4
  <2>2. new_from - 1 < sum
    <3> HIDE DEF new_to, sum, new_from
    <3> QED  BY <1>1, <1>2, <1>3, <1>4, <2>1, ProductCancel
  <2> HIDE DEF new_from, sum
  <2> QED  BY <1>1, <1>4, <2>2
<1>7. new_from >= from
  <2>1. SUFFICES ASSUME new_from < from PROVE FALSE
    <3> HIDE DEF new_from
    <3> QED  BY <1>4
  <2>2. to # 0  BY <1>1
  <2>3. new_from * to < from * to
    <3> HIDE DEF new_from
    <3> QED  BY <1>4, <2>1, <2>2
  <2>4. new_to * new_from <= to * new_from
    <3> HIDE DEF new_from, new_to
    <3> QED  BY <1>2, <1>4, <1>5, ProductMonotone
  <2>5. to * new_from = new_from * to
    <3> HIDE DEF new_from
    <3> QED  BY <1>4
  <2> HIDE DEF new_from, new_to
  <2> QED  BY <1>1, <1>2, <1>4, <2>3, <2>4, <2>5
<1> QED  BY <1>2, <1>4, <1>5, <1>6, <1>7

LEMMA SwapBounds ==
    ASSUME NEW states \in PoolStates, NEW pair \in PairInfo, NEW amount \in Nat
    PROVE  /\ swap(states, pair, amount).charged \in 0..amount
           /\ swap(states, pair, amount).out \in 0..balance_to(states, pair)
<1> DEFINE from == balance_from(states, pair)
           to == balance_to(states, pair)
           fees == total_fees(pair, amount)
           less == amount - fees
           inv == from * to
           new_to == CeilDiv(inv, from + less)
           new_from == CeilDiv(inv, new_to)
<1>1. from \in Nat /\ to \in Nat
  BY DEF PoolStates, PairInfo, balance_from, balance_to
<1>2. fees \in Nat
  <2>1. TradeFee[pair.pool] \in Nat /\ OwnerFee[pair.pool] \in Nat
    BY PoolsAssumption DEF PairInfo
  <2>2. calculate_fee(amount, TradeFee[pair.pool]) \in Nat
    BY <2>1, FeeType
  <2>3. calculate_fee(amount, OwnerFee[pair.pool]) \in Nat
    BY <2>1, FeeType
  <2> QED  BY <2>2, <2>3 DEF total_fees
<1>3. swap(states, pair, amount) =
        IF less <= 0 \/ inv < from + less
        THEN Failed ELSE [charged |-> fees + new_from - from, out |-> to - new_to]
  BY DEF swap
<1>4. CASE less <= 0 \/ inv < from + less
  BY <1>1, <1>3, <1>4 DEF Failed
<1>5. CASE ~(less <= 0 \/ inv < from + less)
  <2>1. less \in Nat \ {0} /\ from * to >= from + less
    <3> HIDE DEF from, to, fees
    <3> QED  BY <1>1, <1>2, <1>5
  <2>2. /\ new_to \in Nat /\ new_to <= to
        /\ new_from \in Nat /\ new_from >= from /\ new_from <= from + less
    <3> HIDE DEF from, to, less
    <3> QED  BY <1>1, <2>1, CurveBounds
  <2>3. swap(states, pair, amount) = [charged |-> fees + new_from - from, out |-> to - new_to]
    BY <1>3, <1>5
  <2>4. swap(states, pair, amount).charged = fees + new_from - from /\ swap(states, pair, amount).out = to - new_to
    BY <2>3
  <2>5. fees + new_from - from \in 0..amount /\ to - new_to \in 0..to
    <3> HIDE DEF from, to, fees, new_to, new_from
    <3> QED  BY <1>1, <1>2, <2>2
  <2> QED  BY <2>4, <2>5
<1> QED  BY <1>4, <1>5

LEMMA SwappedType ==
    ASSUME NEW states \in PoolStates, NEW pair \in PairInfo, NEW amount \in Nat
    PROVE  swapped(states, pair, swap(states, pair, amount)) \in PoolStates
<1> DEFINE r == swap(states, pair, amount)
<1>1. r.charged \in Nat /\ r.out \in 0..balance_to(states, pair)
  BY SwapBounds
<1>2. pair.pool \in Pools /\ states[pair.pool] \in [a : Nat, b : Nat]
  BY DEF PoolStates, PairInfo
<1> DEFINE pool == states[pair.pool]
           after == IF pair.direction = "AtoB"
                    THEN [a |-> pool.a + r.charged, b |-> pool.b - r.out]
                    ELSE [a |-> pool.a - r.out, b |-> pool.b + r.charged]
<1>3. after \in [a : Nat, b : Nat]
  <2>1. CASE pair.direction = "AtoB"
    <3>1. pool.a + r.charged \in Nat /\ pool.b - r.out \in Nat
      <4> HIDE DEF r
      <4> QED  BY <1>1, <1>2, <2>1 DEF balance_to
    <3> QED  BY <2>1, <3>1
  <2>2. CASE pair.direction # "AtoB"
    <3>1. pool.b + r.charged \in Nat /\ pool.a - r.out \in Nat
      <4> HIDE DEF r
      <4> QED  BY <1>1, <1>2, <2>2 DEF balance_to
    <3> QED  BY <2>2, <3>1
  <2> QED  BY <2>1, <2>2
<1>4. swapped(states, pair, r) = [states EXCEPT ![pair.pool] = after]
  BY DEF swapped
<1> HIDE DEF after
<1> QED  BY <1>2, <1>3, <1>4 DEF PoolStates

LEMMA PathFacts ==
    ASSUME NEW i \in 1..Len(Paths)
    PROVE  /\ Paths[i] \in Seq(PairInfo)
           /\ Len(Paths[i]) \in Nat \ {0}
           /\ \A k \in 1..Len(Paths[i]) : Paths[i][k] \in PairInfo
  BY PathsAssumption

LEMMA MintTypes ==
    ASSUME NEW pair \in PairInfo
    PROVE  /\ source_mint(pair) \in Tokens
           /\ destination_mint(pair) \in Tokens
           /\ source_mint(pair) # destination_mint(pair)
  BY PoolsAssumption DEF PairInfo, source_mint, destination_mint

\* A scan keeps the type of the best transaction.
LEMMA ScanTypes ==
    ASSUME TypeOK, NEW states, log_mev_opportunities_get_max_profit_tx(states)
    PROVE  /\ logged' \subseteq 1..Len(Paths)
           /\ best'.path \in 0..Len(Paths)
           /\ best'.profit \in Nat
           /\ best'.path # 0 => best'.amounts \in [1..Len(Paths[best'.path]) + 1 -> Nat]
<1>1. PICK inputs \in [1..Len(Paths) -> OptimalInputs] :
        LET quotes == [i \in 1..Len(Paths) |->
                quote(Paths[i], initial_amount(Paths[i], inputs[i], wallet), states)]
            found == {i \in 1..Len(Paths) : IsOutput(Paths[i], quotes[i], states)}
        IN  /\ \A i \in 1..Len(Paths) : quotes[i] \in [1..Len(Paths[i]) + 1 -> Nat]
            /\ outputs' = quotes
            /\ logged' = found
            /\ \/ found = {} /\ best' = best
               \/ \E i \in found :
                    is_max_by_profit(i, found, quotes) /\ replace_best(i, quotes[i], states)
  BY DEF log_mev_opportunities_get_max_profit_tx
<1> DEFINE quotes == [i \in 1..Len(Paths) |->
                quote(Paths[i], initial_amount(Paths[i], inputs[i], wallet), states)]
           found == {i \in 1..Len(Paths) : IsOutput(Paths[i], quotes[i], states)}
<1>2. /\ \A i \in 1..Len(Paths) : quotes[i] \in [1..Len(Paths[i]) + 1 -> Nat]
      /\ logged' = found
      /\ \/ found = {} /\ best' = best
         \/ \E i \in found :
              is_max_by_profit(i, found, quotes) /\ replace_best(i, quotes[i], states)
  BY <1>1, ZenonT(60)
<1>3. found \subseteq 1..Len(Paths)  OBVIOUS
<1> HIDE DEF quotes, found
<1>4. CASE best' = best
  BY <1>2, <1>3, <1>4 DEF TypeOK, MevPath
<1>5. CASE \E i \in found : replace_best(i, quotes[i], states)
  <2>1. PICK i \in found : replace_best(i, quotes[i], states)  BY <1>5
  <2>2. CASE best' = best  BY <1>4, <2>2
  <2> DEFINE amounts == quotes[i]
             profit == profit_of(Paths[i], amounts)
  <2>3. CASE best' = [path |-> i, amounts |-> amounts, profit |-> profit,
                      seen_pools |-> states, seen_wallet |-> wallet]
    <3>1. best'.path = i /\ best'.amounts = amounts /\ best'.profit = profit  BY <2>3
    <3>2. i \in 1..Len(Paths) /\ amounts \in [1..Len(Paths[i]) + 1 -> Nat]  BY <1>2, <1>3, <2>1
    <3>3. profit \in Nat
      <4>1. Len(Paths[i]) \in Nat  BY <3>2, PathFacts
      <4>2. amounts[1] \in Nat /\ amounts[Len(Paths[i]) + 1] \in Nat
        <5> HIDE DEF amounts
        <5> QED  BY <3>2, <4>1
      <4> HIDE DEF amounts
      <4> QED  BY <4>2 DEF profit_of
    <3>4. i \in 0..Len(Paths)  BY <3>2
    <3> QED  BY <1>2, <1>3, <3>1, <3>2, <3>3, <3>4
  <2> QED  BY <2>1, <2>2, <2>3 DEF replace_best
<1> QED  BY <1>2, <1>4, <1>5

\* What a swap does to the authority's accounts.
Transfer(balances, from, charged, to, out) ==
    [balances EXCEPT ![from] = @ - charged, ![to] = @ + out]

LEMMA HopFacts ==
    ASSUME TypeOK, pc = "Run", hop <= Len(MevPath)
    PROVE  /\ best.path \in 1..Len(Paths)
           /\ hop \in 1..Len(MevPath)
           /\ MevPath[hop] \in PairInfo
           /\ best.amounts[hop] \in Nat
           /\ HopResult.charged \in 0..best.amounts[hop]
           /\ HopResult.out \in Nat
<1>1. best.path \in 1..Len(Paths)
  BY PathsAssumption DEF TypeOK
<1>2. hop \in 1..Len(MevPath) /\ Len(MevPath) \in Nat
  BY <1>1, PathFacts DEF TypeOK, MevPath
<1>3. MevPath[hop] \in PairInfo
  BY <1>1, <1>2, PathFacts DEF MevPath
<1>4. best.amounts[hop] \in Nat
  BY <1>1, <1>2 DEF TypeOK, MevPath
<1>5. loaded_pools \in PoolStates
  BY DEF TypeOK
<1>6. balance_to(loaded_pools, MevPath[hop]) \in Nat
  BY <1>3, <1>5 DEF PoolStates, PairInfo, balance_to
<1>7. /\ HopResult.charged \in 0..best.amounts[hop]
      /\ HopResult.out \in 0..balance_to(loaded_pools, MevPath[hop])
  BY <1>3, <1>4, <1>5, SwapBounds DEF HopResult
<1> QED  BY <1>1, <1>2, <1>3, <1>4, <1>6, <1>7

LEMMA HopTransfer ==
    ASSUME TypeOK, execute_hop
    PROVE  /\ loaded_wallet' \in [Tokens -> Nat]
           /\ \A t \in Tokens : loaded_wallet'[t] =
                IF t = source_mint(MevPath[hop]) THEN loaded_wallet[t] - HopResult.charged
                ELSE IF t = destination_mint(MevPath[hop]) THEN loaded_wallet[t] + HopResult.out
                ELSE loaded_wallet[t]
<1>1. pc = "Run" /\ hop <= Len(MevPath)  BY DEF execute_hop
<1>2. MevPath[hop] \in PairInfo  BY <1>1, HopFacts
<1>3. HopResult.charged \in Nat /\ HopResult.out \in Nat  BY <1>1, HopFacts
<1>4. loaded_wallet[source_mint(MevPath[hop])] >= HopResult.charged
  BY DEF execute_hop, HopSucceeds
<1>5. loaded_wallet' = Transfer(loaded_wallet, source_mint(MevPath[hop]), HopResult.charged,
                                destination_mint(MevPath[hop]), HopResult.out)
  BY DEF execute_hop, Transfer
<1>6. PICK from \in Tokens : from = source_mint(MevPath[hop])  BY <1>2, MintTypes
<1>7. PICK to \in Tokens : to = destination_mint(MevPath[hop])  BY <1>2, MintTypes
<1>8. from # to  BY <1>2, <1>6, <1>7, MintTypes
<1>9. PICK charged \in Nat : charged = HopResult.charged  BY <1>3
<1>10. PICK out \in Nat : out = HopResult.out  BY <1>3
<1>11. PICK balances \in [Tokens -> Nat] : balances = loaded_wallet  BY DEF TypeOK
<1>12. balances[from] >= charged  BY <1>4, <1>6, <1>9, <1>11
<1>13. loaded_wallet' = Transfer(balances, from, charged, to, out)
  BY <1>5, <1>6, <1>7, <1>9, <1>10, <1>11
<1>14. /\ Transfer(balances, from, charged, to, out) \in [Tokens -> Nat]
       /\ \A t \in Tokens : Transfer(balances, from, charged, to, out)[t] =
            IF t = from THEN balances[t] - charged
            ELSE IF t = to THEN balances[t] + out ELSE balances[t]
  <2>1. balances[from] - charged \in Nat /\ balances[to] + out \in Nat  BY <1>12
  <2> QED  BY <1>8, <2>1 DEF Transfer
<1> QED  BY <1>6, <1>7, <1>9, <1>10, <1>11, <1>13, <1>14

\* The types: in particular no balance of a pool or of the authority goes
\* below zero, and a MEV batch always has a transaction.
THEOREM MevTypes == Spec => []TypeOK
<1>1. Init => TypeOK
  BY MevAssumption, PathsAssumption DEF Init, NotRunning, NoTx, TypeOK, MevPath
<1>2. TypeOK /\ [Next]_vars => TypeOK'
  <2> SUFFICES ASSUME TypeOK, [Next]_vars PROVE TypeOK'
    OBVIOUS
  <2> USE DEF scanVars, runVars
  <2>1. ASSUME NEW pair \in PairInfo, NEW amount \in UserAmounts, NEW ok \in BOOLEAN,
               execute_monitored(pair, amount, ok)
        PROVE  TypeOK'
    <3>1. amount \in Nat  BY MevAssumption
    <3>2. swapped(pools, pair, swap(pools, pair, amount)) \in PoolStates
      BY <3>1, SwappedType DEF TypeOK
    <3>3. pools' \in PoolStates
      BY <2>1, <3>2 DEF execute_monitored, TypeOK
    <3>4. log_mev_opportunities_get_max_profit_tx(swapped(pools, pair, swap(pools, pair, amount)))
      BY <2>1 DEF execute_monitored
    <3>5. /\ logged' \subseteq 1..Len(Paths)
          /\ best'.path \in 0..Len(Paths)
          /\ best'.profit \in Nat
          /\ best'.path # 0 => best'.amounts \in [1..Len(Paths[best'.path]) + 1 -> Nat]
      BY <3>4, ScanTypes
    <3> QED  BY <2>1, <3>3, <3>5 DEF execute_monitored, TypeOK, MevPath
  <2>2. ASSUME NEW pair \in PairInfo, NEW amount \in UserAmounts, user_swap(pair, amount)
        PROVE  TypeOK'
    <3>1. amount \in Nat  BY MevAssumption
    <3>2. pools' \in PoolStates
      BY <2>2, <3>1, SwappedType DEF TypeOK, user_swap
    <3> QED  BY <2>2, <3>2 DEF user_swap, TypeOK, MevPath
  <2>3. ASSUME NEW token \in Tokens, owner_transfer(token)
        PROVE  TypeOK'
    BY <2>3 DEF owner_transfer, TypeOK, MevPath
  <2>4. CASE execute_reader
    <3>1. /\ logged' \subseteq 1..Len(Paths)
          /\ best'.path \in 0..Len(Paths)
          /\ best'.profit \in Nat
          /\ best'.path # 0 => best'.amounts \in [1..Len(Paths[best'.path]) + 1 -> Nat]
      BY <2>4, ScanTypes DEF execute_reader
    <3> QED  BY <2>4, <3>1 DEF execute_reader, TypeOK, MevPath
  <2>5. CASE unlock_batch
    BY <2>5 DEF unlock_batch, TypeOK, MevPath
  <2>6. CASE lock_mev
    <3>1. best.path \in 1..Len(Paths)  BY <2>6, PathsAssumption DEF lock_mev, TypeOK
    <3>2. 1 \in 1..Len(MevPath) + 1  BY <3>1, PathFacts DEF MevPath
    <3> QED  BY <2>6, <3>2 DEF lock_mev, TypeOK, MevPath
  <2>7. ASSUME Finished, pools' \in PoolStates, wallet' \in [Tokens -> Nat]
        PROVE  TypeOK'
    BY <2>7, MevAssumption, PathsAssumption DEF Finished, NoTx, TypeOK, MevPath
  <2>8. CASE execute_hop
    <3>1. hop <= Len(MevPath) /\ pc = "Run"  BY <2>8 DEF execute_hop
    <3>2. /\ hop \in 1..Len(MevPath)
          /\ MevPath[hop] \in PairInfo
          /\ best.amounts[hop] \in Nat
          /\ HopResult.charged \in 0..best.amounts[hop]
          /\ HopResult.out \in Nat
          /\ best.path \in 1..Len(Paths)
      BY <3>1, HopFacts
    <3>3. loaded_pools' \in PoolStates
      BY <2>8, <3>2, SwappedType DEF execute_hop, HopResult, TypeOK
    <3>4. loaded_wallet' \in [Tokens -> Nat]
      BY <2>8, HopTransfer
    <3>5. hop' \in 1..Len(MevPath) + 1 /\ hop' # 0
      <4>1. Len(MevPath) \in Nat  BY <3>2, PathFacts DEF MevPath
      <4>2. hop' = hop + 1  BY <2>8 DEF execute_hop
      <4> QED  BY <3>2, <4>1, <4>2
    <3>6. UNCHANGED <<pools, wallet, pc, logged, best, MevPath>>
      BY <2>8 DEF execute_hop, MevPath
    <3> QED  BY <3>1, <3>3, <3>4, <3>5, <3>6 DEF TypeOK
  <2>9. CASE commit_mev
    <3>1. pools' \in PoolStates
      BY <2>9 DEF commit_mev, TypeOK, PoolStates
    <3> QED  BY <2>7, <2>9, <3>1 DEF commit_mev, TypeOK
  <2>10. CASE refuse_mev \/ fail_hop \/ record_fails
    BY <2>7, <2>10 DEF refuse_mev, fail_hop, record_fails, TypeOK
  <2>11. CASE UNCHANGED vars
    BY <2>11 DEF vars, TypeOK, MevPath
  <2> QED
    BY <2>1, <2>2, <2>3, <2>4, <2>5, <2>6, <2>8, <2>9, <2>10, <2>11 DEF Next
<1> QED  BY <1>1, <1>2, PTL DEF Spec

----------------------------------------------------------------------------
\* The token, and the amount of it, that the next hop takes; after the last
\* hop the token the path started with, and the initial amount.
HopToken == IF hop <= Len(MevPath) THEN source_mint(MevPath[hop]) ELSE source_mint(MevPath[1])

HopAmount == IF hop <= Len(MevPath) THEN best.amounts[hop] ELSE best.amounts[1]

\* Before each hop nothing was lost but the initial amount, and the input of
\* the hop was gained.
LossFree ==
    pc = "Run" => \A t \in Tokens :
        loaded_wallet[t] + (IF t = source_mint(MevPath[1]) THEN best.amounts[1] ELSE 0)
            >= wallet[t] + (IF t = HopToken THEN HopAmount ELSE 0)

LEMMA LossFreeStep ==
    ASSUME TypeOK, TypeOK', LossFree, execute_hop
    PROVE  LossFree'
<1>1. pc = "Run" /\ hop <= Len(MevPath)  BY DEF execute_hop
<1>2. /\ best.path \in 1..Len(Paths)
      /\ hop \in 1..Len(MevPath)
      /\ best.amounts[hop] \in Nat
      /\ HopResult.charged \in 0..best.amounts[hop]
      /\ HopResult.out \in Nat
  BY <1>1, HopFacts
<1>3. Len(MevPath) \in Nat \ {0}  BY <1>2, PathFacts DEF MevPath
<1>4. best.amounts \in [1..Len(MevPath) + 1 -> Nat]  BY <1>1 DEF TypeOK
<1>5. UNCHANGED <<wallet, best, MevPath>> /\ hop' = hop + 1
  BY DEF execute_hop, MevPath
<1>6. HopToken' = destination_mint(MevPath[hop])
  <2>1. CASE hop < Len(MevPath)
    <3>1. hop + 1 <= Len(MevPath) /\ hop \in 1..Len(MevPath) - 1  BY <1>2, <1>3, <2>1
    <3>2. destination_mint(MevPath[hop]) = source_mint(MevPath[hop + 1])
      BY <1>2, <3>1, PathsAssumption DEF MevPath
    <3> QED  BY <1>5, <3>1, <3>2 DEF HopToken
  <2>2. CASE hop = Len(MevPath)
    <3>1. ~(hop + 1 <= Len(MevPath))  BY <1>3, <2>2
    <3>2. destination_mint(MevPath[hop]) = source_mint(MevPath[1])
      BY <1>2, <2>2, PathsAssumption DEF MevPath
    <3> QED  BY <1>5, <3>1, <3>2 DEF HopToken
  <2> QED  BY <1>2, <1>3, <2>1, <2>2
<1>7. HopAmount' = minimum_amount_out(MevPath, best.amounts, hop) /\ HopAmount' \in Nat
  BY <1>2, <1>3, <1>4, <1>5 DEF HopAmount, minimum_amount_out
<1>8. HopResult.out >= HopAmount'
  BY <1>7 DEF execute_hop, HopSucceeds
<1>9. HopToken = source_mint(MevPath[hop]) /\ HopAmount = best.amounts[hop]
  BY <1>1 DEF HopToken, HopAmount
<1>10. SUFFICES ASSUME NEW t \in Tokens
       PROVE  loaded_wallet'[t] + (IF t = source_mint(MevPath[1]) THEN best.amounts[1] ELSE 0)
                >= wallet[t] + (IF t = HopToken' THEN HopAmount' ELSE 0)
  BY <1>5 DEF LossFree
<1>11. PICK initial \in Nat :
         initial = IF t = source_mint(MevPath[1]) THEN best.amounts[1] ELSE 0
  BY <1>3, <1>4
<1>12. PICK taken \in Nat : taken = IF t = HopToken THEN best.amounts[hop] ELSE 0
  BY <1>2
<1>13. loaded_wallet[t] + initial >= wallet[t] + taken
  BY <1>1, <1>9, <1>11, <1>12 DEF LossFree
<1>14. loaded_wallet[t] \in Nat /\ wallet[t] \in Nat /\ loaded_wallet'[t] \in Nat
  BY DEF TypeOK
<1>15. CASE t = HopToken
  <2>1. t # HopToken'  BY <1>1, <1>6, <1>9, <1>15, HopFacts, MintTypes
  <2>2. loaded_wallet'[t] = loaded_wallet[t] - HopResult.charged  BY <1>9, <1>15, HopTransfer
  <2>3. loaded_wallet'[t] >= loaded_wallet[t] - taken
    BY <1>2, <1>12, <1>14, <1>15, <2>2
  <2>4. loaded_wallet'[t] + initial >= wallet[t]  BY <1>13, <1>14, <2>3
  <2> QED  BY <1>11, <1>14, <2>1, <2>4
<1>16. CASE t # HopToken /\ t = HopToken'
  <2>1. loaded_wallet'[t] = loaded_wallet[t] + HopResult.out  BY <1>6, <1>9, <1>16, HopTransfer
  <2>2. loaded_wallet'[t] + initial >= wallet[t] + HopAmount'
    <3>1. taken = 0  BY <1>12, <1>16
    <3>2. PICK out \in Nat : out = HopResult.out  BY <1>2
    <3>3. PICK amount \in Nat : amount = HopAmount'  BY <1>7
    <3>4. out >= amount  BY <1>8, <3>2, <3>3
    <3>5. loaded_wallet'[t] + initial >= wallet[t] + amount
      BY <1>13, <1>14, <2>1, <3>1, <3>2, <3>4
    <3> QED  BY <3>3, <3>5
  <2> QED  BY <1>11, <1>16, <2>2
<1>17. CASE t # HopToken /\ t # HopToken'
  <2>1. loaded_wallet'[t] = loaded_wallet[t]  BY <1>6, <1>9, <1>17, HopTransfer
  <2>2. loaded_wallet'[t] + initial >= wallet[t]  BY <1>13, <1>14, <2>1
  <2> QED  BY <1>11, <1>14, <1>17, <2>2
<1> QED  BY <1>15, <1>16, <1>17

LEMMA MevLossFree == Spec => []LossFree
<1>1. Init => LossFree
  BY DEF Init, LossFree
<1>2. TypeOK /\ TypeOK' /\ LossFree /\ [Next]_vars => LossFree'
  <2> SUFFICES ASSUME TypeOK, TypeOK', LossFree, [Next]_vars PROVE LossFree'
    OBVIOUS
  <2>1. CASE execute_hop  BY <2>1, LossFreeStep
  <2>2. CASE lock_mev
    <3>1. best.path \in 1..Len(Paths)  BY <2>2, PathsAssumption DEF lock_mev, TypeOK
    <3>2. Len(MevPath) \in Nat \ {0}  BY <3>1, PathFacts DEF MevPath
    <3>3. best.amounts[1] \in Nat
      <4>1. best.amounts \in [1..Len(MevPath) + 1 -> Nat]  BY <3>1 DEF TypeOK
      <4> QED  BY <3>2, <4>1
    <3>4. /\ hop' = 1 /\ loaded_wallet' = wallet
          /\ UNCHANGED <<wallet, best, MevPath>>
      BY <2>2 DEF lock_mev, MevPath
    <3>5. HopToken' = source_mint(MevPath[1]) /\ HopAmount' = best.amounts[1]
      BY <3>2, <3>4 DEF HopToken, HopAmount
    <3>6. \A t \in Tokens : wallet[t] \in Nat  BY DEF TypeOK
    <3> QED  BY <3>3, <3>4, <3>5, <3>6 DEF LossFree
  <2>3. CASE UNCHANGED <<wallet, best, hop, pc, loaded_wallet>>
    BY <2>3 DEF LossFree, HopToken, HopAmount, MevPath
  <2>4. CASE pc' # "Run"
    BY <2>4 DEF LossFree
  <2>5. ASSUME NEW pair \in PairInfo, NEW amount \in UserAmounts, NEW ok \in BOOLEAN,
               execute_monitored(pair, amount, ok)
        PROVE  LossFree'
    BY <2>4, <2>5 DEF execute_monitored
  <2>6. ASSUME NEW pair \in PairInfo, NEW amount \in UserAmounts, user_swap(pair, amount)
        PROVE  LossFree'
    BY <2>3, <2>6 DEF user_swap, runVars
  <2>7. ASSUME NEW token \in Tokens, owner_transfer(token)
        PROVE  LossFree'
    BY <2>4, <2>7 DEF owner_transfer
  <2>8. CASE execute_reader \/ unlock_batch
    BY <2>4, <2>8 DEF execute_reader, unlock_batch
  <2>9. CASE refuse_mev \/ fail_hop \/ commit_mev \/ record_fails
    BY <2>4, <2>9 DEF refuse_mev, fail_hop, commit_mev, record_fails, Finished
  <2>10. CASE UNCHANGED vars
    BY <2>3, <2>10 DEF vars
  <2> QED  BY <2>1, <2>2, <2>5, <2>6, <2>7, <2>8, <2>9, <2>10 DEF Next
<1> QED  BY <1>1, <1>2, MevTypes, PTL DEF Spec

\* No committed MEV transaction makes a loss in any token, whatever the pools,
\* the paths, the fees and the quotes, and whatever happened to the pools
\* between the scan and the execution.
THEOREM MevMakesNoLoss == Spec => NoLoss
<1>1. TypeOK /\ LossFree => [commit_mev => \A t \in Tokens : wallet'[t] >= wallet[t]]_vars
  <2> SUFFICES ASSUME TypeOK, LossFree, commit_mev, NEW t \in Tokens
               PROVE  wallet'[t] >= wallet[t]
    OBVIOUS
  <2>1. pc = "Run" /\ hop = Len(MevPath) + 1 /\ wallet' = loaded_wallet  BY DEF commit_mev
  <2>2. best.path \in 1..Len(Paths)  BY <2>1, PathsAssumption DEF TypeOK
  <2>3. Len(MevPath) \in Nat \ {0}  BY <2>2, PathFacts DEF MevPath
  <2>4. best.amounts[1] \in Nat  BY <2>2, <2>3 DEF TypeOK
  <2>5. HopToken = source_mint(MevPath[1]) /\ HopAmount = best.amounts[1]
    BY <2>1, <2>3 DEF HopToken, HopAmount
  <2>6. wallet[t] \in Nat /\ loaded_wallet[t] \in Nat  BY DEF TypeOK
  <2>7. CASE t = source_mint(MevPath[1])
    <3>1. loaded_wallet[t] + best.amounts[1] >= wallet[t] + best.amounts[1]
      BY <2>1, <2>5, <2>7 DEF LossFree
    <3> QED  BY <2>1, <2>4, <2>6, <3>1
  <2>8. CASE t # source_mint(MevPath[1])
    <3>1. loaded_wallet[t] + 0 >= wallet[t] + 0
      BY <2>1, <2>5, <2>8 DEF LossFree
    <3> QED  BY <2>1, <2>6, <3>1
  <2> QED  BY <2>7, <2>8
<1> QED  BY <1>1, MevTypes, MevLossFree, PTL DEF NoLoss

----------------------------------------------------------------------------
\* A swap looks at no pool but its own.
LEMMA SwapLooksAtPool ==
    ASSUME NEW s, NEW u, NEW pair, NEW amount, s[pair.pool] = u[pair.pool]
    PROVE  swap(s, pair, amount) = swap(u, pair, amount)
  BY DEF swap, balance_from, balance_to

\* The amounts quoted along a path satisfy the equation they are defined by:
\* each is what the swap before it pays out on the scanned pools.
LEMMA QuoteEquation ==
    ASSUME NEW path, NEW initial, NEW states, Len(path) \in Nat
    PROVE  quote(path, initial, states) =
             [k \in 1..Len(path) + 1 |->
                IF k = 1 THEN initial
                ELSE swap(states, path[k - 1], quote(path, initial, states)[k - 1]).out]
<1> DEFINE Out(k, x) == swap(states, path[k], x).out
           F(n, f) == [k \in 1..n + 1 |-> IF k = 1 THEN initial ELSE Out(k - 1, f[k - 1])]
           Good == {n \in Nat : \E f : f = F(n, f)}
           R == {ss \in Nat \X Nat : ss[1] < ss[2]}
<1>1. 0 \in Good
  <2> DEFINE f == [k \in 1..1 |-> initial]
  <2>1. f = F(0, f)
    <3> HIDE DEF Out
    <3> QED  OBVIOUS
  <2> QED  BY <2>1
<1>2. ASSUME NEW n \in Nat, NEW f, f = F(n, f) PROVE n + 1 \in Good
  <2> DEFINE g == [k \in 1..n + 2 |-> IF k = n + 2 THEN Out(n + 1, f[n + 1]) ELSE f[k]]
  <2> HIDE DEF Out
  <2>1. \A k \in 1..n + 1 : f[k] = IF k = 1 THEN initial ELSE Out(k - 1, f[k - 1])
    BY <1>2
  <2>2. ASSUME NEW k \in 1..n + 2
        PROVE  g[k] = IF k = 1 THEN initial ELSE Out(k - 1, g[k - 1])
    <3>1. CASE k = 1  BY <2>1, <3>1
    <3>2. CASE k # 1 /\ k # n + 2
      <4>1. k \in 1..n + 1 /\ k - 1 \in 1..n + 2 /\ k - 1 # n + 2  BY <3>2
      <4>2. g[k] = f[k] /\ g[k - 1] = f[k - 1]  BY <3>2, <4>1
      <4> QED  BY <2>1, <3>2, <4>1, <4>2
    <3>3. CASE k = n + 2
      <4>1. k # 1 /\ k - 1 = n + 1 /\ n + 1 \in 1..n + 2 /\ n + 1 # n + 2  BY <3>3
      <4>2. g[k] = Out(n + 1, f[n + 1]) /\ g[n + 1] = f[n + 1]  BY <3>3, <4>1
      <4> QED  BY <4>1, <4>2
    <3> QED  BY <3>1, <3>2, <3>3
  <2>3. g = F(n + 1, g)
    <3>1. n + 1 + 1 = n + 2  OBVIOUS
    <3>2. g = [k \in 1..n + 2 |-> g[k]]  OBVIOUS
    <3>3. [k \in 1..n + 2 |-> g[k]] = [k \in 1..n + 2 |-> IF k = 1 THEN initial ELSE Out(k - 1, g[k - 1])]
      <4> HIDE DEF g
      <4> QED  BY <2>2
    <3> HIDE DEF g
    <3> QED  BY <3>1, <3>2, <3>3
  <2> HIDE DEF F, g
  <2> QED  BY <2>3
<1>3. Good = Nat
  <2> DEFINE T == Nat \ Good
  <2>1. IsWellFoundedOn(R, Nat)
    BY NatLessThanWellFounded DEF OpToRel
  <2> SUFFICES ASSUME T # {} PROVE FALSE
    OBVIOUS
  <2>2. PICK x \in T : \A y \in T : ~(<<y, x>> \in R)
    <3> HIDE DEF Good, R
    <3> QED  BY <2>1, WFMin
  <2> HIDE DEF F
  <2>3. x \in Nat /\ x # 0 /\ x - 1 \in Nat /\ <<x - 1, x>> \in R  BY <1>1
  <2>4. x - 1 \in Good  BY <2>2, <2>3
  <2>5. PICK f : f = F(x - 1, f)  BY <2>4
  <2>6. (x - 1) + 1 \in Good
    <3> HIDE DEF Good
    <3> QED  BY <1>2, <2>3, <2>5
  <2> QED  BY <2>3, <2>6
<1>4. PICK f : f = F(Len(path), f)
  <2> HIDE DEF F
  <2> QED  BY <1>3
<1>5. quote(path, initial, states) = CHOOSE g : g = F(Len(path), g)
  BY DEF quote
<1> DEFINE q == quote(path, initial, states)
<1>6. q = F(Len(path), q)
  <2> HIDE DEF F
  <2> QED  BY <1>4, <1>5
<1> QED  BY <1>6

\* Every amount but the first is what the swap before it pays out.
Chained(path, amounts, states) ==
    \A k \in 1..Len(path) : amounts[k + 1] = swap(states, path[k], amounts[k]).out

DistinctPools(path) == \A k, l \in 1..Len(path) : path[k].pool = path[l].pool => k = l

\* The best transaction is quoted on the pools and the balances its scan saw.
QuoteInv ==
    best.path # 0 =>
        /\ Chained(MevPath, best.amounts, best.seen_pools)
        /\ \A k \in 1..Len(MevPath) : best.amounts[k + 1] > 0
        /\ best.amounts[Len(MevPath) + 1] = best.amounts[1] + best.profit
        /\ best.amounts[1] <= best.seen_wallet[source_mint(MevPath[1])]

\* While the transaction runs, the pools it has not come to are as they were
\* when it was locked and after its last hop the profit is in the wallet.
RunInv ==
    pc = "Run" =>
        /\ DistinctPools(MevPath) =>
            \A k \in hop..Len(MevPath) : loaded_pools[MevPath[k].pool] = pools[MevPath[k].pool]
        /\ Undisturbed /\ hop = Len(MevPath) + 1 =>
            LET t == source_mint(MevPath[1])
            IN  loaded_wallet[t] >= wallet[t] + best.profit

\* What is quoted for a path: amounts[1] is the capped input, and every other
\* amount is what the swap before it pays out.
LEMMA QuoteFacts ==
    ASSUME NEW i \in 1..Len(Paths), NEW initial, NEW states
    PROVE  /\ quote(Paths[i], initial, states)[1] = initial
           /\ Chained(Paths[i], quote(Paths[i], initial, states), states)
<1> DEFINE path == Paths[i]
           q == quote(path, initial, states)
<1>1. Len(path) \in Nat  BY PathFacts
<1>2. q = [k \in 1..Len(path) + 1 |->
             IF k = 1 THEN initial ELSE swap(states, path[k - 1], q[k - 1]).out]
  <2> HIDE DEF path
  <2> QED  BY <1>1, QuoteEquation
<1> HIDE DEF q, path
<1>3. \A k \in 1..Len(path) + 1 :
        q[k] = IF k = 1 THEN initial ELSE swap(states, path[k - 1], q[k - 1]).out
  BY <1>2, Zenon
<1>4. q[1] = initial
  BY <1>1, <1>3
<1>5. ASSUME NEW k \in 1..Len(path) PROVE q[k + 1] = swap(states, path[k], q[k]).out
  <2>1. k + 1 \in 1..Len(path) + 1 /\ k + 1 # 1 /\ (k + 1) - 1 = k  BY <1>1
  <2> QED  BY <1>3, <2>1
<1>6. Chained(path, q, states)  BY <1>5 DEF Chained
<1> QED  BY <1>4, <1>6 DEF q, path

\* The input of a path that carries a transaction is within our balance.
LEMMA InputCapped ==
    ASSUME TypeOK, NEW i \in 1..Len(Paths), NEW input \in OptimalInputs, has_tx(Paths[i])
    PROVE  initial_amount(Paths[i], input, wallet) <= wallet[source_mint(Paths[i][1])]
<1>1. Paths[i][1] \in PairInfo /\ 1 \in 1..Len(Paths[i])  BY PathFacts
<1>2. wallet[source_mint(Paths[i][1])] \in Nat  BY <1>1, MintTypes DEF TypeOK
<1>3. input \in Nat  BY MevAssumption
<1>4. Paths[i][1].pool \in Source /\ Paths[i][1].pool \in Destination
  BY <1>1 DEF has_tx
<1>5. PICK balance \in Nat : balance = wallet[source_mint(Paths[i][1])]  BY <1>2
<1>6. initial_amount(Paths[i], input, wallet) = IF balance < input THEN balance ELSE input
  BY <1>4, <1>5, Zenon DEF initial_amount
<1> QED  BY <1>3, <1>5, <1>6

\* A scan keeps the quote of the best transaction.
LEMMA ScanQuotes ==
    ASSUME TypeOK, QuoteInv, NEW states, log_mev_opportunities_get_max_profit_tx(states)
    PROVE  QuoteInv'
<1>1. PICK inputs \in [1..Len(Paths) -> OptimalInputs] :
        LET quotes == [i \in 1..Len(Paths) |->
                quote(Paths[i], initial_amount(Paths[i], inputs[i], wallet), states)]
            found == {i \in 1..Len(Paths) : IsOutput(Paths[i], quotes[i], states)}
        IN  /\ \A i \in 1..Len(Paths) : quotes[i] \in [1..Len(Paths[i]) + 1 -> Nat]
            /\ outputs' = quotes
            /\ logged' = found
            /\ \/ found = {} /\ best' = best
               \/ \E i \in found :
                    is_max_by_profit(i, found, quotes) /\ replace_best(i, quotes[i], states)
  BY DEF log_mev_opportunities_get_max_profit_tx
<1> DEFINE quotes == [i \in 1..Len(Paths) |->
                quote(Paths[i], initial_amount(Paths[i], inputs[i], wallet), states)]
           found == {i \in 1..Len(Paths) : IsOutput(Paths[i], quotes[i], states)}
<1>2. /\ \A i \in 1..Len(Paths) : quotes[i] \in [1..Len(Paths[i]) + 1 -> Nat]
      /\ \/ best' = best
         \/ \E i \in found : replace_best(i, quotes[i], states)
  BY <1>1, Zenon
<1>3. CASE best' = best
  BY <1>3 DEF QuoteInv, MevPath
<1>4. ASSUME NEW i \in found, replace_best(i, quotes[i], states), best' # best
      PROVE  QuoteInv'
  <2> DEFINE path == Paths[i]
             initial == initial_amount(path, inputs[i], wallet)
             amounts == quotes[i]
             profit == profit_of(path, amounts)
             last == amounts[Len(path) + 1]
  <2>1. i \in 1..Len(Paths) /\ IsOutput(path, amounts, states)  OBVIOUS
  <2>2. /\ has_tx(path)
        /\ best' = [path |-> i, amounts |-> amounts, profit |-> profit,
                    seen_pools |-> states, seen_wallet |-> wallet]
    <3> HIDE DEF quotes
    <3> QED  BY <1>4, Zenon DEF replace_best
  <2>3. amounts = quote(path, initial, states)
    BY <2>1
  <2>4. amounts \in [1..Len(path) + 1 -> Nat]
    <3> HIDE DEF quotes
    <3> QED  BY <1>2, <2>1
  <2> HIDE DEF quotes, found, initial, amounts
  <2>5. Len(path) \in Nat \ {0}  BY <2>1, PathFacts
  <2>6. amounts[1] = initial /\ Chained(path, amounts, states)
    BY <2>1, <2>3, QuoteFacts
  <2>7. ASSUME NEW k \in 1..Len(path) PROVE amounts[k + 1] > 0
    <3>1. k + 1 \in 2..Len(path) + 1  BY <2>5
    <3> QED  BY <2>1, <3>1 DEF IsOutput
  <2>8. amounts[1] \in Nat /\ last \in Nat /\ last >= amounts[1]
    <3>1. 1 \in 1..Len(path) + 1 /\ Len(path) + 1 \in 1..Len(path) + 1  BY <2>5
    <3> QED  BY <2>1, <2>4, <3>1 DEF IsOutput
  <2>9. last = amounts[1] + profit
    BY <2>8 DEF profit_of
  <2>10. amounts[1] <= wallet[source_mint(path[1])]
    <3>1. inputs[i] \in OptimalInputs  BY <2>1
    <3> QED  BY <2>1, <2>2, <2>6, <3>1, InputCapped DEF initial
  <2>11. /\ best'.path = i /\ best'.amounts = amounts /\ best'.profit = profit
         /\ best'.seen_pools = states /\ best'.seen_wallet = wallet
    <3> HIDE DEF profit
    <3> QED  BY <2>2
  <2>12. MevPath' = path  BY <2>11 DEF MevPath
  <2> HIDE DEF path, profit
  <2> QED  BY <2>6, <2>7, <2>9, <2>10, <2>11, <2>12, Zenon DEF QuoteInv, last
<1> QED
  <2> HIDE DEF quotes, found
  <2> QED  BY <1>2, <1>3, <1>4

\* On the scanned state the next hop pays out what was quoted and succeeds.
LEMMA HopAsQuoted ==
    ASSUME TypeOK, LossFree, QuoteInv, RunInv, pc = "Run", hop <= Len(MevPath), Undisturbed
    PROVE  HopSucceeds /\ HopResult.out = best.amounts[hop + 1]
<1>1. /\ best.path \in 1..Len(Paths)
      /\ hop \in 1..Len(MevPath)
      /\ MevPath[hop] \in PairInfo
      /\ best.amounts[hop] \in Nat
      /\ HopResult.charged \in 0..best.amounts[hop]
      /\ HopResult.out \in Nat
  BY HopFacts
<1>2. Len(MevPath) \in Nat \ {0} /\ MevPath[1] \in PairInfo  BY <1>1, PathFacts DEF MevPath
<1>3. best.amounts \in [1..Len(MevPath) + 1 -> Nat]  BY <1>1 DEF TypeOK
<1>4. loaded_pools[MevPath[hop].pool] = best.seen_pools[MevPath[hop].pool]
  <2>1. hop \in hop..Len(MevPath)  BY <1>1, <1>2
  <2>2. loaded_pools[MevPath[hop].pool] = pools[MevPath[hop].pool]
    BY <2>1 DEF RunInv, DistinctPools, Undisturbed
  <2> QED  BY <1>1, <2>2 DEF Undisturbed, PathPools
<1>5. HopResult.out = best.amounts[hop + 1] /\ best.amounts[hop + 1] > 0
  <2>1. HopResult = swap(best.seen_pools, MevPath[hop], best.amounts[hop])
    BY <1>4, SwapLooksAtPool DEF HopResult
  <2> QED  BY <1>1, <2>1 DEF QuoteInv, Chained
<1>6. best.amounts[hop + 1] >= minimum_amount_out(MevPath, best.amounts, hop)
  <2>1. CASE hop < Len(MevPath)
    <3>1. best.amounts[hop + 1] \in Nat  BY <1>1, <1>5
    <3> QED  BY <2>1, <3>1 DEF minimum_amount_out
  <2>2. CASE hop = Len(MevPath)
    <3>1. best.amounts[1] \in Nat /\ best.profit \in Nat  BY <1>2, <1>3 DEF TypeOK
    <3>2. best.amounts[hop + 1] = best.amounts[1] + best.profit
      BY <1>1, <2>2 DEF QuoteInv
    <3>3. minimum_amount_out(MevPath, best.amounts, hop) = best.amounts[1]
      BY <1>2, <2>2 DEF minimum_amount_out
    <3> QED  BY <3>1, <3>2, <3>3
  <2> QED  BY <1>1, <1>2, <2>1, <2>2
<1>7. loaded_wallet[source_mint(MevPath[hop])] >= HopResult.charged
  <2> DEFINE t == source_mint(MevPath[hop])
             first == source_mint(MevPath[1])
  <2>1. t \in Tokens  BY <1>1, MintTypes
  <2>2. HopToken = t /\ HopAmount = best.amounts[hop]  BY DEF HopToken, HopAmount
  <2>3. wallet[t] \in Nat /\ loaded_wallet[t] \in Nat  BY <2>1 DEF TypeOK
  <2>4. loaded_wallet[t] + (IF t = first THEN best.amounts[1] ELSE 0) >= wallet[t] + best.amounts[hop]
    BY <2>1, <2>2 DEF LossFree
  <2>5. best.amounts[1] \in Nat /\ best.amounts[1] <= wallet[first]
    <3>1. best.amounts[1] <= best.seen_wallet[first]  BY <1>1 DEF QuoteInv
    <3> QED  BY <1>2, <1>3, <3>1 DEF Undisturbed
  <2> HIDE DEF t, first
  <2>6. loaded_wallet[t] >= best.amounts[hop]
    <3>1. PICK a, w, n, m : a = loaded_wallet[t] /\ w = wallet[t] /\ n = best.amounts[hop]
                            /\ m = (IF t = first THEN best.amounts[1] ELSE 0)
      BY Zenon
    <3>2. a \in Nat /\ w \in Nat /\ n \in Nat /\ a + m >= w + n
      BY <1>1, <2>3, <2>4, <3>1, Zenon
    <3>3. CASE t = first
      <4>1. m \in Nat /\ m <= w
        BY <2>5, <3>1, <3>3, Zenon
      <4>2. a >= n
        BY <3>2, <4>1
      <4> QED  BY <3>1, <4>2, Zenon
    <3>4. CASE t # first
      <4>1. m = 0
        BY <3>1, <3>4, Zenon
      <4>2. a >= n
        BY <3>2, <4>1
      <4> QED  BY <3>1, <4>2, Zenon
    <3> QED  BY <3>3, <3>4, Zenon
  <2>7. PICK charged \in Nat : charged = HopResult.charged  BY <1>1
  <2>8. charged <= best.amounts[hop]  BY <1>1, <2>7
  <2> QED  BY <1>1, <2>3, <2>6, <2>7, <2>8 DEF t
<1> QED  BY <1>5, <1>6, <1>7 DEF HopSucceeds

\* One hop keeps what is known of the run.
LEMMA RunInvHop ==
    ASSUME TypeOK, TypeOK', LossFree, QuoteInv, RunInv, execute_hop
    PROVE  RunInv'
<1>1. pc = "Run" /\ hop <= Len(MevPath)  BY DEF execute_hop
<1>2. /\ best.path \in 1..Len(Paths)
      /\ hop \in 1..Len(MevPath)
      /\ MevPath[hop] \in PairInfo
  BY <1>1, HopFacts
<1>3. Len(MevPath) \in Nat \ {0} /\ MevPath[1] \in PairInfo
      /\ \A k \in 1..Len(MevPath) : MevPath[k] \in PairInfo
  BY <1>2, PathFacts DEF MevPath
<1>4. UNCHANGED <<pools, wallet, best, MevPath>> /\ hop' = hop + 1
  BY DEF execute_hop, MevPath
<1>5. ASSUME DistinctPools(MevPath), NEW k \in hop + 1..Len(MevPath)
      PROVE  loaded_pools'[MevPath[k].pool] = pools[MevPath[k].pool]
  <2>1. k \in 1..Len(MevPath) /\ k # hop /\ k \in hop..Len(MevPath)  BY <1>2, <1>3
  <2>2. MevPath[k].pool # MevPath[hop].pool  BY <1>2, <1>5, <2>1 DEF DistinctPools
  <2>3. MevPath[k].pool \in Pools /\ loaded_pools \in PoolStates
    BY <1>3, <2>1 DEF PairInfo, TypeOK
  <2>4. loaded_pools'[MevPath[k].pool] = loaded_pools[MevPath[k].pool]
    BY <2>2, <2>3 DEF execute_hop, swapped, PoolStates
  <2> QED  BY <1>1, <1>5, <2>1, <2>4 DEF RunInv
<1>6. ASSUME Undisturbed, hop + 1 = Len(MevPath) + 1
      PROVE  loaded_wallet'[source_mint(MevPath[1])] >= wallet[source_mint(MevPath[1])] + best.profit
  <2> DEFINE t == source_mint(MevPath[1])
  <2>1. hop = Len(MevPath)  BY <1>2, <1>3, <1>6
  <2>2. destination_mint(MevPath[hop]) = t
    BY <1>2, <2>1, PathsAssumption DEF MevPath
  <2>3. t \in Tokens /\ t # source_mint(MevPath[hop])  BY <1>2, <2>2, MintTypes
  <2>4. HopResult.out = best.amounts[1] + best.profit
    <3>1. HopResult.out = best.amounts[hop + 1]  BY <1>1, <1>6, HopAsQuoted
    <3> QED  BY <1>2, <2>1, <3>1 DEF QuoteInv
  <2>5. wallet[t] \in Nat /\ loaded_wallet[t] \in Nat /\ best.profit \in Nat  BY <2>3 DEF TypeOK
  <2>6. best.amounts[1] \in Nat
    <3>1. best.amounts \in [1..Len(MevPath) + 1 -> Nat]  BY <1>2 DEF TypeOK
    <3> QED  BY <1>3, <3>1
  <2>7. loaded_wallet'[t] = loaded_wallet[t] + HopResult.out
    BY <2>2, <2>3, HopTransfer
  <2>8. loaded_wallet[t] + best.amounts[1] >= wallet[t]
    <3>1. HopToken # t  BY <1>1, <2>3 DEF HopToken
    <3>2. loaded_wallet[t] + best.amounts[1] >= wallet[t] + 0
      BY <1>1, <2>3, <3>1 DEF LossFree
    <3> QED  BY <2>5, <3>2
  <2> HIDE DEF t
  <2>9. loaded_wallet'[t] >= wallet[t] + best.profit
    BY <2>4, <2>5, <2>6, <2>7, <2>8
  <2> QED  BY <2>9 DEF t
<1>7. Undisturbed' <=> Undisturbed  BY <1>4 DEF Undisturbed
<1>8. DistinctPools(MevPath)' <=> DistinctPools(MevPath)  BY <1>4 DEF DistinctPools
<1> QED  BY <1>4, <1>5, <1>6, <1>7, <1>8, Zenon DEF RunInv

\* Between the scan that quoted a transaction and its execution nothing
\* happened to the pools of its path and to the authority's accounts: then the
\* transaction executes as get_arbitrage_tx_outputs quoted it.
THEOREM MevExecutesAsQuoted == Spec => ExecutesAsQuoted
<1>1. Init => QuoteInv /\ RunInv
  BY DEF Init, NoTx, QuoteInv, RunInv
<1>2. TypeOK /\ TypeOK' /\ LossFree /\ QuoteInv /\ RunInv /\ [Next]_vars => QuoteInv' /\ RunInv'
  <2> SUFFICES ASSUME TypeOK, TypeOK', LossFree, QuoteInv, RunInv, [Next]_vars
               PROVE  QuoteInv' /\ RunInv'
    OBVIOUS
  <2>1. ASSUME UNCHANGED best PROVE QuoteInv'
    BY <2>1 DEF QuoteInv, MevPath
  <2>2. ASSUME pc' # "Run" PROVE RunInv'
    BY <2>2 DEF RunInv
  <2>3. CASE execute_hop
    <3>1. UNCHANGED best  BY <2>3 DEF execute_hop
    <3> QED  BY <2>1, <2>3, <3>1, RunInvHop
  <2>4. CASE lock_mev
    <3>1. UNCHANGED <<best, MevPath>> /\ loaded_pools' = pools' /\ hop' = 1
      BY <2>4 DEF lock_mev, MevPath
    <3>2. best.path \in 1..Len(Paths)  BY <2>4, PathsAssumption DEF lock_mev, TypeOK
    <3>3. Len(MevPath) \in Nat \ {0}  BY <3>2, PathFacts DEF MevPath
    <3>4. hop' # Len(MevPath') + 1  BY <3>1, <3>3
    <3>5. RunInv'  BY <3>1, <3>4, Zenon DEF RunInv
    <3> QED  BY <2>1, <3>1, <3>5
  <2>5. ASSUME NEW pair \in PairInfo, NEW amount \in UserAmounts, NEW ok \in BOOLEAN,
               execute_monitored(pair, amount, ok)
        PROVE  QuoteInv' /\ RunInv'
    <3>1. pc' # "Run"  BY <2>5 DEF execute_monitored
    <3>2. \E states : log_mev_opportunities_get_max_profit_tx(states)
      BY <2>5, Zenon DEF execute_monitored
    <3> QED  BY <2>2, <3>1, <3>2, ScanQuotes
  <2>6. CASE execute_reader
    <3>1. pc' # "Run" /\ log_mev_opportunities_get_max_profit_tx(pools)
      BY <2>6 DEF execute_reader
    <3> QED  BY <2>2, <3>1, ScanQuotes
  <2>7. ASSUME NEW pair \in PairInfo, NEW amount \in UserAmounts, user_swap(pair, amount)
        PROVE  QuoteInv' /\ RunInv'
    <3>1. UNCHANGED <<best, MevPath, wallet, pc, hop, loaded_pools, loaded_wallet>>
      BY <2>7 DEF user_swap, MevPath, runVars
    <3>2. CASE pc # "Run"  BY <2>1, <2>2, <3>1, <3>2
    <3>3. CASE pc = "Run"
      <4>1. best.path \in 1..Len(Paths)  BY <3>3, PathsAssumption DEF TypeOK
      <4>2. hop \in Nat \ {0} /\ Len(MevPath) \in Nat
            /\ \A k \in 1..Len(MevPath) : MevPath[k].pool \in Pools
        BY <3>3, <4>1, PathFacts DEF TypeOK, MevPath, PairInfo
      <4>3. pair.pool \notin PathPools(MevPath)  BY <2>7, <3>3 DEF user_swap, MevPath
      <4>4. ASSUME NEW k \in 1..Len(MevPath) PROVE pools'[MevPath[k].pool] = pools[MevPath[k].pool]
        <5>1. MevPath[k].pool # pair.pool  BY <4>3 DEF PathPools
        <5>2. pools \in PoolStates  BY DEF TypeOK
        <5> QED  BY <2>7, <4>2, <5>1, <5>2 DEF user_swap, swapped, PoolStates
      <4>5. \A k \in hop..Len(MevPath) : k \in 1..Len(MevPath)  BY <4>2
      <4>6. Undisturbed' => Undisturbed
        BY <3>1, <4>4 DEF Undisturbed, PathPools
      <4>7. RunInv'
        BY <3>1, <3>3, <4>4, <4>5, <4>6, Zenon DEF RunInv, DistinctPools
      <4> QED  BY <2>1, <3>1, <4>7
    <3> QED  BY <3>2, <3>3
  <2>8. ASSUME NEW token \in Tokens, owner_transfer(token)
        PROVE  QuoteInv' /\ RunInv'
    <3>1. pc' # "Run" /\ UNCHANGED best  BY <2>8 DEF owner_transfer
    <3> QED  BY <2>1, <2>2, <3>1
  <2>9. CASE unlock_batch
    <3>1. pc' # "Run" /\ UNCHANGED best  BY <2>9 DEF unlock_batch
    <3> QED  BY <2>1, <2>2, <3>1
  <2>10. CASE refuse_mev \/ fail_hop \/ commit_mev \/ record_fails
    <3>1. pc' # "Run" /\ best'.path = 0
      BY <2>10 DEF refuse_mev, fail_hop, commit_mev, record_fails, Finished, NoTx
    <3>2. QuoteInv'  BY <3>1 DEF QuoteInv
    <3> QED  BY <2>2, <3>1, <3>2
  <2>11. CASE UNCHANGED vars
    <3>1. UNCHANGED <<best, MevPath, wallet, pc, hop, loaded_pools, loaded_wallet, pools>>
      BY <2>11 DEF vars, MevPath
    <3> QED  BY <2>1, <3>1, Zenon DEF RunInv, DistinctPools, Undisturbed
  <2> QED
    BY <2>3, <2>4, <2>5, <2>6, <2>7, <2>8, <2>9, <2>10, <2>11 DEF Next
<1>3. TypeOK /\ LossFree /\ QuoteInv /\ RunInv =>
        [pc = "Run" /\ Undisturbed =>
           /\ ~fail_hop
           /\ commit_mev => LET t == source_mint(MevPath[1])
                            IN  wallet'[t] >= wallet[t] + best.profit]_vars
  <2> SUFFICES ASSUME TypeOK, LossFree, QuoteInv, RunInv, pc = "Run", Undisturbed
               PROVE  /\ ~fail_hop
                      /\ commit_mev => LET t == source_mint(MevPath[1])
                                       IN  wallet'[t] >= wallet[t] + best.profit
    OBVIOUS
  <2>1. ~fail_hop  BY HopAsQuoted DEF fail_hop
  <2>2. ASSUME commit_mev
        PROVE  wallet'[source_mint(MevPath[1])] >= wallet[source_mint(MevPath[1])] + best.profit
    <3>1. hop = Len(MevPath) + 1 /\ wallet' = loaded_wallet  BY <2>2 DEF commit_mev
    <3> QED  BY <3>1 DEF RunInv
  <2> QED  BY <2>1, <2>2
<1> QED  BY <1>1, <1>2, <1>3, MevTypes, MevLossFree, PTL DEF Spec, ExecutesAsQuoted
============================================================================
