-------------------------- MODULE MCMevArbitrage --------------------------
(* Two SOL/USDC pools, a USDC/ETH and an ETH/SOL pool: a cycle of two hops *)
(* and a cycle of three hops; and a SOL/USDC pool without our accounts,    *)
(* through which a cycle of two hops can only be logged.                   *)
EXTENDS MevArbitrage

MCTokens == {"SOL", "USDC", "ETH"}
MCPools == {"p0", "p1", "p2", "p3", "p4"}
MCTokenA == [p0 |-> "SOL", p1 |-> "SOL", p2 |-> "USDC", p3 |-> "ETH", p4 |-> "SOL"]
MCTokenB == [p0 |-> "USDC", p1 |-> "USDC", p2 |-> "ETH", p3 |-> "SOL", p4 |-> "USDC"]
MCTradeFee == [p0 |-> 1, p1 |-> 0, p2 |-> 0, p3 |-> 1, p4 |-> 0]
MCOwnerFee == [p0 |-> 0, p1 |-> 1, p2 |-> 0, p3 |-> 1, p4 |-> 1]
MCHostFee == [p \in MCPools |-> IF p = "p3" THEN 1 ELSE 0]
AtoB(p) == [pool |-> p, direction |-> "AtoB"]
BtoA(p) == [pool |-> p, direction |-> "BtoA"]
MCPaths == << <<AtoB("p0"), BtoA("p1")>>, <<AtoB("p0"), AtoB("p2"), AtoB("p3")>>,
             <<AtoB("p0"), BtoA("p4")>> >>
MCMinimumProfit == [SOL |-> 2, USDC |-> 1, ETH |-> 0]
MCInitialPools == [p0 |-> [a |-> 40, b |-> 60], p1 |-> [a |-> 60, b |-> 40],
                   p2 |-> [a |-> 50, b |-> 50], p3 |-> [a |-> 30, b |-> 60],
                   p4 |-> [a |-> 60, b |-> 30]]
MCInitialWallet == [SOL |-> 12, USDC |-> 1, ETH |-> 0]
OurPools == MCPools \ {"p4"}
TwoPools == {"p0", "p1"}
============================================================================
