SPECIFICATION Spec
CONSTANTS
    Tokens <- MCTokens
    Pools <- MCPools
    TokenA <- MCTokenA
    TokenB <- MCTokenB
    TradeFee <- MCTradeFee
    OwnerFee <- MCOwnerFee
    HostFee <- MCHostFee
    FeeDenominator = 10
    Paths <- MCPaths
    Source <- OurPools
    Destination <- OurPools
    MinimumProfit <- MCMinimumProfit
    InitialPools <- MCInitialPools
    InitialWallet <- MCInitialWallet
    OptimalInputs = {4, 15}
    UserAmounts = {9}
    MaxSwaps = 3
INVARIANTS OpportunitiesAreLogged
PROPERTIES NoLoss ExecutesAsQuoted
CHECK_DEADLOCK FALSE
