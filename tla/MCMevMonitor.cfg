SPECIFICATION Spec
CONSTANTS
    Tokens <- MCTokens
    Pools <- MCPools
    TokenA <- MCTokenA
    TokenB <- MCTokenB
    TradeFee <- MCTradeFee
    OwnerFee <- MCOwnerFee
    HostFee <- MCHostFee
    FeeDenominator = 10
    Paths <- MCPaths
    Source <- OurPools
    Destination <- OurPools
    MinimumProfit <- MCMinimumProfit
    InitialPools <- MCInitialPools
    InitialWallet <- MCInitialWallet
    OptimalInputs = {4, 15}
    UserAmounts = {5, 11}
    MaxSwaps = 2
INVARIANT MonitoredWithoutAuthority
CHECK_DEADLOCK FALSE
