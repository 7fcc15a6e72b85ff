SPECIFICATION Spec
CONSTANTS
    Tokens <- MCTokens
    Pools <- MCPools
    TokenA <- MCTokenA
    TokenB <- MCTokenB
    TradeFee <- MCTradeFee
    OwnerFee <- MCOwnerFee
    HostFee <- MCHostFee
    FeeDenominator = 10
    Paths <- MCPaths
    Source <- TwoPools
    Destination <- TwoPools
    MinimumProfit <- MCMinimumProfit
    InitialPools <- MCInitialPools
    InitialWallet <- MCInitialWallet
    OptimalInputs = {4, 15}
    UserAmounts = {5, 11}
    MaxSwaps = 2
INVARIANT MostProfitableTx
CHECK_DEADLOCK FALSE
