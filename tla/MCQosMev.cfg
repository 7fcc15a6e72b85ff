CONSTANTS
    Txs <- MCTxs
    Accounts = {"a", "b", "v"}
    TransactionCost <- MCTransactionCost
    account_cost_limit = 7
    block_cost_limit = 13
    vote_cost_limit = 5
    account_data_size_limit = {3}
    MAX_ACCOUNT_DATA_BLOCK_LEN = 3
    U64_MAX = 100
    Threads = {"th1", "th2"}
    MaxBatch = 2
    MevTxs = {"mev"}
    Units <- MCUnits
SPECIFICATION Spec
INVARIANTS
    CostsAreExact
