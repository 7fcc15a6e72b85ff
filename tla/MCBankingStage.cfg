CONSTANTS
    Threads = {"th1", "th2"}
    Accounts <- MCAccounts
    Txs <- MCTxs
    Writable <- MCWritable
    Readonly <- MCReadonly
    SanitizeResult <- MCSanitizeResult
    QosResults <- MCQosResults
    MaxBatch = 2
    WatchedPrograms = {"prog"}
    MonitoredPools <- MCPools
    UserAuthority = {"auth"}
    TokenProgram = "token"
    MevFilled <- MCMevFilled
    Payer <- MCPayer
    NonceAccount <- MCNonceAccount
    Outcomes <- MCOutcomes
    Incoming <- MCIncoming
    Sanitizable <- MCTxs
    Expiring = {}
    MevTxs <- MCMevTxs
    MaxTicks = 1
SPECIFICATION BankingSpec
INVARIANTS
    CommitBeforeFreeze
    NothingLost
    MevFollowsTrigger
PROPERTIES
    BlockIsSequential
CHECK_DEADLOCK FALSE
