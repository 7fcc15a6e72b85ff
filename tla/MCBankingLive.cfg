CONSTANTS
    Threads = {"th1", "th2"}
    Accounts <- MCAccounts
    Txs <- MCTxs
    Writable <- MCWritable
    Readonly <- MCReadonly
    SanitizeResult <- MCSanitizeResult
    QosResults <- MCQosResults
    MaxBatch = 2
    WatchedPrograms = {"prog"}
    MonitoredPools <- MCPools
    UserAuthority = {"auth"}
    TokenProgram = "token"
    MevFilled <- MCMevFilled
    Payer <- MCPayer
    NonceAccount <- MCNonceAccount
    Outcomes <- MCOutcomes
    Incoming <- LiveIncoming
    Sanitizable = {"swap", "mev", "transfer"}
    Expiring = {"transfer"}
    MevTxs <- MCMevTxs
    MaxTicks = 2
SPECIFICATION FairBankingSpec
PROPERTIES
    CompleteIsFrozen
    SlotEnds
CHECK_DEADLOCK FALSE
