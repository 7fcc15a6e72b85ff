CONSTANTS
    Threads = {th1, th2}
    NoThread = NoThread
    Accounts <- MCAccounts
    Txs <- MCTxs
    Writable <- MCWritable
    Readonly <- MCReadonly
    SanitizeResult <- MCSanitizeResult
    QosResults <- MCQosResults
    MaxBatch = 2
    WatchedPrograms <- MCWatchedPrograms
    MonitoredPools <- MCPools
    UserAuthority <- MCUserAuthority
    TokenProgram = "token"
    MevFilled <- MCMevFilled
SPECIFICATION Spec
INVARIANTS
    MutualExclusion
    LockTableExact
SYMMETRY Symmetry
PROPERTIES
    LocksAreAtomic
