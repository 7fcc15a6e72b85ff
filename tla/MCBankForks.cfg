SPECIFICATION Spec
CONSTANTS
    t0 = t0
    t1 = t1
    Txs = {t0, t1}
    Slots <- MCSlots
    RecentBlockhash <- MCBlockhash
    Forks <- MCForks
    MAX_CACHE_ENTRIES = 2
    MAX_RECENT_BLOCKHASHES = 2
    MAX_PROCESSING_AGE = 2
    accounts_hash_interval_slots = 2
    full_snapshot_archive_interval_slots = 2
    MaxRestarts = 1
INVARIANTS StatusIsExact NoPanic ArchiveLoads
CHECK_DEADLOCK FALSE
