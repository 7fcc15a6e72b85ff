SPECIFICATION Spec
CONSTANTS
    Slots = {0, 1, 2, 3, 4, 5, 7, 8, 14}
    Parent <- MCParent
    Supermajority <- MCSupermajority
    ClusterRoot <- MCClusterRoot
    MAX_LOCKOUT_HISTORY = 3
    VOTE_THRESHOLD_DEPTH = 2
    MaxActive = 1
    MaxQueued = 1
    MaxCrashes = 1
INVARIANTS
    RootIsConfirmed
    PanicsOnlyUnsynced
    VotesAreSaved
PROPERTY
    LockoutsAreKept
CHECK_DEADLOCK FALSE
