SPECIFICATION Spec
CONSTANTS
    Slots = {0, 3, 5, 7, 8}
    Parent <- MCParent
    Supermajority <- MCSupermajority
    ClusterRoot <- MCClusterRoot
    MAX_LOCKOUT_HISTORY = 3
    VOTE_THRESHOLD_DEPTH = 2
    MaxActive = 1
    MaxQueued = 1
    MaxCrashes = 1
INVARIANT
    EveryVoteIsSaved
CHECK_DEADLOCK FALSE
