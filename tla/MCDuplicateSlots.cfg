SPECIFICATION Spec
CONSTANTS
    v1 = v1
    v2 = v2
    Genesis <- MCGenesis
    Blocks <- MCBlocks
    Parent <- MCParent
    Validators <- MCValidators
    Stake <- MCStake
    Confirmable <- MCConfirmable
    Duplicated <- MCDuplicated
    Sampled <- MCSampled
INVARIANTS
    NoPanic
    WeightsExact
    BestIsHeaviest
    CandidatesAreReplayed
    ClusterVersionWins
    MarksFitTree
    ConfirmationsArePersisted
