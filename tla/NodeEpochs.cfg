\* A single validator, four heights in epochs of two.
SPECIFICATION NodeSpec
CONSTANTS
    N = 1
    Txs = {t1}
    BlocksPerEpoch = 2
    SnapshotInterval = 1
    finalityK = 2
    WeightedProposer <- MCProposers
    MaxHeight = 4
    MaxStarts <- MCStarts
INVARIANT EpochsOnTime
CHECK_DEADLOCK FALSE
