\* A single validator, six heights in epochs of three, one restart.
SPECIFICATION NodeSpec
CONSTANTS
    N = 1
    Txs = {t1}
    BlocksPerEpoch = 3
    SnapshotInterval = 1
    finalityK = 2
    WeightedProposer <- MCProposers
    MaxHeight = 6
    MaxStarts <- MCStarts
PROPERTY StartKeepsState
CHECK_DEADLOCK FALSE
