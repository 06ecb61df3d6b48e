\* Contract calls that use less gas than their MaxFee.
CONSTANTS
    ConsensusIDs = {v1, v2}
    Accounts = {a1, a2}
    None = None
    MinimumValidatorStake = 4
    StakeAmounts = {4}
    InitialBalance = 6
    SlashPercent <- MCSlashPercent
    JailEpochs = 2
    MaxCooldown = 1
    BlocksPerEpoch = 2
    MaxHeight = 5
    Word = 1048576
    InitialSupply = 0
    InflationBP = 7000
    EpochsPerYear = 1
    Reported = {"doublePrecommit"}
    VoteOrders = {"AB"}
    TxKinds = {"contract", "staking"}
    Transfers = {1}
    Fees = {3}
    GasUses = {1}
    MaxFees = 3
SYMMETRY Symmetry
SPECIFICATION BlockSpec
INVARIANTS NoTokensFromNothing
\* Behaviours end at MaxHeight.
CHECK_DEADLOCK FALSE
