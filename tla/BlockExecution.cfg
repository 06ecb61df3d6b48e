\* Two validators, five blocks in epochs of two, one transaction of any kind a
\* block, evidence of one offense, and an issuance that leaves remainders.
CONSTANTS
    ConsensusIDs = {v1, v2}
    Accounts = {a1, a2}
    None = None
    MinimumValidatorStake = 4
    StakeAmounts = {4}
    InitialBalance = 6
    SlashPercent <- MCSlashPercent
    JailEpochs = 2
    MaxCooldown = 1
    BlocksPerEpoch = 2
    MaxHeight = 5
    Word = 1048576
    InitialSupply = 12
    InflationBP = 7000
    EpochsPerYear = 1
    Reported = {"doublePrecommit"}
    VoteOrders = {"AB"}
    TxKinds = {"transfer", "contract", "registration", "staking"}
    Transfers = {1}
    Fees = {2}
    GasUses = {1}
    MaxFees = 2
SYMMETRY Symmetry
SPECIFICATION BlockSpec
INVARIANTS
    PunishedLeaveTheSet BondedCoversStakes 
PROPERTIES
    FeesPaidExactly  TransactionsCreateNoTokens
\* Behaviours end at MaxHeight.
CHECK_DEADLOCK FALSE
