\* Two validators with one operator each, four epochs of two blocks.
CONSTANTS
    ConsensusIDs = {v1, v2}
    Accounts = {a1, a2}
    None = None
    MinimumValidatorStake = 4
    StakeAmounts = {4, 5}
    InitialBalance = 5
    SlashPercent <- MCSlashPercent
    JailEpochs = 2
    MaxCooldown = 2
    BlocksPerEpoch = 2
    MaxHeight = 8
    Word = 1048576
SPECIFICATION FairSpec
INVARIANTS
    TotalBondedIsSum IndexesAgree DeadlinesAhead
PROPERTIES
    ImplementsEscrow 
\* Behaviours end at MaxHeight.
CHECK_DEADLOCK FALSE
