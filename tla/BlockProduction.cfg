\* Two senders, every kind of transaction, a pool of three and blocks of two.
SPECIFICATION FairSpec
CONSTANTS
    Senders = {1, 2}
    Txs <- MixedTxs
    InitialBalance = 5
    MaxSize = 3
    MaxTxs = 2
    MayExpire = TRUE
    MaxRestarts = 1

      
PROPERTIES
    BlocksKeepComing
