\* A node with a stored state, fast sync enabled.
SPECIFICATION SyncSpec
CONSTANTS
    Clients = {c1, c2}
    Events = {heads}
    MaxConnections = 2
    MaxSubscriptions = 1
    SendCap = 1
    BroadcastCap = 1
    MaxBlock = 3
    QueueCap = 1
    BlockTxs <- MCBlockTxs
    BlockEvents <- MCBlockEvents
    MaxQueryRetries = 3
PROPERTY LiveNodeRuns
CHECK_DEADLOCK FALSE
