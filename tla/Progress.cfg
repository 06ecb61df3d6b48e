\* Two WebSocket clients, three blocks to index, the start of a node.
SPECIFICATION LiveSpec
CONSTANTS
    Clients = {c1, c2}
    Events = {heads}
    MaxConnections = 2
    MaxSubscriptions = 1
    SendCap = 1
    BroadcastCap = 1
    MaxBlock = 3
    QueueCap = 1
    BlockTxs <- MCBlockTxs
    BlockEvents <- MCBlockEvents
    MaxQueryRetries = 3
PROPERTIES
    LeavingIsServed QueuedIsIndexed FreshNodeRuns
CHECK_DEADLOCK FALSE
