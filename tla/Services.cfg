SPECIFICATION Spec
CONSTANTS
  Clients = {c1, c2}
  Events = {heads, logs}
  MaxConnections = 2
  MaxSubscriptions = 1
  SendCap = 1
  BroadcastCap = 1
  Topics = {heads, logs}
  NSockets = 3
  NChans = 2
  MaxRetries = 2
  ChanCap = 1
  MaxBlock = 4
  QueueCap = 2
  BlockTxs <- MCBlockTxs
  BlockEvents <- MCBlockEvents
  Requests = {"a", "b", "c"}
  BurstSize = 2
  IdleLimit = 2
  MaxTime = 5
  MaxBuckets = 3
  MaxNonce = 2
  MaxTries = 2
  PoolCap = 1
  MaxListed = 4
  EventKeys = {1, 2, 3}
  DefaultLimit = 2
  MaxLimit = 3
  Callers = {"r1"}
  Ids = {"k"}
  Slots = {"a"}
  Limits = {0, 3, 5}
  CallLimit = 4
  DeployGas = 2
  HostGas = 1
  WriteGas = 2
  MaxExecutions = 3
  GossipPeers = {"p"}
  Hashes = {"x", "y", "z"}
  SeenMax = 2
  BurstTokens = 2
  MaxMarks = 4
  MaxTicks = 2
  Files <- MCFiles
  Selected <- MCSelected
  ChunkSize = 2
  Holders = {"p", "q"}
  MaxTasks = 4
  MaxVarBytesLength = 2
  MaxSigLen = 2
INVARIANTS
    SlotsExact ReconnectRestoresSubscriptions RateBound AcceptedOnce
      OnlyBlocksWrite NoRepeatWithinCapacity
    PeerWithinRate ReassembledIsWhole ReadsBack

    
CHECK_DEADLOCK FALSE
