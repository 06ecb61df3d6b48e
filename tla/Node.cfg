\* Two nodes and three heights in epochs of two; the same with a second
\* start; a single node with six heights and three starts; two keys and a
\* checkpoint; five genesis documents; a bootstrap peer, and an address with
\* two connections.
SPECIFICATION Spec
CONSTANTS
    N = 2
    Txs = {t1}
    BlocksPerEpoch = 2
    SnapshotInterval = 1
    finalityK = 2
    WeightedProposer <- MCProposers
    MaxHeight = 3
    MaxStarts <- MCStarts
    Keys = {1, 2}
    Depth = 3
    PathOf <- MCPathOf
    Values <- MCValues
    MaxCheckpoint = 1
    Docs = {1, 2, 3, 4, 5}
    DocOf <- MCDocOf
    AddressOf <- MCAddressOf
    NoDoc = NoDoc
    p1 = p1
    p2 = p2
    a1 = a1
    a2 = a2
    c1 = c1
    c2 = c2
    None = None
    Ids = {p1, p2}
    Addrs = {a1, a2}
    IdOf <- MCIdOf
    BootstrapAddrs = {a1}
    MaxScore = 2
    BanBelow <- MCBanBelow
    PruneBelow = 0
    SpamPenalty = 2
    DecodePenalty = 1
    Gains = {1}
    ScoreWord = 3
    BaseBackoff = 2
    MaxBackoff = 3
    Remotes = {a1, a2}
    NoConn = NoConn
    Bootstraps = {a1}
    Conns = {c1, c2}
    AddrOf <- MCAddrOf
    MaxPeers = 1
    BlockChSize = 1
    Dialers = {d1}
    Blocks = {b1}
INVARIANTS
    CommittedSurvives RootVouches RegistryOfGenesis 
    NothingLeftBehind
PROPERTIES
    HeadersExtendTip 
\* Behaviours end at the bounds.
CHECK_DEADLOCK FALSE
