SPECIFICATION FairSpec
CONSTANTS
    b = b
    f = f
    Peers = {b, f}
    Bootnodes = {b}
    FullNodes = {b, f}
    ArchivalNodes = {f}
    Conns <- MCConns
    Named = {f}
    ProtectLimit = 1
    MaxClosed = 1
    MaxUnread = 1
    MaxHeight = 4
    EmptyHeights = {1, 2, 3}
    Honest = {b}
    Window = 2
    Requests = {1}
    MaxTries = 2
    MaxPoolEvents = 2
    Workloads <- MCWorkloads
INVARIANTS
    
    PeersAreReported
    KeepAliveAgrees
    PoolsAgree
    HonestPeersStay
PROPERTIES
    GapsAreFilled
    NeverIsolated
    StopEnds
    RequestsEnd
CHECK_DEADLOCK FALSE
