SPECIFICATION MCSpec
CONSTANTS
    main = main
    fork = fork
    cid = cid
    MaxHeight = 3
    Chains = {main, fork}
    Cids = {cid}
    Writers = {1, 2}
    Waiters = {1}
    Operations <- MCOperations
    OldDatabases <- MCOldDatabases
    AwaitedHeights = {2}
    MaxCrashes = 1
    RangeHeights = 6
    MaxRanges = 3
INVARIANTS
    
    NeighboursVerify
    HeadNeverLags
    RangesMatchHeights
    QueriesAreExact
PROPERTIES
    ImplementsHeaderStore
    QuietWhenClosed
    WaitersAreWoken
CHECK_DEADLOCK FALSE
