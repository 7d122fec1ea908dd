SPECIFICATION Spec
CONSTANTS
    MaxHeight = 2
    Cids = {c1, c2}
    SamplingWindow = 1
    ConcurrencyLimit = 1
    AdditionalConcurrency = 1
    MaxSamplesNeeded = 1
    PrunerThreshold = 2
    LazyCancel = FALSE
    PruningWindow = 0
    MaxBatchSize = 2
    CmdCapacity = 1
    StartTime = 1
    MaxTime = 3
    ClockDrift = 0
    MaxRestarts = 1
    MaxDisconnects = 1
    MaxReinserts = 1
INVARIANTS NoFatalError NoLeakedBlocks
SYMMETRY CidSymmetry
CONSTRAINT FaultsApart
