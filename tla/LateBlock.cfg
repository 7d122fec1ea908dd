SPECIFICATION Spec
CONSTANTS
    MaxHeight = 1
    Cids = {c1}
    SamplingWindow = 0
    ConcurrencyLimit = 1
    AdditionalConcurrency = 1
    MaxSamplesNeeded = 1
    PrunerThreshold = 2
    LazyCancel = TRUE
    PruningWindow = 0
    MaxBatchSize = 2
    CmdCapacity = 1
    StartTime = 1
    MaxTime = 2
    ClockDrift = 0
    MaxRestarts = 0
    MaxDisconnects = 0
    MaxReinserts = 0
INVARIANT NoLeakedBlocks
