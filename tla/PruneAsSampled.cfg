SPECIFICATION Spec
CONSTANTS
    MaxHeight = 3
    Cids = {c1}
    SamplingWindow = 1
    ConcurrencyLimit = 1
    AdditionalConcurrency = 1
    MaxSamplesNeeded = 1
    PrunerThreshold = 2
    LazyCancel = TRUE
    PruningWindow = 0
    MaxBatchSize = 2
    CmdCapacity = 1
    StartTime = 2
    MaxTime = 3
    ClockDrift = 0
    MaxRestarts = 0
    MaxDisconnects = 0
    MaxReinserts = 0
INVARIANT SamplingKeepsHeader
PROPERTY OnlyDisposableHeadersPruned
