SPECIFICATION Spec
CONSTANTS
    MaxHeight = 2
    Cids = {c1}
    SamplingWindow = 2
    ConcurrencyLimit = 1
    AdditionalConcurrency = 1
    MaxSamplesNeeded = 1
    PrunerThreshold = 2
    LazyCancel = FALSE
    PruningWindow = 1
    MaxBatchSize = 2
    CmdCapacity = 1
    StartTime = 2
    MaxTime = 4
    ClockDrift = 0
    MaxRestarts = 0
    MaxDisconnects = 0
    MaxReinserts = 0
INVARIANT WaitedHeadIsKnown
