SPECIFICATION FairSpec
CONSTANTS
    MaxHeight = 2
    Cids = {c1}
    SamplingWindow = 1
    ConcurrencyLimit = 1
    AdditionalConcurrency = 0
    MaxSamplesNeeded = 1
    PrunerThreshold = 1
    LazyCancel = FALSE
    PruningWindow = 0
    MaxBatchSize = 2
    CmdCapacity = 1
    StartTime = 1
    MaxTime = 3
    ClockDrift = 0
    MaxRestarts = 0
    MaxDisconnects = 0
    MaxReinserts = 0
INVARIANT TypeOK
PROPERTIES ExpiredHeadersArePruned QueueDrains
