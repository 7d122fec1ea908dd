SPECIFICATION Spec
CONSTANTS
    MaxHeight = 6
    Cids = {c1}
    SamplingWindow = 3
    PruningWindow = 1
    BatchSize = 2
    SlowSyncThreshold = 0
    HeadLag = 1
    StartTime = 3
    SubCapacity = 1
    MaxDisconnects = 1
    MaxRestarts = 0
CHECK_DEADLOCK FALSE
INVARIANTS BatchIsNotOrphaned ContiguousStream NothingIsSkipped
PROPERTY NoRefetch
