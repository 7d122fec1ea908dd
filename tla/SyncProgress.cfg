SPECIFICATION FairSpec
CONSTANTS
    MaxHeight = 4
    Cids = {c1}
    SamplingWindow = 2
    PruningWindow = 2
    BatchSize = 2
    SlowSyncThreshold = 0
    HeadLag = 1
    StartTime = 2
    SubCapacity = 1
    MaxDisconnects = 0
    MaxRestarts = 1
CHECK_DEADLOCK FALSE
PROPERTIES HeadIsSynced WindowIsSynced
