SPECIFICATION Spec
CONSTANTS
    MaxHeight = 5
    Cids = {c1}
    SamplingWindow = 2
    PruningWindow = 1
    BatchSize = 2
    SlowSyncThreshold = 0
    HeadLag = 0
    StartTime = 3
    SubCapacity = 1
    MaxDisconnects = 1
    MaxRestarts = 0
CHECK_DEADLOCK FALSE
PROPERTY SyncsInsideWindow
