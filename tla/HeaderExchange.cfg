SPECIFICATION FairSpec
CONSTANTS
    MaxHeight = 5
    full = full
    pruned = pruned
    fresh = fresh
    c1 = c1
    c2 = c2
    Peers = {full, pruned, fresh}
    Trusted = {full, pruned, fresh}
    Archival = {full}
    Held <- MCHeld
    Heads <- MCHeads
    Callers = {c1, c2}
    NoPeer = NoPeer
    MaxTries = 3
    MinHeadResponses = 2
    MaxFailures = 1
    MinAmount = 1
    MaxAmount = 2
    MaxConcurrent = 2
    Workloads <- MCWorkloads
INVARIANTS
    RangeIsPartitioned
    ResultIsTheRange
    LastTryIsArchival
PROPERTIES
    HeadIsAgreed
    SessionEnds
    HeadCallersAreAnswered
CHECK_DEADLOCK FALSE
