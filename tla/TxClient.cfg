SPECIFICATION FairSpec
CONSTANTS
    t1 = t1
    t2 = t2
    e1 = e1
    e2 = e2
    Submissions = {t1, t2}
    Body <- MCBody
    Gas <- MCGas
    Endpoints <- MCEndpoints
    FirstSequence = 0
    MaxForeign = 1
    MaxTimeouts = 2
    MaxTroubles = 1
    MaxDrops = 1
INVARIANTS
    EndpointsAreKept
    CommittedAtMostOnce
    SequenceIsKnown
PROPERTIES
    SubmissionsEnd
CHECK_DEADLOCK FALSE
