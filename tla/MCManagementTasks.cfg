SPECIFICATION FairSpec
CONSTANTS
    Workers = {w1, w2}
    Keys = {k1}
    NoTask = NoTask
    Corrupt = Corrupt
    Capacity = 2
    Retention = 2
    MaxTasks = 2
    MaxFaults = 1
CHECK_DEADLOCK FALSE
INVARIANTS
    ResourceExclusive
    NeverReplayed
    AckedNotLost
PROPERTIES
    StopCompletes
    TaskFinishes
