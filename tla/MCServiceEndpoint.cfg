SPECIFICATION FairSpec
CONSTANTS
    CorrIds = {c1, c2}
    NoId = NoId
    CacheLimit = 1
    TraceEnabled = TRUE
    MaxSamples = 3
    MaxEvents = 1
    MaxStarts = 2
CHECK_DEADLOCK FALSE
INVARIANTS
    ReplayWindow
    ReplyFidelity
    NoWriteAfterDelete
PROPERTIES
    StopCompletes
    AcceptedIsAnswered
