SPECIFICATION FairSpec
CONSTANTS
    Sinks = {"history", "webhook"}
    Slow = {"webhook"}
    Audit = {"history"}
    Silenced = {1}
    Capacity = 2
    Threshold = 2
    MaxNotes = 3
    MaxChannels = 2
    MaxFaults = 2
CHECK_DEADLOCK FALSE
INVARIANTS
    Accounted
PROPERTIES
    Isolated
    StopReturns
