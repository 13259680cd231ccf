SPECIFICATION FairSpec
CONSTANTS
    Pids = {p1, p2, p3}
    NoPid = NoPid
    None = None
    MaxRestarts = 1
    Window = 2
    Grace = 1
    Timeout = 1
    RequireFile = TRUE
CHECK_DEADLOCK FALSE
INVARIANTS
    NoRestartStorm
PROPERTIES
    WatchdogSparesYoung
    HungIsKilled
    ShutdownUnlessUnseen
