SPECIFICATION FairSpec
CONSTANTS
    Packs = {b1}
    Contents = {v1, v2}
    Absent = Absent
    Half = Half
    StableScans = 2
    Directory = TRUE
    MaxDeploys = 3
    MaxFailures = 2
    MaxStarts = 2
    MaxReloads = 1
CHECK_DEADLOCK FALSE
INVARIANTS
    Settled

    
