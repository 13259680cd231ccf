SPECIFICATION Spec
CONSTANTS
    Handlers = {h1, h2}
    Ids = {a, b, c}
    Prints = {x, y}
    None = None
    Corrupt = Corrupt
    Retention = 2
    MaxStamps = 5
    MaxFaults = 1
    MaxCrashes = 1
SYMMETRY Symmetry
CHECK_DEADLOCK FALSE
INVARIANTS
    AtMostOnce
    ExclusiveUnlessDropped
    ReplayTruth
