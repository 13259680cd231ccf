SPECIFICATION Spec
CONSTANTS
    a = a
    b = b
    r = r
    w1 = w1
    w2 = w2
    Names = {a, b, r}
    NoName = NoName
    Slots <- MCSlots
    Workers = {w1, w2}
    Main = Main
    Nobody = Nobody
    MaxPids = 5
    MaxOps = 3
    MaxFaults = 1
PROPERTIES
    Supervises
    RestartIsFresh
    YoungestFirst
    ShutdownEnds
