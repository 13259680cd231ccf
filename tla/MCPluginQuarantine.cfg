SPECIFICATION Spec
CONSTANTS
    p1 = p1
    p2 = p2
    Plugins = {p1, p2}
    Deps <- MCDeps
    Corrupt = Corrupt
    Threshold = 2
    MaxBoots = 4
    MaxFaults = 1
    MaxStarts = 2
    MaxResets = 1
    MaxDamage = 1
CHECK_DEADLOCK FALSE
INVARIANTS
    BudgetHolds
PROPERTIES
    NoAutoStart
