SPECIFICATION Spec
CONSTANTS
    own = own
    other = other
    gateway = gateway
    core = core
    Keys = {own, other}
    Values = {1, 2, 3}
    Valid = {1, 2}
    Initial = 1
    Bundles = {gateway, core}
    Manageable = {gateway}
    Owner <- MCOwner
    NoOwner = NoOwner
    None = None
    MaxTxns = 3
    MaxFaults = 2
    MaxEdits = 1
    MaxOps = 1
    MaxCrashes = 1
CHECK_DEADLOCK FALSE
INVARIANTS
    MemoryMatchesFile
    RolledBackRestoresConfig
    MetaMatchesFile
