SPECIFICATION LoaderSpec
CONSTANTS
    ba = ba
    bb = bb
    bc = bc
    bh = bh
    Bundles = {ba, bb, bc, bh}
    Requires <- MCRequires
    Level <- MCLevel
    Automatic = {bb, bc, bh}
    Host = bh
    Console = bb
    Manageable = {bb}
    Removable = {ba, bc}
    Administered = {ba, bc, bh}
    Web = {a1}
    Workers = {w1}
    Control = Control
    Nobody = Nobody
    MaxOps = 2
    MaxReloads = 1
    MaxThrows = 1
    MaxEvents = 2
INVARIANTS
    StateIsTrue
PROPERTIES
    NeedsUp
    DependentsFirst
    
