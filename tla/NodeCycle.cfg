SPECIFICATION Spec
CONSTANTS
    p = p
    q = q
    r = r
    Members <- Three
    Eager = {}
    Reads <- Knot
    Caller = {c1, c2}
    Impatient = {}
    Leasing = {}
    Slot = {1, 2}
    Fallible = {}
    Invalidator = {}
    Targets <- AnyProvider
    MaxAttempts = 3
    MaxReads = 2
    MayClose = FALSE
INVARIANTS
    NoWaitCycle
    WaitsExact
    CycleIsReal
    NobodyStuck
SYMMETRY
    Symmetry
