SPECIFICATION Spec
CONSTANTS
    p = p
    q = q
    r = r
    Members <- Two
    Eager = {}
    Reads <- Chain
    Caller = {c1}
    Impatient = {}
    Leasing = {}
    Slot = {1}
    Fallible = {}
    Invalidator = {i1, i2}
    Targets <- AnyProvider
    MaxAttempts = 3
    MaxReads = 2
    MayClose = FALSE
INVARIANTS
    GoneOnReturn
