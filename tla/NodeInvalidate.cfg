SPECIFICATION Spec
CONSTANTS
    p = p
    q = q
    r = r
    Members <- Two
    Eager = {}
    Reads <- Circle
    Caller = {c1, c2}
    Impatient = {}
    Leasing = {}
    Slot = {1}
    Fallible = {}
    Invalidator = {i1, i2}
    Targets <- AnyProvider
    MaxAttempts = 3
    MaxReads = 2
    MayClose = FALSE
INVARIANTS
    TypeOK
    SingleFlight
    StaleIsPending
    InvalidatedIsGone
    RecursionEnds
PROPERTY
    MemoKept
SYMMETRY
    Symmetry
