SPECIFICATION AppSpec
CONSTANTS
    e = e
    f = f
    p = p
    q = q
    Members <- All
    Eager = {e, f}
    Reads <- Program
    Caller = {c1}
    Impatient = {c1}
    Leasing = {c1}
    Slot = {1}
    Fallible = {f, p}
    Invalidator = {i1}
    Targets <- AnyProvider
    MaxAttempts = 3
    MaxReads = 1
    MayClose = TRUE
    Overlap = FALSE
INVARIANTS
    AppTypeOK
    ServedOpen
    EveryProviderShut
    OnlyHoldersLeft
    EagerNeverBuilt
    ReleasedOnce
    ProfileTrue
    ClosedIsClean
