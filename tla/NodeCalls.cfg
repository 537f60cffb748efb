SPECIFICATION FairSpec
CONSTANTS
    p = p
    q = q
    r = r
    Members <- Two
    Eager = {}
    Reads <- Circle
    Caller = {c1, c2}
    Impatient = {c2}
    Leasing = {c1}
    Slot = {1}
    Fallible = {q}
    Invalidator = {i1}
    Targets <- OnlyP
    MaxAttempts = 3
    MaxReads = 2
    MayClose = TRUE
PROPERTY
    CallsReturn
