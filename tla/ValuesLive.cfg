SPECIFICATION FairSpec
CONSTANTS
    Value = {v1, v2}
    Lease = {l1}
    Invalidator = {}
    Closer = closer
    None = None
    Reader = {r1}
    MaxReads = 2
    MaxClosers = 1
    Joins = TRUE
    HasDeadline = TRUE
INVARIANT ReturnedIsClean
PROPERTY AllLetGo
PROPERTY CloseEnds
PROPERTY OwnershipKept
