SPECIFICATION Spec
CONSTANTS
    Value = {v1, v2}
    Lease = {l1}
    Invalidator = {i1}
    Closer = closer
    None = None
    Reader = {r1}
    MaxReads = 1
    MaxClosers = 1
    Joins = FALSE
    HasDeadline = FALSE
SYMMETRY Symmetry
INVARIANT LastHolderCleans
