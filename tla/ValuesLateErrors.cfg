SPECIFICATION Spec
CONSTANTS
    Value = {v1, v2}
    Lease = {l1}
    Invalidator = {}
    Closer = closer
    None = None
    Reader = {r1}
    MaxReads = 1
    MaxClosers = 1
    Joins = TRUE
    HasDeadline = FALSE
SYMMETRY Symmetry
INVARIANT LateErrorsReturned
