SPECIFICATION Spec
CONSTANTS
    Value = {v1, v2}
    Lease = {l1}
    Invalidator = {i1}
    Closer = closer
    None = None
    Reader = {r1}
    MaxReads = 1
    MaxClosers = 2
    Joins = TRUE
    HasDeadline = TRUE
SYMMETRY Symmetry
INVARIANT TypeOK
INVARIANT DependentsFirst
INVARIANT ErrorsKept
INVARIANT CountIsHolders
INVARIANT LeaseKeepsTree
INVARIANT LastHolderCleans
PROPERTY CleanupsInOrder
