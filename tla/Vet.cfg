SPECIFICATION FairSpec
CONSTANTS
    open = open
    new = new
    helper = helper
    other = other
    provider = provider
    eager = eager
    lazy = lazy
    here = here
    spawn = spawn
    parallel = parallel
    later = later
    nested = nested
    eagerly = eagerly
    kept = kept
    None = None
    Literal = {eager, lazy, here, spawn, parallel, later, nested, eagerly, kept}
    Packages <- DepThenApp
    Use <- LiteralUse
    Home <- LiteralHome
    Constructing <- GraphFunctions
    Programs <- Both
INVARIANTS
    TypeOK
    FactsExact
    ViaIsPath
    ConstructionReported
    BuilderReadsReportedOnce
    EscapesReported
    BackgroundReported
PROPERTIES
    LoopProgresses
    Ends
