SPECIFICATION CSpec
CONSTANTS
    Recorders = {e1, e2}
    Listeners = {l1}
    None = None
    NulEvents = {e1}
    Threads = {t1, t2}
    Sizes <- SomeSizes
    MaxCalls = 2
INVARIANTS HeapIsReachable RetiredIsQuiet EveryEventHeard
SYMMETRY Symmetry
CHECK_DEADLOCK FALSE
