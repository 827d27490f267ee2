SPECIFICATION Spec
CONSTANTS
    Callers = {t1, t2}
    Closers = {}
    Keys = {k1, k2}
    NoThread = NoThread
    MaxFlows = 2
    MaxCalls = 1
SYMMETRY Symmetry
INVARIANTS OwnToken NoMissingToken AskedOnce NoWaiterLeft
CHECK_DEADLOCK FALSE
