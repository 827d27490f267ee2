SPECIFICATION FairSpec
CONSTANTS
    Callers = {t}
    Closers = {c1, c2}
    Keys = {k}
    NoThread = NoThread
    MaxFlows = 1
    MaxCalls = 2
PROPERTIES Promised CallsReturn
CHECK_DEADLOCK FALSE
