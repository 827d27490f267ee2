\* Two connections, a resolver that changes its mind or fails once or twice.
SPECIFICATION Spec
CONSTANTS
    Threads = {t1, t2}
    Names = {"a", "b", "c"}
    ManagedNames = {"c"}
    ManagedIps = {"intranet"}
    Zones <- TwoZones
    NoName = NoName
    TTL = 2
    MaxEntries = 1
    MaxLookup = 1
    MaxTime = 5
    MaxMoves = 1
INVARIANTS CacheBounded DecisionCurrent
SYMMETRY Symmetry
CHECK_DEADLOCK FALSE
