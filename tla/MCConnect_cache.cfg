\* Two callers share the cache while the route moves and a poll is interrupted.
SPECIFICATION ConnectSpec
CONSTANTS
    Callers = {c1, c2}
    Modes = {"auto", "en1", "off"}
    Ifaces = {"en0", "en1"}
    Unbound = Unbound
    NumAddrs = 2
    FamilyOf <- OneFamily
    Reaches <- FewReaches
    Timeout = 2
    AttemptTimeout = 1
    TTL = 3
    MaxTime = 7
    MaxMoves = 1
    MaxSignals = 1
INVARIANTS CallTime FirstReachable
CHECK_DEADLOCK FALSE
