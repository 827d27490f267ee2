SPECIFICATION FairSpec
CONSTANTS
    Stoppers = {s1, s2}
    NoThread = NoThread
    MaxHandles = 1
    Tunnels = {TRUE}
    MaxConns = 2
INVARIANTS StopIsBarrier TablesAgree AtMostOneMissed
PROPERTIES StopWaitsOnlyForMissed
CHECK_DEADLOCK FALSE
