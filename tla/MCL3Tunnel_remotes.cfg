SPECIFICATION FairSpec
CONSTANTS
    Callers = {t}
    Closers = {c}
    Readers = {t}
    Keepalive = keepalive
    Groups = {g1, g2}
    Major = g1
    Remotes = {r1, r2}
    NoRemote = NoRemote
    NoThread = NoThread
    Targets = {TRUE, FALSE}
    MaxPackets = 1
INVARIANTS MapAgrees AtMostOneSurvivor
PROPERTIES CloseReturns SessionRestored
CHECK_DEADLOCK FALSE
