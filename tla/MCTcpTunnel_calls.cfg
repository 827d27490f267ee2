SPECIFICATION FairSpec
CONSTANTS
    Writers = {w}
    Closers = {w, r}
    Readers = {r}
    NoThread = NoThread
    LevelTriggered = FALSE
    WakeCapacity = 1
    MaxWrites = 1
    MaxFrames = 1
    MaxLen = 2
INVARIANTS OkIffOnWire WireWellFormed CloseMeansStopped NoStrandedCommand StreamInOrder
PROPERTIES CallsReturn ArrivedIsDelivered
