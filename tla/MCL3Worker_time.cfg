SPECIFICATION WorkerSpec
CONSTANTS
    HeartbeatInterval = 2
    LivenessTimeout = 5
    Batch = 2
    Rtt = 1
    MaxTime = 10
    MaxCommands = 1
    MaxNotices = 1
    MaxKernel = 2
INVARIANTS SilenceNoticed NoFalseAlarm NothingForgotten
CHECK_DEADLOCK FALSE
