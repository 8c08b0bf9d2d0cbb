CONSTANTS
    NULL = NULL
    LoopTypes = {"hit", "miss"}
    ClipTypes = {"hit"}
    Watchdog = TRUE
    LockGivesUp = TRUE
    QueueCap = 2
    Batch = 1
    WriterTime = 3
    MaxEvents = 3
    MaxFaults = 1
SPECIFICATION WriterLiveSpec
INVARIANTS HeartbeatHonest NothingLost OncePerEvent
PROPERTIES EventsLand
CHECK_DEADLOCK FALSE
