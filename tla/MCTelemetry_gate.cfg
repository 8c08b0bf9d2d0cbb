CONSTANTS
    p1 = p1
    w1 = w1
    c1 = c1
    NULL = NULL
    LoopTypes = {"hit", "miss"}
    ClipTypes = {"miss"}
    Watchdog = FALSE
    LockGivesUp = FALSE
    QueueCap = 2
    Batch = 1
    WriterTime = 4
    MaxEvents = 2
    MaxFaults = 0
    Predictions = {p1}
    Wallets = {w1}
    Callers = {c1}
    LocksAt <- MCLocksAt
    ResolvesAt <- MCResolvesAt
    Rules <- MCRules
    Pool <- MCPool
    Grace = 1
    MaxPerPrediction = 1
    WalletCap = 1
    DailyCaps = {1}
    MaxAborts = 0
    MaxFlips = 0
SPECIFICATION Spec
INVARIANTS GateIsEvidence
CHECK_DEADLOCK FALSE
