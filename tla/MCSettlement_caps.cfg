CONSTANTS
    p1 = p1
    p2 = p2
    w1 = w1
    w2 = w2
    c1 = c1
    c2 = c2
    NULL = NULL
    Predictions = {p1, p2}
    Wallets = {w1, w2}
    Callers = {c1, c2}
    Grace = 1
    MaxPerPrediction = 3
    DailyCaps = {1, 4}
    WalletCap = 3
    MaxTime = 3
    MaxEvents = 0
    MaxAborts = 1
    MaxFlips = 1
    LocksAt <- MCLocksAt
    ResolvesAt <- MCResolvesAt
    Pool <- MCPool
    Rules <- CapsRules
SYMMETRY Symmetry
SPECIFICATION Spec
INVARIANTS CapsHold StreaksEarned
PROPERTIES KeepsRound
CHECK_DEADLOCK FALSE
