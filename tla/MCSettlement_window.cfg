CONSTANTS
    p1 = p1
    p2 = p2
    w1 = w1
    w2 = w2
    c1 = c1
    c2 = c2
    NULL = NULL
    Predictions = {p2}
    Wallets = {w1}
    Callers = {c1}
    Grace = 1
    MaxPerPrediction = 3
    DailyCaps = {4}
    WalletCap = 3
    MaxTime = 4
    MaxEvents = 3
    MaxAborts = 1
    MaxFlips = 0
    LocksAt <- MCLocksAt
    ResolvesAt <- MCResolvesAt
    Pool <- MCPool
    Rules <- WindowRules
SPECIFICATION LiveSpec
INVARIANTS SettledOnWholeWindow
PROPERTIES EveryRoundEnds
CHECK_DEADLOCK FALSE
