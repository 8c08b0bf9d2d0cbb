\* Two wallets, three credits, one treasury key, one lease holder.
CONSTANTS
    w1 = w1
    w2 = w2
    s1 = s1
    s2 = s2
    h1 = h1
    h2 = h2
    x1 = x1
    x2 = x2
    NULL = NULL
    Absent = Absent
    Wallets <- MCWallets
    Signers = {s1}
    Holders = {h1}
    Hashes = {x1, x2}
    Credits <- MCCredits
    Owner <- MCOwner
    Amount <- MCAmount
    MinClaim = 1
    MaxClaim = 2
    MaxNonce = 1
    MaxClaims = 2
SPECIFICATION OutboxSpec
SYMMETRY Symmetry
INVARIANTS
    LedgerAgrees
    OneSlot
    ReviewHalts
CHECK_DEADLOCK FALSE
