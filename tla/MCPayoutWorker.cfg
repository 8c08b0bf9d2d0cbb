\* Two overlapping runs, two wallets, one key, a crash or a lost answer.
CONSTANTS
    w1 = w1
    w2 = w2
    s1 = s1
    s2 = s2
    r1 = r1
    r2 = r2
    f1 = f1
    f2 = f2
    NULL = NULL
    Absent = Absent
    Wallets = {w1, w2}
    Signers = {s1}
    Holders = {r1, r2}
    Hashes <- Txs
    Credits <- MCCredits
    Owner <- MCOwner
    Amount <- MCAmount
    MinClaim = 1
    MaxClaim = 2
    MaxNonce = 3
    MaxClaims = 2
    MaxFaults = 1
    MaxForeign = 0
    Fees = {f1, f2}
    World = {"claims", "switch"}
SPECIFICATION Spec
SYMMETRY RunSymmetry
INVARIANTS
    PaidAtMostOnce
    OnlyPersistedBytes
PROPERTIES
    KeepsPromise
