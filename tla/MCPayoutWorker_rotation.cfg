\* docs/RUNBOOK.md 5.3 with nothing outstanding.
CONSTANTS
    w1 = w1
    w2 = w2
    s1 = s1
    s2 = s2
    r1 = r1
    r2 = r2
    f1 = f1
    f2 = f2
    NULL = NULL
    Absent = Absent
    Wallets = {w1, w2}
    Signers = {s1, s2}
    Holders = {r1}
    Hashes <- Txs
    Credits <- MCCredits
    Owner <- MCOwner
    Amount <- MCAmount
    MinClaim = 1
    MaxClaim = 2
    MaxNonce = 3
    MaxClaims = 2
    MaxFaults = 0
    MaxForeign = 0
    Fees = {f1}
    World = {"claims", "switch", "rotate_idle"}
SPECIFICATION LiveSpec
PROPERTIES
    UnhaltedClaimsEnd
