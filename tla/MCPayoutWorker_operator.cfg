\* One run and everything an operator does: overrides, some from the wrong
\* account, rulings, early resumes, cancellations and key rotation.
CONSTANTS
    w1 = w1
    w2 = w2
    s1 = s1
    s2 = s2
    r1 = r1
    r2 = r2
    f1 = f1
    f2 = f2
    NULL = NULL
    Absent = Absent
    Wallets = {w1}
    Signers = {s1, s2}
    Holders = {r1}
    Hashes <- Txs
    Credits <- MCOne
    Owner <- MCOneOwner
    Amount <- MCOneAmount
    MinClaim = 1
    MaxClaim = 2
    MaxNonce = 3
    MaxClaims = 2
    MaxFaults = 0
    MaxForeign = 0
    Fees = {f1}
    World = {"claims", "switch", "override", "mistake", "review", "cancel", "rotate", "rotate_idle"}
SPECIFICATION Spec
SYMMETRY KeySymmetry
INVARIANTS
    TerminalIsTruth
    SignedNoncesSpent
