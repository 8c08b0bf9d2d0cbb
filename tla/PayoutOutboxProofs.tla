------------------------- MODULE PayoutOutboxProofs -------------------------
(* Proofs about PayoutOutbox for every value of its constants.             *)
EXTENDS PayoutOutbox, TLAPS

-----------------------------------------------------------------------------
(* Type correctness                                                        *)

\* A legal update with a well-typed row keeps the table well typed.
LEMMA UpdateType ==
    ASSUME claims \in [Claims -> ClaimRow], NEW c \in Claims,
           NEW row \in ClaimRow, Update(c, row)
    PROVE  claims' \in [Claims -> ClaimRow]
  BY DEF Update

LEMMA ReleaseType ==
    ASSUME ledger \in [Credits -> Claims \cup {NULL, Absent}],
           NEW c \in Claims, Release(c)
    PROVE  ledger' \in [Credits -> Claims \cup {NULL, Absent}]
  BY DEF Release

\* Cancelling keeps the types: a nonce handed back was allocated, so the
\* account's next nonce stays a natural number.
LEMMA CancelType ==
    ASSUME OutboxTypeOK, NEW c \in Claims, CancelBody(c)
    PROVE  /\ claims' \in [Claims -> ClaimRow]
           /\ ledger' \in [Credits -> Claims \cup {NULL, Absent}]
           /\ nextNonce' \in [Signers -> Nat \cup {NULL}]
  <1>1. claims[c] \in ClaimRow
    BY DEF OutboxTypeOK
  <1>2. claims' \in [Claims -> ClaimRow]
    <2>1. [claims[c] EXCEPT !.status = "failed", !.proof = "never_signed",
                            !.nonce = NULL] \in ClaimRow
      BY <1>1 DEF ClaimRow, Statuses, Terminal, Proofs
    <2> QED
      BY <2>1, UpdateType DEF CancelBody, OutboxTypeOK
  <1>3. ledger' \in [Credits -> Claims \cup {NULL, Absent}]
    BY ReleaseType DEF CancelBody, OutboxTypeOK
  <1>4. nextNonce' \in [Signers -> Nat \cup {NULL}]
    <2>1. CASE claims[c].nonce = NULL
      BY <2>1 DEF CancelBody, OutboxTypeOK
    <2>2. CASE claims[c].nonce # NULL
      <3>1. claims[c].nonce \in Nat
        BY <1>1, <2>2 DEF ClaimRow
      <3>2. ASSUME NEW s \in LastAllocatedTo(c)
            PROVE  nextNonce[s] - 1 \in Nat
        BY <3>1, <3>2 DEF LastAllocatedTo
      <3> QED
        BY <2>2, <3>2 DEF CancelBody, OutboxTypeOK
    <2> QED
      BY <2>1, <2>2
  <1> QED
    BY <1>2, <1>3, <1>4

LEMMA InitTypeOK == OutboxInit => OutboxTypeOK
  <1> SUFFICES ASSUME OutboxInit PROVE OutboxTypeOK
    OBVIOUS
  <1>1. NoRow \in ClaimRow
    BY DEF NoRow, ClaimRow, Statuses
  <1>2. claims \in [Claims -> ClaimRow]
    BY <1>1 DEF OutboxInit
  <1> QED
    BY <1>2 DEF OutboxInit, OutboxTypeOK, Free

\* A row after a worker's or an operator's call is well typed again.
LEMMA RowTypes ==
    ASSUME NEW row \in ClaimRow
    PROVE  /\ \A st \in Statuses : [row EXCEPT !.status = st] \in ClaimRow
           /\ \A st \in Statuses, p \in Proofs :
                 [row EXCEPT !.status = st, !.proof = p] \in ClaimRow
           /\ \A n \in Nat : [row EXCEPT !.nonce = n] \in ClaimRow
           /\ \A st \in Statuses, t \in Hashes, s \in Signers :
                 [row EXCEPT !.status = st, !.tx = t, !.signer = s] \in ClaimRow
           /\ \A t \in Hashes, k \in Kinds :
                 [row EXCEPT !.override = t, !.kind = k] \in ClaimRow
  BY ZenonT(90) DEF ClaimRow

LEMMA WorkerTypeOK ==
    ASSUME OutboxTypeOK, NEW h \in Holders, WorkerCall(h, Nat)
    PROVE  OutboxTypeOK'
  <1> USE DEF OutboxTypeOK
  <1>1. CASE AcquirePayoutLease(h)
    BY <1>1 DEF AcquirePayoutLease, treasury, switches
  <1>2. CASE ReleasePayoutLease(h)
    BY <1>2 DEF ReleasePayoutLease, Free, treasury, switches
  <1>3. ASSUME NEW s \in Signers, NEW n \in Nat, InitTreasuryAccount(h, s, n)
        PROVE  OutboxTypeOK'
    BY <1>3, OutboxAssumption DEF InitTreasuryAccount, Nonces, switches
  <1>4. ASSUME NEW s \in Signers, HaltTreasury(h, s)
        PROVE  OutboxTypeOK'
    BY <1>4 DEF HaltTreasury, switches
  <1>5. ASSUME NEW c \in Claims, NEW s \in Signers, CancelBlocked(h, c, s)
        PROVE  OutboxTypeOK'
    BY <1>5, CancelType DEF CancelBlocked, switches
  <1>6. ASSUME NEW c \in Claims, NEW s \in Signers, AssignClaimNonce(h, c, s)
        PROVE  OutboxTypeOK'
    <2>1. CASE claims[c].nonce # NULL
      BY <1>6, <2>1 DEF AssignClaimNonce, switches
    <2>2. CASE claims[c].nonce = NULL
      <3>1. nextNonce[s] \in Nat
        BY <1>6 DEF AssignClaimNonce, AssignOk, AssignGuard
      <3>2. claims' \in [Claims -> ClaimRow]
        BY <1>6, <2>2, <3>1, RowTypes, UpdateType DEF AssignClaimNonce
      <3> QED
        BY <1>6, <2>2, <3>1, <3>2 DEF AssignClaimNonce, switches
    <2> QED
      BY <2>1, <2>2
  <1>7. ASSUME NEW c \in Claims, NEW s \in Signers, NEW t \in Hashes,
               RecordSignedClaim(h, c, claims[c].nonce, t, s)
        PROVE  OutboxTypeOK'
    <2>1. claims' \in [Claims -> ClaimRow]
      BY <1>7, RowTypes, UpdateType DEF RecordSignedClaim, Statuses, Open
    <2> QED
      BY <1>7, <2>1 DEF RecordSignedClaim, treasury, switches
  <1>8. ASSUME NEW c \in Claims, MarkClaimBroadcast(h, c)
        PROVE  OutboxTypeOK'
    <2>1. claims' \in [Claims -> ClaimRow]
      BY <1>8, RowTypes, UpdateType DEF MarkClaimBroadcast, Statuses, Open
    <2> QED
      BY <1>8, <2>1 DEF MarkClaimBroadcast, treasury, switches
  <1>9. ASSUME NEW c \in Claims, RecordClaimAttempt(h, c)
        PROVE  OutboxTypeOK'
    BY <1>9, UpdateType DEF RecordClaimAttempt, treasury, switches
  <1>10. ASSUME NEW c \in Claims, NEW t \in Hashes, ConfirmClaim(h, c, t)
         PROVE  OutboxTypeOK'
    <2>1. claims' \in [Claims -> ClaimRow]
      BY <1>10, RowTypes, UpdateType DEF ConfirmClaim, Statuses, Terminal
    <2> QED
      BY <1>10, <2>1 DEF ConfirmClaim, treasury, switches
  <1>11. ASSUME NEW c \in Claims, NEW t \in Hashes, NEW p \in Proofs,
                FailClaim(h, c, p, t)
         PROVE  OutboxTypeOK'
    <2>1. claims' \in [Claims -> ClaimRow]
      BY <1>11, RowTypes, UpdateType DEF FailClaim, Statuses, Terminal
    <2> QED
      BY <1>11, <2>1, ReleaseType DEF FailClaim, treasury, switches
  <1>12. ASSUME NEW c \in Claims, FlagClaimReview(h, c)
         PROVE  OutboxTypeOK'
    <2>1. claims' \in [Claims -> ClaimRow]
      BY <1>12, RowTypes, UpdateType DEF FlagClaimReview, Statuses, Open
    <2>2. halted' \in [Signers -> BOOLEAN]
      BY <1>12 DEF FlagClaimReview
    <2> QED
      BY <1>12, <2>1, <2>2 DEF FlagClaimReview, switches
  <1> QED
    BY <1>1, <1>2, <1>3, <1>4, <1>5, <1>6, <1>7, <1>8, <1>9, <1>10, <1>11,
       <1>12
    DEF WorkerCall

LEMMA OperatorTypeOK ==
    ASSUME OutboxTypeOK, OperatorCall(Nat)
    PROVE  OutboxTypeOK'
  <1> USE DEF OutboxTypeOK
  <1>1. ASSUME NEW c \in Claims, ResolveFailed(c)
        PROVE  OutboxTypeOK'
    <2>1. claims' \in [Claims -> ClaimRow]
      BY <1>1, RowTypes, UpdateType DEF ResolveFailed, Statuses, Terminal, Proofs
    <2> QED
      BY <1>1, <2>1, ReleaseType DEF ResolveFailed, treasury, switches
  <1>2. ASSUME NEW c \in Claims, CancelQueuedClaim(c)
        PROVE  OutboxTypeOK'
    BY <1>2, CancelType DEF CancelQueuedClaim, switches
  <1>3. ASSUME NEW c \in Claims, NEW t \in Hashes, ResolveConfirmed(c, t)
        PROVE  OutboxTypeOK'
    <2>1. claims' \in [Claims -> ClaimRow]
      BY <1>3, RowTypes, UpdateType DEF ResolveConfirmed, Statuses, Terminal
    <2> QED
      BY <1>3, <2>1 DEF ResolveConfirmed, treasury, switches
  <1>4. ASSUME NEW c \in Claims, NEW t \in Hashes, NEW k \in Kinds,
               RecordClaimOverride(c, t, k)
        PROVE  OutboxTypeOK'
    <2>1. claims' \in [Claims -> ClaimRow]
      BY <1>4, RowTypes, UpdateType DEF RecordClaimOverride
    <2> QED
      BY <1>4, <2>1 DEF RecordClaimOverride, treasury, switches
  <1>5. ASSUME NEW s \in Signers, ResumePayouts(s)
        PROVE  OutboxTypeOK'
    BY <1>5 DEF ResumePayouts, switches
  <1>6. ASSUME NEW s \in Signers, NEW n \in Nat, AlignNonce(s, n)
        PROVE  OutboxTypeOK'
    BY <1>6, OutboxAssumption DEF AlignNonce, Nonces, switches
  <1>7. CASE SetPayouts(~payouts)
    BY <1>7 DEF SetPayouts, treasury
  <1>8. ASSUME NEW w \in Wallets,
               SetBlocked(blocked \cup {w}) \/ SetBlocked(blocked \ {w})
        PROVE  OutboxTypeOK'
    BY <1>8 DEF SetBlocked, treasury
  <1> QED
    BY <1>1, <1>2, <1>3, <1>4, <1>5, <1>6, <1>7, <1>8 DEF OperatorCall

LEMMA NextTypeOK == OutboxTypeOK /\ [OutboxStep(Nat)]_outboxVars => OutboxTypeOK'
  <1> SUFFICES ASSUME OutboxTypeOK, [OutboxStep(Nat)]_outboxVars
               PROVE  OutboxTypeOK'
    OBVIOUS
  <1>1. ASSUME NEW w \in Wallets, CreateRewardClaim(w)
        PROVE  OutboxTypeOK'
    <2>1. Prefix(w) \subseteq Credits
      BY DEF Prefix, Unclaimed
    <2>2. PICK c \in Claims :
            /\ claims' = [claims EXCEPT ![c] =
                   [NoRow EXCEPT !.status = "queued", !.wallet = w,
                                 !.credits = Prefix(w)]]
            /\ ledger' = [k \in Credits |->
                             IF k \in Prefix(w) THEN c ELSE ledger[k]]
      BY <1>1 DEF CreateRewardClaim
    <2>3. [NoRow EXCEPT !.status = "queued", !.wallet = w,
                        !.credits = Prefix(w)] \in ClaimRow
      BY <2>1 DEF NoRow, ClaimRow, Statuses, Open
    <2> QED
      BY <1>1, <2>2, <2>3 DEF CreateRewardClaim, OutboxTypeOK, treasury, switches
  <1>2. ASSUME NEW k \in Credits, InsertCredit(k)
        PROVE  OutboxTypeOK'
    BY <1>2 DEF InsertCredit, OutboxTypeOK, treasury, switches
  <1>3. CASE ExpireLease
    BY <1>3 DEF ExpireLease, OutboxTypeOK, treasury, switches
  <1>4. ASSUME NEW h \in Holders, WorkerCall(h, Nat)
        PROVE  OutboxTypeOK'
    BY <1>4, WorkerTypeOK
  <1>5. CASE OperatorCall(Nat)
    BY <1>5, OperatorTypeOK
  <1>6. CASE UNCHANGED outboxVars
    BY <1>6 DEF outboxVars, OutboxTypeOK
  <1> QED
    BY <1>1, <1>2, <1>3, <1>4, <1>5, <1>6 DEF OutboxStep

\* The bound on the nonces that callers pass matters to no proof.
LEMMA BoundedStep == [OutboxNext]_outboxVars => [OutboxStep(Nat)]_outboxVars
  <1>1. Nonces \subseteq Nat
    BY OutboxAssumption DEF Nonces
  <1> QED
    BY <1>1 DEF OutboxNext, OutboxStep, WorkerCall, OperatorCall

\* The outbox's rows stay well typed whoever calls its functions: an account's
\* next nonce never goes below zero, also when nonces are handed back.
THEOREM TypeCorrect == OutboxSpec => []OutboxTypeOK
  BY InitTypeOK, NextTypeOK, BoundedStep, PTL DEF OutboxSpec

-----------------------------------------------------------------------------
(* The inductive invariant.  OneSlot is inductive by itself.  LedgerAgrees  *)
(* needs that a claim row not created yet holds no credits; ReviewHalts     *)
(* needs that a claim past signing has a signer with an account, since that *)
(* account is the one a flag halts.                                         *)

PastSigning == InFlight \cup {"needs_review"}

Recorded ==
    \A c \in Claims : claims[c].status \in PastSigning =>
        /\ claims[c].signer \in Signers
        /\ nextNonce[claims[c].signer] # NULL

Unborn == \A c \in Claims : claims[c].status = "absent" => claims[c].credits = {}

Safe == LedgerAgrees /\ OneSlot /\ Recorded /\ ReviewHalts /\ Unborn

IInv == OutboxTypeOK /\ Safe

\* An account is never forgotten, and stays halted unless nothing is in review.
AccountsKept == \A s \in Signers : nextNonce[s] # NULL => nextNonce'[s] # NULL
HaltsKept == \A s \in Signers : halted[s] => halted'[s]
NoReview == \A c \in Claims : claims[c].status # "needs_review"

LEMMA InitSafe == OutboxInit => Safe
  BY OutboxAssumption
  DEF OutboxInit, Safe, LedgerAgrees, OneSlot, Recorded, ReviewHalts, Unborn,
      HoldsSlot, NoRow, PastSigning, InFlight, Claims

\* A step that touches neither the claims nor the ledger.
LEMMA Quiet ==
    ASSUME IInv, UNCHANGED <<claims, ledger>>, AccountsKept,
           HaltsKept \/ NoReview
    PROVE  Safe'
  <1> USE DEF IInv, Safe
  <1>1. LedgerAgrees' /\ OneSlot' /\ Unborn'
    BY DEF LedgerAgrees, OneSlot, Unborn, HoldsSlot
  <1>2. Recorded'
    BY DEF Recorded, AccountsKept
  <1>3. ReviewHalts'
    BY DEF ReviewHalts, Recorded, HaltsKept, NoReview, PastSigning
  <1> QED
    BY <1>1, <1>2, <1>3

RowHolds(row) == \/ row.status \in PastSigning
                 \/ row.status = "queued" /\ row.nonce # NULL

\* A step that updates one claim row, releasing its credits when it fails.
LEMMA Moved ==
    ASSUME IInv, NEW c \in Claims, NEW row \in ClaimRow, Update(c, row),
           row.status # "failed" => ledger' = ledger,
           row.status = "failed" => Release(c),
           AccountsKept, HaltsKept,
           RowHolds(row) => HoldsSlot(c) \/ \A d \in Claims \ {c} : ~HoldsSlot(d),
           row.status \in PastSigning =>
              row.signer \in Signers /\ nextNonce'[row.signer] # NULL,
           row.status = "needs_review" => halted'[row.signer]
    PROVE  Safe'
  <1> USE DEF IInv, Safe
  <1>1. claims' = [claims EXCEPT ![c] = row]
    BY DEF Update
  <1>2. claims \in [Claims -> ClaimRow]
    BY DEF OutboxTypeOK
  <1>3. /\ claims[c].status \notin {"failed", "absent"}
        /\ row.credits = claims[c].credits
        /\ row.status # "absent"
    BY DEF Update, TransitionOk, Edges
  <1>4. LedgerAgrees'
    <2>1. CASE row.status = "failed"
      <3>1. NULL \notin Claims
        BY OutboxAssumption DEF Claims
      <3>2. \A k \in Credits :
               ledger'[k] = IF ledger[k] = c THEN NULL ELSE ledger[k]
        BY <2>1 DEF Release
      <3>3. {k \in Credits : ledger'[k] = c} = {}
        BY <3>1, <3>2
      <3>4. ASSUME NEW d \in Claims, d # c
            PROVE  {k \in Credits : ledger'[k] = d} = {k \in Credits : ledger[k] = d}
        BY <3>1, <3>2, <3>4
      <3>5. claims'[c].status = "failed"
        BY <1>1, <1>2, <2>1
      <3> QED
        BY <1>1, <1>2, <3>3, <3>4, <3>5 DEF LedgerAgrees
    <2>2. CASE row.status # "failed"
      BY <1>1, <1>2, <1>3, <2>2 DEF LedgerAgrees
    <2> QED
      BY <2>1, <2>2
  <1>5. OneSlot'
    BY <1>1, <1>2 DEF OneSlot, HoldsSlot, RowHolds, PastSigning
  <1>6. Recorded'
    BY <1>1, <1>2 DEF Recorded, AccountsKept
  <1>7. ReviewHalts'
    BY <1>1, <1>2 DEF ReviewHalts, Recorded, HaltsKept, PastSigning
  <1>8. Unborn'
    BY <1>1, <1>2, <1>3 DEF Unborn
  <1> QED
    BY <1>4, <1>5, <1>6, <1>7, <1>8

\* Cancelling a queued claim.
LEMMA Cancelled ==
    ASSUME IInv, NEW c \in Claims, CancelOk(c), CancelBody(c), UNCHANGED halted
    PROVE  Safe'
  <1> DEFINE row == [claims[c] EXCEPT !.status = "failed",
                                      !.proof = "never_signed", !.nonce = NULL]
  <1>1. claims[c] \in ClaimRow
    BY DEF IInv, OutboxTypeOK
  <1>2. /\ row \in ClaimRow
        /\ row.status = "failed"
    BY <1>1 DEF ClaimRow, Statuses, Terminal, Proofs
  <1>3. AccountsKept
    <2>1. CASE claims[c].nonce = NULL
      BY <2>1 DEF CancelBody, AccountsKept
    <2>2. CASE claims[c].nonce # NULL
      <3>1. nextNonce' \in [Signers -> Nat \cup {NULL}]
        BY CancelType DEF IInv
      <3>2. claims[c].nonce \in Nat
        BY <1>1, <2>2 DEF ClaimRow
      <3>3. ASSUME NEW s \in Signers, s \in LastAllocatedTo(c)
            PROVE  nextNonce[s] - 1 # NULL
        BY <3>2, <3>3, OutboxAssumption DEF LastAllocatedTo
      <3> QED
        BY <2>2, <3>3 DEF CancelBody, AccountsKept
    <2> QED
      BY <2>1, <2>2
  <1>4. Update(c, row) /\ Release(c)
    BY DEF CancelBody
  <1> QED
    BY <1>2, <1>3, <1>4, Moved DEF HaltsKept, RowHolds, PastSigning, InFlight

\* A claim past signing goes on to a later status, or gets an override.
LEMMA Followed ==
    ASSUME IInv, NEW c \in Claims, NEW row \in ClaimRow, Update(c, row),
           claims[c].status \in PastSigning,
           row.status = claims[c].status \/ row.status = "broadcast",
           row.signer = claims[c].signer,
           UNCHANGED <<ledger, nextNonce, halted>>
    PROVE  Safe'
  <1>1. /\ claims[c].signer \in Signers
        /\ nextNonce[claims[c].signer] # NULL
    BY DEF IInv, Safe, Recorded
  <1>2. claims[c].status = "needs_review" => halted[claims[c].signer]
    BY DEF IInv, Safe, ReviewHalts
  <1>3. HoldsSlot(c)
    BY DEF HoldsSlot, PastSigning
  <1>4. row.status # "failed"
    BY DEF PastSigning, InFlight
  <1> QED
    BY <1>1, <1>2, <1>3, <1>4, Moved DEF HaltsKept, AccountsKept

\* A claim fails with a proof and gives its credits back.
LEMMA Failed ==
    ASSUME IInv, NEW c \in Claims, NEW p \in Proofs,
           Update(c, [claims[c] EXCEPT !.status = "failed", !.proof = p]),
           Release(c), UNCHANGED <<nextNonce, halted>>
    PROVE  Safe'
  <1> DEFINE row == [claims[c] EXCEPT !.status = "failed", !.proof = p]
  <1>1. claims[c] \in ClaimRow
    BY DEF IInv, OutboxTypeOK
  <1>2. row \in ClaimRow /\ row.status = "failed"
    BY <1>1 DEF ClaimRow, Statuses, Terminal
  <1> QED
    BY <1>2, Moved
    DEF HaltsKept, AccountsKept, RowHolds, PastSigning, InFlight

LEMMA WorkerSafe ==
    ASSUME IInv, NEW h \in Holders, WorkerCall(h, Nat)
    PROVE  Safe'
  <1> USE DEF PastSigning, InFlight
  <1>0. /\ \A c \in Claims : claims[c] \in ClaimRow
        /\ nextNonce \in [Signers -> Nat \cup {NULL}]
        /\ halted \in [Signers -> BOOLEAN]
    BY DEF IInv, OutboxTypeOK
  <1>1. CASE AcquirePayoutLease(h) \/ ReleasePayoutLease(h)
    BY <1>1, Quiet
    DEF AcquirePayoutLease, ReleasePayoutLease, treasury, AccountsKept, HaltsKept
  <1>2. ASSUME NEW s \in Signers, NEW n \in Nat, InitTreasuryAccount(h, s, n)
        PROVE  Safe'
    BY <1>0, <1>2, Quiet, OutboxAssumption
    DEF InitTreasuryAccount, AccountsKept, HaltsKept, Nonces
  <1>3. ASSUME NEW s \in Signers, HaltTreasury(h, s)
        PROVE  Safe'
    BY <1>0, <1>3, Quiet DEF HaltTreasury, AccountsKept, HaltsKept
  <1>4. ASSUME NEW c \in Claims, NEW s \in Signers, CancelBlocked(h, c, s)
        PROVE  Safe'
    BY <1>4, Cancelled DEF CancelBlocked, CancelBlockedOk
  <1>5. ASSUME NEW c \in Claims, NEW s \in Signers, AssignClaimNonce(h, c, s)
        PROVE  Safe'
    <2>1. CASE claims[c].nonce # NULL
      BY <1>5, <2>1, Quiet DEF AssignClaimNonce, AccountsKept, HaltsKept
    <2>2. CASE claims[c].nonce = NULL
      <3> DEFINE row == [claims[c] EXCEPT !.nonce = nextNonce[s]]
      <3>1. /\ claims[c].status = "queued"
            /\ nextNonce[s] \in Nat
            /\ \A d \in Claims \ {c} : ~HoldsSlot(d)
        BY <1>0, <1>5 DEF AssignClaimNonce, AssignOk, AssignGuard
      <3>2. row \in ClaimRow /\ row.status = "queued"
        BY <1>0, <3>1 DEF ClaimRow
      <3>3. AccountsKept
        BY <1>0, <1>5, <2>2, <3>1, OutboxAssumption
        DEF AssignClaimNonce, AccountsKept
      <3>4. Update(c, row) /\ ledger' = ledger /\ halted' = halted
        BY <1>5, <2>2 DEF AssignClaimNonce
      <3> QED
        BY <3>1, <3>2, <3>3, <3>4, Moved DEF HaltsKept
    <2> QED
      BY <2>1, <2>2
  <1>6. ASSUME NEW c \in Claims, NEW s \in Signers, NEW t \in Hashes,
               RecordSignedClaim(h, c, claims[c].nonce, t, s)
        PROVE  Safe'
    <2> DEFINE row == [claims[c] EXCEPT !.status = "signed", !.tx = t,
                                        !.signer = s]
    <2>1. row \in ClaimRow /\ row.status = "signed" /\ row.signer = s
      BY <1>0 DEF ClaimRow, Statuses, Open
    <2>2. HoldsSlot(c) /\ nextNonce[s] # NULL
      BY <1>6 DEF RecordSignedClaim, RecordSignedOk, HoldsSlot
    <2>3. Update(c, row) /\ UNCHANGED <<ledger, nextNonce, halted>>
      BY <1>6 DEF RecordSignedClaim, treasury
    <2> QED
      BY <2>1, <2>2, <2>3, Moved DEF HaltsKept, AccountsKept
  <1>7. ASSUME NEW c \in Claims, MarkClaimBroadcast(h, c)
        PROVE  Safe'
    <2> DEFINE row == [claims[c] EXCEPT !.status = "broadcast"]
    <2>1. /\ row \in ClaimRow /\ row.status = "broadcast"
          /\ row.signer = claims[c].signer
      BY <1>0 DEF ClaimRow, Statuses, Open
    <2>2. claims[c].status \in InFlight
      BY <1>7 DEF MarkClaimBroadcast, MarkOk
    <2>3. Update(c, row) /\ UNCHANGED <<ledger, nextNonce, halted>>
      BY <1>7 DEF MarkClaimBroadcast, treasury
    <2> QED
      BY <2>1, <2>2, <2>3, Followed
  <1>8. ASSUME NEW c \in Claims, RecordClaimAttempt(h, c)
        PROVE  Safe'
    <2>1. claims' = claims
      BY <1>0, <1>8 DEF RecordClaimAttempt, Update, IInv, OutboxTypeOK
    <2> QED
      BY <1>8, <2>1, Quiet
      DEF RecordClaimAttempt, treasury, AccountsKept, HaltsKept
  <1>9. ASSUME NEW c \in Claims, NEW t \in Hashes, ConfirmClaim(h, c, t)
        PROVE  Safe'
    <2> DEFINE row == [claims[c] EXCEPT !.status = "confirmed"]
    <2>1. row \in ClaimRow /\ row.status = "confirmed"
      BY <1>0 DEF ClaimRow, Statuses, Terminal
    <2>2. Update(c, row) /\ UNCHANGED <<ledger, nextNonce, halted>>
      BY <1>9 DEF ConfirmClaim, treasury
    <2> QED
      BY <2>1, <2>2, Moved DEF HaltsKept, AccountsKept, RowHolds
  <1>10. ASSUME NEW c \in Claims, NEW t \in Hashes, NEW p \in Proofs,
                FailClaim(h, c, p, t)
         PROVE  Safe'
    <2>1. Update(c, [claims[c] EXCEPT !.status = "failed", !.proof = p])
      BY <1>10 DEF FailClaim
    <2>2. Release(c) /\ UNCHANGED <<nextNonce, halted>>
      BY <1>10 DEF FailClaim, treasury
    <2> QED
      BY <2>1, <2>2, Failed
  <1>11. ASSUME NEW c \in Claims, FlagClaimReview(h, c)
         PROVE  Safe'
    <2> DEFINE row == [claims[c] EXCEPT !.status = "needs_review"]
    <2>1. /\ row \in ClaimRow /\ row.status = "needs_review"
          /\ row.signer = claims[c].signer
      BY <1>0 DEF ClaimRow, Statuses, Open
    <2>2. claims[c].status \in PastSigning
      BY <1>11 DEF FlagClaimReview, FlagOk
    <2>3. /\ claims[c].signer \in Signers
          /\ nextNonce[claims[c].signer] # NULL
      BY <2>2 DEF IInv, Safe, Recorded
    <2>4. Update(c, row) /\ UNCHANGED <<ledger, nextNonce>>
      BY <1>11 DEF FlagClaimReview
    <2>5. HaltsKept /\ halted'[claims[c].signer]
      BY <1>0, <1>11, <2>3 DEF FlagClaimReview, HaltsKept
    <2>6. HoldsSlot(c) /\ AccountsKept
      BY <2>2, <2>4 DEF HoldsSlot, AccountsKept
    <2> QED
      BY <2>1, <2>3, <2>4, <2>5, <2>6, Moved
  <1> QED
    BY <1>1, <1>2, <1>3, <1>4, <1>5, <1>6, <1>7, <1>8, <1>9, <1>10, <1>11
    DEF WorkerCall

LEMMA OperatorSafe ==
    ASSUME IInv, OperatorCall(Nat)
    PROVE  Safe'
  <1>0. /\ \A c \in Claims : claims[c] \in ClaimRow
        /\ nextNonce \in [Signers -> Nat \cup {NULL}]
        /\ halted \in [Signers -> BOOLEAN]
    BY DEF IInv, OutboxTypeOK
  <1>1. ASSUME NEW c \in Claims, ResolveFailed(c)
        PROVE  Safe'
    <2>1. "operator_review" \in Proofs
      BY DEF Proofs
    <2>2. Update(c, [claims[c] EXCEPT !.status = "failed",
                                      !.proof = "operator_review"])
      BY <1>1 DEF ResolveFailed
    <2>3. Release(c) /\ UNCHANGED <<nextNonce, halted>>
      BY <1>1 DEF ResolveFailed, treasury
    <2> QED
      BY <2>1, <2>2, <2>3, Failed
  <1>2. ASSUME NEW c \in Claims, CancelQueuedClaim(c)
        PROVE  Safe'
    BY <1>2, Cancelled DEF CancelQueuedClaim
  <1>3. ASSUME NEW c \in Claims, NEW t \in Hashes, ResolveConfirmed(c, t)
        PROVE  Safe'
    <2> DEFINE row == [claims[c] EXCEPT !.status = "confirmed"]
    <2>1. row \in ClaimRow /\ row.status = "confirmed"
      BY <1>0 DEF ClaimRow, Statuses, Terminal
    <2>2. Update(c, row) /\ UNCHANGED <<ledger, nextNonce, halted>>
      BY <1>3 DEF ResolveConfirmed, treasury
    <2> QED
      BY <2>1, <2>2, Moved
      DEF HaltsKept, AccountsKept, RowHolds, PastSigning, InFlight
  <1>4. ASSUME NEW c \in Claims, NEW t \in Hashes, NEW k \in Kinds,
               RecordClaimOverride(c, t, k)
        PROVE  Safe'
    <2> DEFINE row == [claims[c] EXCEPT !.override = t, !.kind = k]
    <2>1. /\ row \in ClaimRow /\ row.status = claims[c].status
          /\ row.signer = claims[c].signer
      BY <1>0 DEF ClaimRow
    <2>2. claims[c].status \in PastSigning
      BY <1>4 DEF RecordClaimOverride, PastSigning
    <2>3. Update(c, row) /\ UNCHANGED <<ledger, nextNonce, halted>>
      BY <1>4 DEF RecordClaimOverride, treasury
    <2> QED
      BY <2>1, <2>2, <2>3, Followed
  <1>5. ASSUME NEW s \in Signers, ResumePayouts(s)
        PROVE  Safe'
    BY <1>5, Quiet DEF ResumePayouts, AccountsKept, NoReview
  <1>6. ASSUME NEW s \in Signers, NEW n \in Nat, AlignNonce(s, n)
        PROVE  Safe'
    BY <1>0, <1>6, Quiet, OutboxAssumption
    DEF AlignNonce, AccountsKept, HaltsKept, Nonces
  <1>7. CASE SetPayouts(~payouts)
    BY <1>7, Quiet DEF SetPayouts, treasury, AccountsKept, HaltsKept
  <1>8. ASSUME NEW w \in Wallets,
               SetBlocked(blocked \cup {w}) \/ SetBlocked(blocked \ {w})
        PROVE  Safe'
    BY <1>8, Quiet DEF SetBlocked, treasury, AccountsKept, HaltsKept
  <1> QED
    BY <1>1, <1>2, <1>3, <1>4, <1>5, <1>6, <1>7, <1>8 DEF OperatorCall

\* A viewer's claim: a new row, holding the unclaimed credits it was summed over.
LEMMA CreatedSafe ==
    ASSUME IInv, NEW w \in Wallets, CreateRewardClaim(w)
    PROVE  Safe'
  <1> USE DEF IInv, Safe
  <1>1. PICK c \in Claims :
          /\ NextRow(c)
          /\ claims' = [claims EXCEPT ![c] =
                 [NoRow EXCEPT !.status = "queued", !.wallet = w,
                               !.credits = Prefix(w)]]
          /\ ledger' = [k \in Credits |->
                           IF k \in Prefix(w) THEN c ELSE ledger[k]]
    BY DEF CreateRewardClaim
  <1>2. /\ claims'[c].status = "queued"
        /\ claims'[c].nonce = NULL
        /\ claims'[c].credits = Prefix(w)
        /\ \A d \in Claims \ {c} : claims'[d] = claims[d]
    BY <1>1 DEF NoRow, OutboxTypeOK
  <1>3. UNCHANGED <<nextNonce, halted>>
    BY DEF CreateRewardClaim, treasury
  <1>4. LedgerAgrees'
    <2>1. /\ Prefix(w) \subseteq Credits
          /\ \A k \in Prefix(w) : ledger[k] = NULL
      BY DEF Prefix, Unclaimed
    <2>2. NULL \notin Claims
      BY OutboxAssumption DEF Claims
    <2>3. {k \in Credits : ledger[k] = c} = {}
      BY <1>1 DEF LedgerAgrees, Unborn, NextRow
    <2>4. {k \in Credits : ledger'[k] = c} = Prefix(w)
      BY <1>1, <2>1, <2>3
    <2>5. ASSUME NEW d \in Claims \ {c}
          PROVE  {k \in Credits : ledger'[k] = d} = {k \in Credits : ledger[k] = d}
      BY <1>1, <2>1, <2>2
    <2> QED
      BY <1>2, <2>4, <2>5 DEF LedgerAgrees
  <1>5. OneSlot' /\ Unborn'
    BY <1>2 DEF OneSlot, HoldsSlot, InFlight, Unborn
  <1>6. Recorded' /\ ReviewHalts'
    BY <1>2, <1>3 DEF Recorded, ReviewHalts, PastSigning, InFlight
  <1> QED
    BY <1>4, <1>5, <1>6

\* A credit won enters the ledger unclaimed, and changes no claim's credits.
LEMMA InsertedSafe ==
    ASSUME IInv, NEW k \in Credits, InsertCredit(k)
    PROVE  Safe'
  <1> USE DEF IInv, Safe
  <1>1. NULL \notin Claims /\ Absent \notin Claims
    BY OutboxAssumption DEF Claims
  <1>2. UNCHANGED <<claims, nextNonce, halted>>
    BY DEF InsertCredit, treasury
  <1>3. ASSUME NEW c \in Claims
        PROVE  {j \in Credits : ledger'[j] = c} = {j \in Credits : ledger[j] = c}
    BY <1>1 DEF InsertCredit, OutboxTypeOK
  <1>4. LedgerAgrees'
    BY <1>2, <1>3 DEF LedgerAgrees
  <1> QED
    BY <1>2, <1>4
    DEF OneSlot, HoldsSlot, Recorded, ReviewHalts, Unborn

LEMMA NextSafe == IInv /\ [OutboxStep(Nat)]_outboxVars => IInv'
  <1> SUFFICES ASSUME IInv, [OutboxStep(Nat)]_outboxVars
               PROVE  Safe'
    BY NextTypeOK DEF IInv
  <1>1. ASSUME NEW w \in Wallets, CreateRewardClaim(w)
        PROVE  Safe'
    BY <1>1, CreatedSafe
  <1>2. ASSUME NEW k \in Credits, InsertCredit(k)
        PROVE  Safe'
    BY <1>2, InsertedSafe
  <1>3. CASE ExpireLease
    BY <1>3, Quiet DEF ExpireLease, treasury, AccountsKept, HaltsKept
  <1>4. ASSUME NEW h \in Holders, WorkerCall(h, Nat)
        PROVE  Safe'
    BY <1>4, WorkerSafe
  <1>5. CASE OperatorCall(Nat)
    BY <1>5, OperatorSafe
  <1>6. CASE UNCHANGED outboxVars
    BY <1>6, Quiet DEF outboxVars, AccountsKept, HaltsKept
  <1> QED
    BY <1>1, <1>2, <1>3, <1>4, <1>5, <1>6 DEF OutboxStep

LEMMA Invariance == OutboxSpec => []IInv
  <1>1. OutboxInit => IInv
    BY InitTypeOK, InitSafe DEF IInv
  <1> QED
    BY <1>1, NextSafe, BoundedStep, PTL DEF OutboxSpec

\* Whoever calls the functions, with whatever arguments, a claim that can pay
\* holds exactly the credits it was created from and a failed one holds none.
THEOREM CreditsAccounted == OutboxSpec => []LedgerAgrees
  BY Invariance, PTL DEF IInv, Safe

\* At most one claim, over all treasury keys, holds an allocated nonce and is
\* not ended: payouts are strictly serial.
THEOREM StrictSerial == OutboxSpec => []OneSlot
  BY Invariance, PTL DEF IInv, Safe

\* The key of every claim that waits for a human is halted until the ruling.
THEOREM ReviewIsHalted == OutboxSpec => []ReviewHalts
  BY Invariance, PTL DEF IInv, Safe
=============================================================================
