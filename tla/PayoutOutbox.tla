---------------------------- MODULE PayoutOutbox ----------------------------
(***************************************************************************)
(* The database half of the payout pipeline:                               *)
(* infra/supabase/migrations/20260914100000_payout_outbox.sql.             *)
(*                                                                         *)
(* One action per SQL function.  A function is one transaction that locks  *)
(* the rows it decides on (FOR UPDATE), so it is one atomic step here.  A  *)
(* `raise exception` rolls the transaction back, so it is a false guard.   *)
(* Every caller (worker, cron tick, claim route, operator) may call with   *)
(* any argument: the migration puts the fence, the proofs and the state    *)
(* machine in the functions, not in trust in the caller.                   *)
(*                                                                         *)
(* Data abstraction.  A claim's amount is the set of credits it was        *)
(* created from; raw_tx, tx_hash and the other signed columns, written     *)
(* once and together, are one value `tx`; attempts, error codes, halt      *)
(* reasons and timestamps are left out.                                    *)
(***************************************************************************)
EXTENDS Integers, FiniteSets, FiniteSetsExt

CONSTANTS
    Wallets,        \* viewers' wallet addresses
    Signers,        \* treasury addresses
    Holders,        \* payout runs; each run draws a fresh lease holder uuid
    Hashes,         \* signed transactions, identified with their hashes
    Credits,        \* reward_ledger ids; smaller = older
    Owner,          \* Owner[k]: the wallet of credit k
    Amount,         \* Amount[k]: its amount
    MinClaim,       \* p_min_amount and p_max_amount of the claim route
    MaxClaim,
    MaxNonce,       \* bound: the nonces of 0 .. MaxNonce are passed by callers
    MaxClaims,      \* bound: claim rows are 1 .. MaxClaims, in creation order
    NULL,           \* SQL null
    Absent          \* ledger value of a credit that is not in the table yet

ASSUME OutboxAssumption ==
    /\ Credits \subseteq Nat
    /\ Owner \in [Credits -> Wallets]
    /\ Amount \in [Credits -> Nat \ {0}]
    /\ MinClaim \in Nat \ {0} /\ MaxClaim \in Nat /\ MinClaim <= MaxClaim
    /\ MaxClaims \in Nat /\ MaxNonce \in Nat
    /\ NULL \notin Nat \cup Wallets \cup Signers \cup Holders \cup Hashes
    /\ NULL \notin {"pay", "cancel", "receipt_reverted", "cancel_receipt",
                    "operator_review", "never_signed"}
    /\ Absent \notin Nat \cup {NULL}

Claims == 1 .. MaxClaims
Nonces == 0 .. MaxNonce

VARIABLES
    claims,     \* reward_claims
    ledger,     \* reward_ledger.claim_id (Absent: not credited yet)
    nextNonce,  \* treasury_accounts.next_nonce (NULL: no row)
    halted,     \* treasury_accounts.halted
    lease,      \* the payout_lease singleton
    payouts,    \* site_config 'rewards'.payouts
    blocked     \* policy_flags: blocked wallets

treasury == <<nextNonce, halted>>
switches == <<payouts, blocked>>
outboxVars == <<claims, ledger, nextNonce, halted, lease, payouts, blocked>>

Terminal == {"confirmed", "failed"}
InFlight == {"signed", "broadcast"}
Open     == {"queued", "signed", "broadcast", "needs_review"}
Statuses == Open \cup Terminal \cup {"absent"}
Kinds    == {"pay", "cancel"}
Proofs   == {"receipt_reverted", "cancel_receipt", "operator_review",
             "never_signed"}

ClaimRow ==
    [status: Statuses, wallet: Wallets \cup {NULL}, credits: SUBSET Credits,
     nonce: Nat \cup {NULL}, tx: Hashes \cup {NULL},
     signer: Signers \cup {NULL}, override: Hashes \cup {NULL},
     kind: Kinds \cup {NULL}, proof: Proofs \cup {NULL}]

NoRow == [status |-> "absent", wallet |-> NULL, credits |-> {},
          nonce |-> NULL, tx |-> NULL, signer |-> NULL, override |-> NULL,
          kind |-> NULL, proof |-> NULL]

Free == [holder |-> NULL, live |-> FALSE]

OutboxInit ==
    /\ claims = [c \in Claims |-> NoRow]
    /\ ledger = [k \in Credits |-> Absent]
    /\ nextNonce = [s \in Signers |-> NULL]
    /\ halted = [s \in Signers |-> FALSE]
    /\ lease = Free
    /\ payouts = FALSE
    /\ blocked = {}

-----------------------------------------------------------------------------
(* The two guard triggers and the unique index: every write passes them.   *)

Edges ==
    {<<"queued", "queued">>, <<"queued", "signed">>, <<"queued", "failed">>,
     <<"signed", "signed">>, <<"signed", "broadcast">>,
     <<"signed", "confirmed">>, <<"signed", "failed">>,
     <<"signed", "needs_review">>, <<"broadcast", "broadcast">>,
     <<"broadcast", "confirmed">>, <<"broadcast", "failed">>,
     <<"broadcast", "needs_review">>, <<"needs_review", "needs_review">>,
     <<"needs_review", "confirmed">>, <<"needs_review", "failed">>}

ProofFits(from, proof) ==
    CASE from = "queued"       -> proof = "never_signed"
      [] from \in InFlight     -> proof \in {"receipt_reverted", "cancel_receipt"}
      [] from = "needs_review" -> proof = "operator_review"
      [] OTHER                 -> FALSE

TransitionOk(old, new) ==
    /\ <<old.status, new.status>> \in Edges
    /\ new.wallet = old.wallet /\ new.credits = old.credits
    /\ (old.status = "queued" /\ new.status \in {"queued", "failed"}) =>
          /\ new.tx = NULL
          /\ (old.nonce # NULL /\ new.nonce # NULL) => new.nonce = old.nonce
    /\ old.tx # NULL =>
          new.nonce = old.nonce /\ new.tx = old.tx /\ new.signer = old.signer
    /\ old.override # NULL =>
          new.override = old.override /\ new.kind = old.kind
    /\ new.status \in {"signed", "broadcast", "confirmed"} =>
          new.nonce # NULL /\ new.tx # NULL /\ new.signer # NULL
    /\ IF new.status = "failed"
       THEN /\ ProofFits(old.status, new.proof)
            /\ new.proof = "never_signed" => new.tx = NULL /\ new.nonce = NULL
       ELSE new.proof = NULL

\* reward_claims_nonce_key: one row per nonce, whoever the signer is.
NonceUnique(c, n) == n = NULL \/ \A d \in Claims \ {c} : claims[d].nonce # n

Update(c, row) ==
    /\ TransitionOk(claims[c], row)
    /\ NonceUnique(c, row.nonce)
    /\ claims' = [claims EXCEPT ![c] = row]

Release(c) ==
    ledger' = [k \in Credits |-> IF ledger[k] = c THEN NULL ELSE ledger[k]]

-----------------------------------------------------------------------------
(* Claiming                                                                *)

Unclaimed(w) == {k \in Credits : Owner[k] = w /\ ledger[k] = NULL}

\* The oldest-first loop stops at the first credit that would overflow.
Prefix(w) ==
    LET UpTo(k) == {j \in Unclaimed(w) : j <= k}
    IN  {k \in Unclaimed(w) :
            MapThenSumSet(LAMBDA j : Amount[j], UpTo(k)) <= MaxClaim}

NextRow(c) == /\ claims[c].status = "absent"
              /\ \A d \in Claims : d < c => claims[d].status # "absent"

\* Mutant: attaches by wallet instead of by the list of ids that was summed.
CreateRewardClaimByWallet(w) ==
    /\ payouts
    /\ w \notin blocked
    /\ Prefix(w) # {}
    /\ \A d \in Claims : claims[d].wallet = w => claims[d].status \notin Open
    /\ \E c \in Claims :
        /\ NextRow(c)
        /\ claims' = [claims EXCEPT ![c] =
               [NoRow EXCEPT !.status = "queued", !.wallet = w,
                             !.credits = Prefix(w)]]
        /\ ledger' = [k \in Credits |->
                         IF k \in Unclaimed(w) THEN c ELSE ledger[k]]
    /\ UNCHANGED <<treasury, lease, switches>>

CreateRewardClaim(w) ==
    LET take == Prefix(w) IN
    /\ payouts
    /\ w \notin blocked
    /\ take # {}
    /\ MapThenSumSet(LAMBDA j : Amount[j], take) >= MinClaim
    /\ \A d \in Claims : claims[d].wallet = w => claims[d].status \notin Open
    /\ \E c \in Claims :
        /\ NextRow(c)
        /\ claims' = [claims EXCEPT ![c] =
               [NoRow EXCEPT !.status = "queued", !.wallet = w,
                             !.credits = take]]
        /\ ledger' = [k \in Credits |-> IF k \in take THEN c ELSE ledger[k]]
    /\ UNCHANGED <<treasury, lease, switches>>

\* settle_due_predictions inserts a winner's credit, unclaimed.
InsertCredit(k) ==
    /\ ledger[k] = Absent
    /\ \A j \in Credits : j < k => ledger[j] # Absent
    /\ ledger' = [ledger EXCEPT ![k] = NULL]
    /\ UNCHANGED <<claims, treasury, lease, switches>>

-----------------------------------------------------------------------------
(* The lease                                                               *)

LeaseHeld(h) == lease = [holder |-> h, live |-> TRUE]

\* Mutant: takes a lease that was released, never one that ran out.
AcquireReleased(h) == lease.holder = NULL

AcquireOk(h) == ~lease.live \/ lease.holder = h

AcquirePayoutLease(h) ==
    /\ AcquireOk(h)
    /\ lease' = [holder |-> h, live |-> TRUE]
    /\ UNCHANGED <<claims, ledger, treasury, switches>>

ReleasePayoutLease(h) ==
    /\ lease' = IF lease.holder = h THEN Free ELSE lease
    /\ UNCHANGED <<claims, ledger, treasury, switches>>

\* now() passes expires_at; the holder is not told.
ExpireLease ==
    /\ lease.live
    /\ lease' = [lease EXCEPT !.live = FALSE]
    /\ UNCHANGED <<claims, ledger, treasury, switches>>

-----------------------------------------------------------------------------
(* Worker functions: each asserts the lease first                          *)

InitOk(h, s, n) ==
    /\ LeaseHeld(h)
    /\ nextNonce[s] = NULL =>
          \A c \in Claims : claims[c].signer = s => claims[c].nonce < n

InitTreasuryAccount(h, s, n) ==
    /\ InitOk(h, s, n)
    /\ nextNonce' = IF nextNonce[s] = NULL
                    THEN [nextNonce EXCEPT ![s] = n] ELSE nextNonce
    /\ UNCHANGED <<claims, ledger, halted, lease, switches>>

\* A claim that blocks the assignment of any other claim's nonce.
HoldsSlot(c) == \/ claims[c].status \in InFlight \cup {"needs_review"}
                \/ claims[c].status = "queued" /\ claims[c].nonce # NULL

\* The account cancel_queued_claim hands the nonce of c back to.
LastAllocatedTo(c) == {s \in Signers : nextNonce[s] = claims[c].nonce + 1}

CancelOk(c) ==
    /\ claims[c].status = "queued"
    /\ claims[c].nonce # NULL => Cardinality(LastAllocatedTo(c)) = 1

CancelBody(c) ==
    /\ nextNonce' = IF claims[c].nonce = NULL THEN nextNonce
                    ELSE [s \in Signers |-> IF s \in LastAllocatedTo(c)
                                            THEN nextNonce[s] - 1
                                            ELSE nextNonce[s]]
    /\ Update(c, [claims[c] EXCEPT !.status = "failed",
                                   !.proof = "never_signed", !.nonce = NULL])
    /\ Release(c)

\* Mutant: without the P0012 check.
AssignGuardUnserialised(h, c, s) ==
    /\ LeaseHeld(h)
    /\ claims[c].status = "queued"
    /\ nextNonce[s] # NULL /\ ~halted[s]

AssignGuard(h, c, s) ==
    /\ LeaseHeld(h)
    /\ claims[c].status = "queued"
    /\ nextNonce[s] # NULL /\ ~halted[s]
    /\ \A d \in Claims \ {c} : ~HoldsSlot(d)

\* Blocked since it enqueued: the call cancels the claim and returns null.
CancelBlockedOk(h, c, s) ==
    AssignGuard(h, c, s) /\ claims[c].wallet \in blocked /\ CancelOk(c)

CancelBlocked(h, c, s) ==
    /\ CancelBlockedOk(h, c, s)
    /\ CancelBody(c)
    /\ UNCHANGED <<halted, lease, switches>>

AssignOk(h, c, s) ==
    /\ AssignGuard(h, c, s)
    /\ claims[c].wallet \notin blocked
    /\ payouts
    /\ claims[c].nonce = NULL => NonceUnique(c, nextNonce[s])

\* Returns the nonce the claim already holds, or allocates the next one.
AssignedNonce(c, s) ==
    IF claims[c].nonce # NULL THEN claims[c].nonce ELSE nextNonce[s]

AssignClaimNonce(h, c, s) ==
    /\ AssignOk(h, c, s)
    /\ IF claims[c].nonce # NULL
       THEN UNCHANGED <<claims, nextNonce>>
       ELSE /\ nextNonce' = [nextNonce EXCEPT ![s] = nextNonce[s] + 1]
            /\ Update(c, [claims[c] EXCEPT !.nonce = nextNonce[s]])
    /\ UNCHANGED <<ledger, halted, lease, switches>>

RecordSignedOk(h, c, n, s) ==
    /\ LeaseHeld(h)
    /\ claims[c].status = "queued"
    /\ n # NULL /\ claims[c].nonce = n
    /\ payouts
    /\ nextNonce[s] # NULL /\ ~halted[s]

RecordSignedClaim(h, c, n, t, s) ==
    /\ RecordSignedOk(h, c, n, s)
    /\ Update(c, [claims[c] EXCEPT !.status = "signed", !.tx = t,
                                   !.signer = s])
    /\ UNCHANGED <<ledger, treasury, lease, switches>>

MarkOk(h, c) == LeaseHeld(h) /\ claims[c].status \in InFlight

MarkClaimBroadcast(h, c) ==
    /\ MarkOk(h, c)
    /\ Update(c, [claims[c] EXCEPT !.status = "broadcast"])
    /\ UNCHANGED <<ledger, treasury, lease, switches>>

AttemptOk(h, c) == LeaseHeld(h) /\ claims[c].status \in Open

\* Counts an attempt and keeps the error code; decides nothing.
RecordClaimAttempt(h, c) ==
    /\ AttemptOk(h, c)
    /\ Update(c, claims[c])
    /\ UNCHANGED <<ledger, treasury, lease, switches>>

\* The hashes whose receipt is a receipt of this payment.
PaysBy(c, t) == \/ t = claims[c].tx
                \/ claims[c].kind = "pay" /\ t = claims[c].override

ConfirmOk(h, c, t) ==
    LeaseHeld(h) /\ claims[c].status \in InFlight /\ PaysBy(c, t)

ConfirmClaim(h, c, t) ==
    /\ ConfirmOk(h, c, t)
    /\ Update(c, [claims[c] EXCEPT !.status = "confirmed"])
    /\ UNCHANGED <<ledger, treasury, lease, switches>>

FailOk(h, c, proof, t) ==
    /\ LeaseHeld(h)
    /\ claims[c].status \in InFlight
    /\ \/ proof = "receipt_reverted" /\ PaysBy(c, t)
       \/ /\ proof = "cancel_receipt"
          /\ claims[c].kind = "cancel" /\ t = claims[c].override

FailClaim(h, c, proof, t) ==
    /\ FailOk(h, c, proof, t)
    /\ Update(c, [claims[c] EXCEPT !.status = "failed", !.proof = proof])
    /\ Release(c)
    /\ UNCHANGED <<treasury, lease, switches>>

FlagOk(h, c) ==
    LeaseHeld(h) /\ claims[c].status \in InFlight \cup {"needs_review"}

\* Halts the claim's signer; every account when that signer has no row.
FlagClaimReview(h, c) ==
    LET row == {s \in Signers : nextNonce[s] # NULL} IN
    /\ FlagOk(h, c)
    /\ Update(c, [claims[c] EXCEPT !.status = "needs_review"])
    /\ halted' = [s \in Signers |->
                    \/ halted[s]
                    \/ IF claims[c].signer \in row THEN s = claims[c].signer
                                                   ELSE s \in row]
    /\ UNCHANGED <<ledger, nextNonce, lease, switches>>

HaltOk(h, s) == LeaseHeld(h) /\ nextNonce[s] # NULL

HaltTreasury(h, s) ==
    /\ HaltOk(h, s)
    /\ halted' = [halted EXCEPT ![s] = TRUE]
    /\ UNCHANGED <<claims, ledger, nextNonce, lease, switches>>

-----------------------------------------------------------------------------
(* Operator functions: no lease                                            *)

ResolveConfirmed(c, t) ==
    /\ claims[c].status = "needs_review"
    /\ PaysBy(c, t)
    /\ Update(c, [claims[c] EXCEPT !.status = "confirmed"])
    /\ UNCHANGED <<ledger, treasury, lease, switches>>

ResolveFailed(c) ==
    /\ claims[c].status = "needs_review"
    /\ Update(c, [claims[c] EXCEPT !.status = "failed",
                                   !.proof = "operator_review"])
    /\ Release(c)
    /\ UNCHANGED <<treasury, lease, switches>>

\* Mutant: resumes while a claim is still in review.
ResumePayoutsUnchecked(s) ==
    /\ nextNonce[s] # NULL
    /\ halted' = [halted EXCEPT ![s] = FALSE]
    /\ UNCHANGED <<claims, ledger, nextNonce, lease, switches>>

ResumePayouts(s) ==
    /\ nextNonce[s] # NULL
    /\ \A c \in Claims : claims[c].status # "needs_review"
    /\ halted' = [halted EXCEPT ![s] = FALSE]
    /\ UNCHANGED <<claims, ledger, nextNonce, lease, switches>>

CancelQueuedClaim(c) ==
    /\ CancelOk(c)
    /\ CancelBody(c)
    /\ UNCHANGED <<halted, lease, switches>>

RecordClaimOverride(c, t, kind) ==
    /\ claims[c].status \in InFlight \cup {"needs_review"}
    /\ claims[c].override = NULL
    /\ t # claims[c].tx
    /\ Update(c, [claims[c] EXCEPT !.override = t, !.kind = kind])
    /\ UNCHANGED <<ledger, treasury, lease, switches>>

\* The correction of docs/RUNBOOK.md 5.5: next_nonce := the chain's count,
\* never below a nonce a recorded claim of this signer used.
AlignNonce(s, n) ==
    /\ nextNonce[s] # NULL
    /\ \A c \in Claims : claims[c].signer = s => claims[c].nonce < n
    /\ nextNonce' = [nextNonce EXCEPT ![s] = n]
    /\ UNCHANGED <<claims, ledger, halted, lease, switches>>

SetPayouts(on) == /\ payouts' = on
                  /\ UNCHANGED <<claims, ledger, treasury, lease, blocked>>

SetBlocked(W) == /\ blocked' = W
                 /\ UNCHANGED <<claims, ledger, treasury, lease, payouts>>

-----------------------------------------------------------------------------
(* Any caller, any argument; the nonces passed are those of N.             *)

WorkerCall(h, N) ==
    \/ AcquirePayoutLease(h)
    \/ ReleasePayoutLease(h)
    \/ \E s \in Signers : \/ \E n \in N : InitTreasuryAccount(h, s, n)
                          \/ HaltTreasury(h, s)
    \/ \E c \in Claims :
        \/ \E s \in Signers : \/ CancelBlocked(h, c, s)
                              \/ AssignClaimNonce(h, c, s)
                              \/ \E t \in Hashes :
                                    RecordSignedClaim(h, c, claims[c].nonce, t, s)
        \/ MarkClaimBroadcast(h, c)
        \/ RecordClaimAttempt(h, c)
        \/ \E t \in Hashes : \/ ConfirmClaim(h, c, t)
                             \/ \E p \in Proofs : FailClaim(h, c, p, t)
        \/ FlagClaimReview(h, c)

OperatorCall(N) ==
    \/ \E c \in Claims :
        \/ ResolveFailed(c)
        \/ CancelQueuedClaim(c)
        \/ \E t \in Hashes : \/ ResolveConfirmed(c, t)
                             \/ \E k \in Kinds : RecordClaimOverride(c, t, k)
    \/ \E s \in Signers : \/ ResumePayouts(s)
                          \/ \E n \in N : AlignNonce(s, n)
    \/ SetPayouts(~payouts)
    \/ \E w \in Wallets : SetBlocked(blocked \cup {w}) \/ SetBlocked(blocked \ {w})

OutboxStep(N) ==
    \/ \E w \in Wallets : CreateRewardClaim(w)
    \/ \E k \in Credits : InsertCredit(k)
    \/ ExpireLease
    \/ \E h \in Holders : WorkerCall(h, N)
    \/ OperatorCall(N)

OutboxNext == OutboxStep(Nonces)

OutboxSpec == OutboxInit /\ [][OutboxNext]_outboxVars

-----------------------------------------------------------------------------
(* Correctness                                                             *)

OutboxTypeOK ==
    /\ claims \in [Claims -> ClaimRow]
    /\ ledger \in [Credits -> Claims \cup {NULL, Absent}]
    /\ nextNonce \in [Signers -> Nat \cup {NULL}]
    /\ halted \in [Signers -> BOOLEAN]
    /\ lease \in [holder: Holders \cup {NULL}, live: BOOLEAN]
    /\ payouts \in BOOLEAN
    /\ blocked \subseteq Wallets

\* What a claim pays is exactly what is attached to it, until it fails and
\* has nothing attached.  So no credit is ever in two claims that can pay, a
\* credit won after the claim was created is not swallowed by it, and a
\* failed claim gives back all of it (create_reward_claim, the ledger guard
\* and the four releasing functions).
LedgerAgrees ==
    \A c \in Claims :
        {k \in Credits : ledger[k] = c} =
            IF claims[c].status = "failed" THEN {} ELSE claims[c].credits

\* Strict serial payout: at most one claim holds an allocated nonce and is
\* not terminal, over all signers (the P0012 check of assign_claim_nonce,
\* against every other function that moves a claim).
OneSlot ==
    \A c, d \in Claims : HoldsSlot(c) /\ HoldsSlot(d) => c = d

\* No nonce that signed bytes exist for is ever allocated again: the account
\* of the signer stays past it, through cancellations that hand a nonce back
\* and corrections by the operator.
SignedNoncesSpent ==
    \A c \in Claims : claims[c].tx # NULL =>
        /\ nextNonce[claims[c].signer] # NULL
        /\ claims[c].nonce < nextNonce[claims[c].signer]

\* While any claim waits for a human, its signer is halted: neither a resume
\* nor a new account row lets signing restart before the ruling.
ReviewHalts ==
    \A c \in Claims :
        claims[c].status = "needs_review" => halted[claims[c].signer]
=============================================================================
