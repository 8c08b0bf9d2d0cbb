---------------------------- MODULE PayoutWorker ----------------------------
(***************************************************************************)
(* The payout worker (web/src/lib/rewards/payoutWorker.ts) over the outbox *)
(* of PayoutOutbox, with the chain it pays on and the operator beside it.  *)
(*                                                                         *)
(* A run is one invocation of runPayoutWorker by the cron tick.  Runs may  *)
(* overlap: a run whose lease expired while it was suspended goes on with  *)
(* what it read before.  A step ends at every await, so one step reads or  *)
(* writes one thing outside the run; what a run read earlier is in its     *)
(* record and may be stale.                                                *)
(*                                                                         *)
(* The chain is external: per treasury key it mines transactions in nonce  *)
(* order, each succeeding or reverting; bytes that ever reached a node may *)
(* be mined at any later time.  Reorganisations are not modelled.          *)
(***************************************************************************)
EXTENDS PayoutOutbox, Sequences

CONSTANTS
    MaxFaults,  \* bound: crashes, failed calls and lost answers
    MaxForeign, \* bound: treasury transactions nobody recorded
    Fees,       \* gas limit and fee of a transfer, as priced at its preflight
    World       \* the outside events this instance has, see WorldEvents

WorldEvents == {"claims", "switch", "block", "override", "mistake", "review",
                "cancel", "align", "foreign", "rotate", "rotate_idle"}

Txs == [from: Signers, nonce: Nat, kind: {"claim", "pay", "cancel", "foreign"},
        claim: Claims \cup {NULL}, fee: Fees \cup {NULL}]

ASSUME WorkerAssumption ==
    /\ MaxFaults \in Nat /\ MaxForeign \in Nat
    /\ Fees # {} /\ NULL \notin Fees
    /\ World \subseteq WorldEvents

VARIABLES
    run,        \* run[r]: where run r is and what it read
    key,        \* the deployment's TREASURY_PRIVATE_KEY (its address)
    sent,       \* transactions some node has seen
    mined,      \* mined[s]: the transactions of s, in nonce order
    faults      \* faults so far

vars == <<claims, ledger, nextNonce, halted, lease, payouts, blocked,
          run, key, sent, mined, faults>>
chainVars == <<sent, mined>>

Idle == [pc |-> "idle", key |-> NULL, enabled |-> FALSE, halted |-> FALSE,
         review |-> FALSE, busy |-> FALSE, todo |-> <<>>, queue |-> <<>>,
         next |-> NULL, nonce |-> NULL, fee |-> NULL, signed |-> NULL,
         found |-> NULL]

WorkerInit ==
    /\ OutboxInit
    /\ run = [r \in Holders |-> Idle]
    /\ key \in Signers
    /\ sent = {}
    /\ mined = [s \in Signers |-> <<>>]
    /\ faults = 0

-----------------------------------------------------------------------------
(* The chain as treasury.ts reads it                                       *)

LatestNonce(s) == Len(mined[s])
Receipts == UNION {{mined[s][i] : i \in 1 .. Len(mined[s])} : s \in Signers}
HasReceipt(t) == \E m \in Receipts : m.tx = t
Receipt(t) == CHOOSE m \in Receipts : m.tx = t

-----------------------------------------------------------------------------
(* How a step of run r ends                                                *)

Become(r, new) == run' = [run EXCEPT ![r] = new]
Goto(r, pc) == Become(r, [run[r] EXCEPT !.pc = pc])

\* StopRun: whatever the reason, the run goes to its `finally`.
Stopped == [Idle EXCEPT !.pc = "release"]

Fault == faults < MaxFaults /\ faults' = faults + 1

\* A fenced write: it commits and answers; commits and the answer is lost;
\* is refused; or never arrives.  Everything but the first stops the run.
Write(r, ok, call, next) ==
    /\ \/ ok /\ call /\ Become(r, next) /\ UNCHANGED faults
       \/ ok /\ call /\ Become(r, Stopped) /\ Fault
       \/ ~ok /\ UNCHANGED outboxVars /\ Become(r, Stopped) /\ UNCHANGED faults
       \/ UNCHANGED outboxVars /\ Become(r, Stopped) /\ Fault
    /\ UNCHANGED <<key, chainVars>>

\* A step that reads something outside the run and changes only the run.
Read(r, new) ==
    Become(r, new) /\ UNCHANGED <<outboxVars, key, chainVars, faults>>

-----------------------------------------------------------------------------
(* Starting: the switch, the lease, the snapshot                           *)

Start(r) ==
    /\ run[r].pc = "idle"
    /\ Read(r, [Idle EXCEPT !.pc = "acquire", !.key = key,
                            !.enabled = payouts])

\* Each run draws a fresh uuid, so a live lease is always somebody else's.
Acquire(r) ==
    /\ run[r].pc = "acquire"
    /\ \/ /\ ~lease.live
          /\ AcquirePayoutLease(r)
          /\ \/ Goto(r, "snapshot") /\ UNCHANGED faults
             \/ Become(r, Idle) /\ Fault
       \/ /\ lease.live
          /\ Become(r, Idle) /\ UNCHANGED <<outboxVars, faults>>
    /\ UNCHANGED <<key, chainVars>>

SnapshotLimit == 5

\* The rows of a query in its order (a strict one: there is one such listing).
Listings(rows, Before(_, _)) ==
    {list \in [1 .. Cardinality(rows) -> rows] :
        \A i, j \in DOMAIN list : i < j => Before(list[i], list[j])}

\* In-flight rows in nonce order, of every signer, with their bytes.
SnapInFlight ==
    LET rows == {c \in Claims : claims[c].status \in InFlight}
        Before(c, d) == claims[c].nonce < claims[d].nonce
    IN  {[i \in DOMAIN list |-> [claim |-> list[i],
                                 tx |-> claims[list[i]].tx,
                                 override |-> claims[list[i]].override,
                                 kind |-> claims[list[i]].kind]] :
            list \in Listings(rows, Before)}

\* The queue: a claim that holds a nonce first, then the oldest.
SnapQueued ==
    LET rows == {c \in Claims : claims[c].status = "queued"}
        Before(c, d) == IF (claims[c].nonce = NULL) = (claims[d].nonce = NULL)
                        THEN c < d ELSE claims[c].nonce # NULL
    IN  {[i \in {j \in DOMAIN list : j <= SnapshotLimit} |->
            [claim |-> list[i], nonce |-> claims[list[i]].nonce]] :
            list \in Listings(rows, Before)}

Snapshot(r) ==
    /\ run[r].pc = "snapshot"
    /\ \E todo \in SnapInFlight, queue \in SnapQueued :
          Read(r, [run[r] EXCEPT
              !.pc = "reconcile",
              !.todo = todo,
              !.queue = queue,
              !.next = nextNonce[run[r].key],
              !.halted = halted[run[r].key],
              !.review = \E c \in Claims : claims[c].status = "needs_review"])

-----------------------------------------------------------------------------
(* Reconciling one in-flight claim                                         *)

Claim(r) == IF run[r].todo # <<>> THEN Head(run[r].todo).claim
                                  ELSE Head(run[r].queue).claim
Row(r) == claims[Claim(r)]

Found(kind, t) == [kind |-> kind, tx |-> t,
                   ok |-> HasReceipt(t) /\ Receipt(t).ok]

\* Mutant: honours an override whatever account and nonce it used.
FindReceiptAnyNonce(row) ==
    LET t == row.override IN
    IF t # NULL /\ HasReceipt(t) THEN Found(row.kind, t)
    ELSE IF HasReceipt(row.tx) THEN Found("tx", row.tx) ELSE Found("none", NULL)

\* Override first, and only as the signer's own transaction at that nonce.
FindReceipt(row) ==
    LET c == claims[row.claim]
        t == row.override
    IN  IF t # NULL /\ HasReceipt(t)
        THEN IF t.from = c.signer /\ t.nonce = c.nonce
             THEN Found(row.kind, t) ELSE Found("mismatch", t)
        ELSE IF HasReceipt(row.tx) THEN Found("tx", row.tx)
                                   ELSE Found("none", NULL)

\* After a claim: on to the next row of the phase the run is in.
Advance(r, inFlight) ==
    IF run[r].todo # <<>>
    THEN [run[r] EXCEPT !.pc = "reconcile", !.todo = Tail(@),
                        !.busy = @ \/ inFlight, !.found = NULL, !.nonce = NULL]
    ELSE [run[r] EXCEPT !.pc = "pay", !.queue = Tail(@),
                        !.found = NULL, !.nonce = NULL, !.fee = NULL,
                        !.signed = NULL]

\* What the receipts (none: the given pc) say is to be written.
Decide(r, found, otherwise) ==
    CASE found.kind = "mismatch" -> [run[r] EXCEPT !.pc = "flag"]
      [] found.kind = "none"     -> [run[r] EXCEPT !.pc = otherwise]
      [] OTHER -> [run[r] EXCEPT !.pc = "settle", !.found = found]

\* Receipts are read for every row, also while paused or halted.  The node
\* asked first may lag: its receipt index behind another node's nonce.
ReconcileRow(r) ==
    LET unseen == IF Row(r).signer # run[r].key THEN "flag" ELSE "nonce" IN
    /\ run[r].pc = "reconcile" /\ run[r].todo # <<>>
    /\ \/ Become(r, Decide(r, FindReceipt(Head(run[r].todo)), unseen))
          /\ UNCHANGED faults
       \/ Goto(r, unseen) /\ Fault
    /\ UNCHANGED <<outboxVars, key, chainVars>>

\* Mutant: takes a nonce that is next on chain for a used one.
CheckNonceStrict(r) ==
    /\ run[r].pc = "nonce"
    /\ Read(r, [run[r] EXCEPT !.pc =
                   IF LatestNonce(run[r].key) < Row(r).nonce
                   THEN "switch" ELSE "recheck"])

CheckNonce(r) ==
    /\ run[r].pc = "nonce"
    /\ Read(r, [run[r] EXCEPT !.pc =
                   IF LatestNonce(run[r].key) <= Row(r).nonce
                   THEN "switch" ELSE "recheck"])

\* The nonce is consumed: after a wait, the receipts again, of the same row.
Recheck(r) ==
    /\ run[r].pc = "recheck"
    /\ Read(r, Decide(r, FindReceipt(Head(run[r].todo)), "flag"))

\* The switch is read again right before bytes go back on the wire.
ReadSwitch(r) ==
    /\ run[r].pc = "switch"
    /\ Read(r, IF payouts /\ ~run[r].halted
               THEN [run[r] EXCEPT !.pc = "broadcast", !.enabled = payouts]
               ELSE [Advance(r, TRUE) EXCEPT !.enabled = payouts])

\* Mutant: reads the receipt's status the wrong way round.
SettleInverted(r) ==
    LET found == run[r].found
        c == Claim(r)
    IN  /\ run[r].pc = "settle"
        /\ IF found.kind # "cancel" /\ ~found.ok
           THEN Write(r, ConfirmOk(r, c, found.tx), ConfirmClaim(r, c, found.tx),
                      Advance(r, FALSE))
           ELSE Write(r, FailOk(r, c, "receipt_reverted", found.tx),
                      FailClaim(r, c, "receipt_reverted", found.tx),
                      Advance(r, FALSE))

Settle(r) ==
    LET found == run[r].found
        c == Claim(r)
    IN  /\ run[r].pc = "settle"
        /\ IF found.kind # "cancel" /\ found.ok
           THEN Write(r, ConfirmOk(r, c, found.tx), ConfirmClaim(r, c, found.tx),
                      Advance(r, FALSE))
           ELSE LET proof == IF found.kind = "cancel" THEN "cancel_receipt"
                                                      ELSE "receipt_reverted"
                IN  Write(r, FailOk(r, c, proof, found.tx),
                          FailClaim(r, c, proof, found.tx), Advance(r, FALSE))

Flag(r) ==
    /\ run[r].pc = "flag"
    /\ Write(r, FlagOk(r, Claim(r)), FlagClaimReview(r, Claim(r)),
             [Advance(r, FALSE) EXCEPT !.halted = TRUE])

-----------------------------------------------------------------------------
(* Sending, in both phases                                                 *)

\* The bytes at hand: raw_tx of the snapshot's row when reconciling, what was
\* signed in memory when paying.
Bytes(r) == IF run[r].todo # <<>> THEN Head(run[r].todo).tx ELSE run[r].signed

\* An error is ambiguous: the node may have taken the bytes.
Broadcast(r) ==
    /\ run[r].pc = "broadcast"
    /\ \/ /\ sent' = sent \cup {Bytes(r)}
          /\ Goto(r, "mark") /\ UNCHANGED faults
       \/ /\ sent' \in {sent, sent \cup {Bytes(r)}}
          /\ Goto(r, "attempt") /\ Fault
    /\ UNCHANGED <<outboxVars, key, mined>>

Mark(r) ==
    /\ run[r].pc = "mark"
    /\ Write(r, MarkOk(r, Claim(r)), MarkClaimBroadcast(r, Claim(r)),
             IF run[r].todo # <<>> THEN Advance(r, TRUE)
                                   ELSE [run[r] EXCEPT !.pc = "poll"])

\* Mutant: takes a broadcast error for proof that nothing was paid.
AttemptFails(r) ==
    /\ run[r].pc = "attempt"
    /\ Write(r, FailOk(r, Claim(r), "receipt_reverted", Bytes(r)),
             FailClaim(r, Claim(r), "receipt_reverted", Bytes(r)),
             IF run[r].todo # <<>> THEN Advance(r, FALSE) ELSE Stopped)

Attempt(r) ==
    /\ run[r].pc = "attempt"
    /\ Write(r, AttemptOk(r, Claim(r)), RecordClaimAttempt(r, Claim(r)),
             IF run[r].todo # <<>> THEN Advance(r, TRUE) ELSE Stopped)

-----------------------------------------------------------------------------
(* The idle nonce check                                                    *)

Reconciled(r) ==
    /\ run[r].pc = "reconcile" /\ run[r].todo = <<>>
    /\ Read(r, IF run[r].halted \/ run[r].busy THEN Stopped
               ELSE IF run[r].next = NULL
               THEN [run[r] EXCEPT !.pc = "init", !.nonce = LatestNonce(run[r].key)]
               ELSE [run[r] EXCEPT !.pc = "sanity"])

InitAccount(r) ==
    LET s == run[r].key
        n == run[r].nonce
    IN  /\ run[r].pc = "init"
        /\ Write(r, InitOk(r, s, n), InitTreasuryAccount(r, s, n),
                 [run[r] EXCEPT !.pc = "sanity", !.nonce = NULL,
                     !.next = IF nextNonce[s] = NULL THEN n ELSE nextNonce[s]])

\* A queued claim that holds a nonce took next_nonce - 1, unused on chain.
Holding(r) == \E i \in DOMAIN run[r].queue : run[r].queue[i].nonce # NULL
HeldNonce(r) == Head(run[r].queue).nonce
Expected(r) == IF Holding(r) THEN HeldNonce(r) ELSE run[r].next

\* Past the check: new payouts only when on and nothing waits for a human.
Checked(r) == IF run[r].enabled /\ ~run[r].review
              THEN [run[r] EXCEPT !.pc = "pay"] ELSE Stopped

\* Mutant: without the check of the nonce a queued claim holds.
SanityUnheld(r) ==
    LET latest == LatestNonce(run[r].key) IN
    /\ run[r].pc = "sanity"
    /\ Read(r, IF latest > Expected(r)
               THEN [run[r] EXCEPT !.pc = "sanity2"]
               ELSE IF latest < Expected(r) THEN Stopped ELSE Checked(r))

Sanity(r) ==
    LET latest == LatestNonce(run[r].key) IN
    /\ run[r].pc = "sanity"
    /\ Read(r, IF Holding(r) /\ HeldNonce(r) # run[r].next - 1 THEN Stopped
               ELSE IF latest > Expected(r)
               THEN [run[r] EXCEPT !.pc = "sanity2"]
               ELSE IF latest < Expected(r) THEN Stopped ELSE Checked(r))

Sanity2(r) ==
    /\ run[r].pc = "sanity2"
    /\ Read(r, IF LatestNonce(run[r].key) > Expected(r)
               THEN [run[r] EXCEPT !.pc = "halt"] ELSE Checked(r))

Halt(r) ==
    /\ run[r].pc = "halt"
    /\ Write(r, HaltOk(r, run[r].key), HaltTreasury(r, run[r].key), Stopped)

-----------------------------------------------------------------------------
(* Paying one queued claim                                                 *)

QueueDone(r) ==
    /\ run[r].pc = "pay" /\ run[r].queue = <<>>
    /\ Read(r, Stopped)

\* The last chain read before the nonce is asked for: the nonce, and the gas
\* and price this attempt will sign with.
Preflight(r) ==
    /\ run[r].pc = "pay" /\ run[r].queue # <<>>
    /\ \E fee \in Fees :
          Read(r, [run[r] EXCEPT !.pc = "assign", !.fee = fee,
                                 !.nonce = LatestNonce(run[r].key)])

\* Asset not configured, wrong chain, token paused, gas over the ceiling, too
\* little token or ether: refused, on this tick and on every one like it.
PreflightRefuses(r) ==
    /\ run[r].pc = "pay" /\ run[r].queue # <<>>
    /\ Read(r, Stopped)

\* The nonce must be the snapshot's, and the one the chain expects next.
Assign(r) ==
    LET c == Claim(r)
        s == run[r].key
        asked == Head(run[r].queue).nonce
        got == AssignedNonce(c, s)
    IN  /\ run[r].pc = "assign"
        /\ IF CancelBlockedOk(r, c, s)
           THEN Write(r, TRUE, CancelBlocked(r, c, s), Advance(r, FALSE))
           ELSE Write(r, AssignOk(r, c, s), AssignClaimNonce(r, c, s),
                      IF (asked # NULL /\ asked # got) \/ got # run[r].nonce
                      THEN Stopped ELSE [run[r] EXCEPT !.pc = "record"])

\* signTransfer: other fees give other bytes and another hash.
SignTransfer(c, s, n, fee) ==
    [from |-> s, nonce |-> n, kind |-> "claim", claim |-> c, fee |-> fee]

\* What run r signs for the claim it is paying.
Signing(r) == SignTransfer(Claim(r), run[r].key, run[r].nonce, run[r].fee)

\* Mutant: takes a refusal for done when the claim is signed already.
RecordAssumed(r) ==
    LET c == Claim(r)
        s == run[r].key
        n == run[r].nonce
        on == [run[r] EXCEPT !.pc = "broadcast", !.signed = Signing(r)]
        refused == ~RecordSignedOk(r, c, n, s) /\ UNCHANGED outboxVars
    IN  /\ run[r].pc = "record"
        /\ \/ RecordSignedClaim(r, c, n, Signing(r), s) /\ Become(r, on)
           \/ refused /\ Become(r, IF claims[c].tx = NULL THEN Stopped ELSE on)
        /\ UNCHANGED <<key, chainVars, faults>>

\* Persist before any node sees the bytes.
Record(r) ==
    LET c == Claim(r)
        s == run[r].key
        n == run[r].nonce
    IN  /\ run[r].pc = "record"
        /\ Write(r, RecordSignedOk(r, c, n, s),
                 RecordSignedClaim(r, c, n, Signing(r), s),
                 [run[r] EXCEPT !.pc = "broadcast", !.signed = Signing(r)])

Poll(r) ==
    LET t == run[r].signed IN
    /\ run[r].pc = "poll"
    /\ Read(r, IF HasReceipt(t)
               THEN [run[r] EXCEPT !.pc = "settle", !.found = Found("tx", t)]
               ELSE Stopped)

-----------------------------------------------------------------------------
(* Ending                                                                  *)

\* A chain or database read failed, or no budget is left.
Abort(r) ==
    /\ run[r].pc \notin {"idle", "acquire", "release"}
    /\ Become(r, Stopped) /\ Fault
    /\ UNCHANGED <<outboxVars, key, chainVars>>

ReleaseLease(r) ==
    /\ run[r].pc = "release"
    /\ ReleasePayoutLease(r)
    /\ Become(r, Idle)
    /\ UNCHANGED <<key, chainVars, faults>>

\* The invocation is killed, or its release never arrives.
Crash(r) ==
    /\ run[r].pc # "idle"
    /\ Become(r, Idle) /\ Fault
    /\ UNCHANGED <<outboxVars, key, chainVars>>

RunStep(r) ==
    \/ Start(r) \/ Acquire(r) \/ Snapshot(r)
    \/ ReconcileRow(r) \/ CheckNonce(r) \/ Recheck(r) \/ ReadSwitch(r)
    \/ Settle(r) \/ Flag(r) \/ Broadcast(r) \/ Mark(r) \/ Attempt(r)
    \/ Reconciled(r) \/ InitAccount(r) \/ Sanity(r) \/ Sanity2(r) \/ Halt(r)
    \/ QueueDone(r) \/ Preflight(r) \/ PreflightRefuses(r) \/ Assign(r) \/ Record(r) \/ Poll(r)
    \/ ReleaseLease(r)

-----------------------------------------------------------------------------
(* The chain and the people                                                *)

\* Any bytes a node has seen are mined once their nonce is next.
Mine(t, ok) ==
    /\ t \in sent
    /\ t.nonce = LatestNonce(t.from)
    /\ mined' = [mined EXCEPT ![t.from] = Append(@, [tx |-> t, ok |-> ok])]
    /\ UNCHANGED <<outboxVars, run, key, sent, faults>>

Foreign == {m \in Receipts : m.tx.kind = "foreign"}

\* The treasury key is used outside the system.
ForeignTx(s) ==
    /\ "foreign" \in World
    /\ Cardinality(Foreign) < MaxForeign
    /\ mined' = [mined EXCEPT ![s] = Append(@, [ok |-> TRUE, tx |->
                    [from |-> s, nonce |-> Len(@), kind |-> "foreign",
                     claim |-> NULL, fee |-> NULL]])]
    /\ UNCHANGED <<outboxVars, run, key, sent, faults>>

Sent(c) == {t \in sent : t.claim = c}

\* docs/RUNBOOK.md 5.6: payouts off, then consume the claim's nonce from the
\* keystore, by hand.  By mistake a cancel may leave from another account.
SendOverride(c, kind, s) ==
    /\ "override" \in World
    /\ ~payouts
    /\ claims[c].status = "broadcast"
    /\ \A t \in Sent(c) : t.kind = "claim"
    /\ s = claims[c].signer \/ ("mistake" \in World /\ kind = "cancel")
    /\ sent' = sent \cup {[from |-> s, nonce |-> claims[c].nonce,
                           kind |-> kind, claim |-> c, fee |-> NULL]}
    /\ UNCHANGED <<outboxVars, run, key, mined, faults>>

Operates(call) == call /\ UNCHANGED <<run, key, chainVars, faults>>

RecordOverride(c) ==
    \E t \in Sent(c) : /\ t.kind \in Kinds
                       /\ Operates(RecordClaimOverride(c, t, t.kind))

\* What used the claim's nonce, if anything has.
UsedBy(c) == {m \in Receipts : m.tx.from = claims[c].signer
                               /\ m.tx.nonce = claims[c].nonce}

Pays(m, c) == m.ok /\ m.tx.claim = c /\ m.tx.kind \in {"claim", "pay"}

\* docs/RUNBOOK.md 5.5: the operator rules on the transaction that used the
\* claim's nonce, which they read on the explorer.
Rule(c) ==
    /\ "review" \in World
    /\ \E m \in UsedBy(c) :
          IF Pays(m, c) THEN Operates(ResolveConfirmed(c, m.tx))
                        ELSE Operates(ResolveFailed(c))

Align(s) == /\ "align" \in World
            /\ halted[s]
            /\ Operates(AlignNonce(s, LatestNonce(s)))

\* ... and resumes once next_nonce agrees with the chain; or too early.
Resume(s) == /\ "review" \in World
             /\ halted[s]
             /\ nextNonce[s] = LatestNonce(s) \/ "mistake" \in World
             /\ Operates(ResumePayouts(s))

\* docs/RUNBOOK.md 5.3: with payouts off and `in_flight: 0`; or, stricter, with
\* no claim holding a nonce either.
RotateKey(s) ==
    /\ ~payouts
    /\ \/ "rotate" \in World /\ \A c \in Claims : claims[c].status \notin InFlight
       \/ "rotate_idle" \in World /\ \A c \in Claims : ~HoldsSlot(c)
    /\ key' = s
    /\ UNCHANGED <<outboxVars, run, chainVars, faults>>

\* Bound: policy only ever blocks the wallet of the last credit.
Blockable == {w \in Wallets : /\ "block" \in World
                              /\ \E k \in Credits : /\ Owner[k] = w
                                                    /\ \A j \in Credits : j <= k}

WorldNext ==
    \/ \E w \in Wallets : "claims" \in World /\ Operates(CreateRewardClaim(w))
    \/ \E k \in Credits : "claims" \in World /\ Operates(InsertCredit(k))
    \/ "switch" \in World /\ Operates(SetPayouts(~payouts))
    \/ \E w \in Blockable : Operates(SetBlocked(blocked \cup {w}))
    \/ \E c \in Claims : \/ \E kind \in Kinds, s \in Signers :
                                SendOverride(c, kind, s)
                         \/ RecordOverride(c)
                         \/ Rule(c)
                         \/ "cancel" \in World /\ Operates(CancelQueuedClaim(c))
    \/ \E s \in Signers : Align(s) \/ Resume(s) \/ RotateKey(s) \/ ForeignTx(s)

ChainNext == \E t \in sent, ok \in BOOLEAN : Mine(t, ok)

\* A run is killed after 60 s (maxDuration), its lease lasts 120 s: it only
\* outlives its lease when the instance is suspended, which is a fault.
LeaseRunsOut ==
    /\ ExpireLease
    /\ IF run[lease.holder].pc \in {"idle", "acquire"}
       THEN UNCHANGED faults ELSE Fault
    /\ UNCHANGED <<run, key, chainVars>>

WorkerNext ==
    \/ \E r \in Holders : RunStep(r) \/ Abort(r) \/ Crash(r)
    \/ LeaseRunsOut

Next == WorkerNext \/ ChainNext \/ WorldNext

Spec == WorkerInit /\ [][Next]_vars

-----------------------------------------------------------------------------
(* Correctness                                                             *)

RunPhases == {"idle", "acquire", "snapshot", "reconcile", "nonce", "recheck",
              "switch", "broadcast", "mark", "attempt", "settle", "flag",
              "init", "sanity", "sanity2", "halt", "pay", "assign", "record",
              "poll", "release"}

TypeOK ==
    /\ OutboxTypeOK
    /\ \A r \in Holders : run[r].pc \in RunPhases
    /\ key \in Signers
    /\ sent \subseteq Txs
    /\ \A m \in Receipts : m.tx \in Txs /\ m.ok \in BOOLEAN
    /\ faults \in 0 .. MaxFaults

PaymentsOf(c) == {m \in Receipts : Pays(m, c)}

\* Every credit is paid at most once, over every claim it was ever part of,
\* whatever is lost, repeated, suspended or ruled on by hand.
PaidAtMostOnce ==
    \A k \in Credits :
        Cardinality(UNION {PaymentsOf(c) :
                           c \in {d \in Claims : k \in claims[d].credits}}) <= 1

\* Bytes that could still pay claim c.
CanStillPay(c) == \E t \in Sent(c) : /\ t.kind \in {"claim", "pay"}
                                     /\ t.nonce >= LatestNonce(t.from)

\* A terminal status is the truth for ever: a confirmed claim was paid, and
\* a failed one was not and no bytes are left that could pay it.
TerminalIsTruth ==
    \A c \in Claims :
        /\ claims[c].status = "confirmed" => PaymentsOf(c) # {}
        /\ claims[c].status = "failed" =>
              PaymentsOf(c) = {} /\ ~CanStillPay(c)

\* A node only ever sees bytes that were persisted first, and a claim has one
\* transfer: a claim signed again after a crash, at other fees, or by two runs
\* at once, never puts a second transfer on the wire.
OnlyPersistedBytes ==
    \A t \in sent : t.kind = "claim" => claims[t.claim].tx = t

\* No false alarm: the treasury halts, and a claim waits for a human, only
\* when a transaction the system did not record really used the key.
NoFalseAlarm ==
    /\ \A s \in Signers : halted[s] => \E m \in Foreign : m.tx.from = s
    /\ \A c \in Claims : claims[c].status = "needs_review" =>
          \E m \in UsedBy(c) : m.tx.kind = "foreign"

\* Fairness: the cron starts a run every minute and a run goes on while it is
\* not killed; a dead run's lease runs out; the chain mines what it was sent.
Fairness ==
    /\ \A r \in Holders : WF_vars(RunStep(r))
    /\ WF_vars(LeaseRunsOut)
    /\ WF_vars(ChainNext)

LiveSpec == Spec /\ Fairness

\* With finitely many faults, payouts on from some point and no preflight
\* refused from some point, every queued claim ends: no crash, lost answer,
\* expired lease, stale snapshot or reverted transfer leaves the queue stuck
\* behind it, and none halts the treasury.
EveryClaimEnds ==
    (<>[]payouts /\ <>[][\A r \in Holders : ~PreflightRefuses(r)]_vars) => \A c \in Claims :
        claims[c].status = "queued" ~> claims[c].status \in Terminal

\* The same of a deployment whose treasury never halts.
UnhaltedClaimsEnd == [](\A s \in Signers : ~halted[s]) => EveryClaimEnds

\* An operator who follows docs/RUNBOOK.md 5.5 to its end.
RunbookSpec ==
    /\ LiveSpec
    /\ \A s \in Signers : WF_vars(Align(s)) /\ WF_vars(Resume(s))
    /\ \A c \in Claims : WF_vars(Rule(c))

\* ... and who also cancels a queued claim that holds a nonce.
CancelHeld(c) == /\ "cancel" \in World
                 /\ claims[c].nonce # NULL
                 /\ \E s \in Signers : halted[s]
                 /\ Operates(CancelQueuedClaim(c))

RecoverySpec == RunbookSpec /\ \A c \in Claims : SF_vars(CancelHeld(c))

-----------------------------------------------------------------------------
(* The promise to the viewer                                               *)

Paying == {m \in Receipts : Pays(m, m.tx.claim)}

CreditState(k) ==
    CASE ledger[k] = Absent -> "none"
      [] \E m \in Paying : k \in claims[m.tx.claim].credits -> "paid"
      [] ledger[k] = NULL   -> "owed"
      [] OTHER              -> "reserved"

Worth == [m \in Paying |-> MapThenSumSet(LAMBDA k : Amount[k], claims[m.tx.claim].credits)]

\* Sum over every paying transaction, so a second payment is counted.
ReceivedBy(w) ==
    MapThenSumSet(LAMBDA m : Worth[m], {m \in Paying : claims[m.tx.claim].wallet = w})

Promise == INSTANCE CreditPromise WITH
    state    <- [k \in Credits |-> CreditState(k)],
    received <- [w \in Wallets |-> ReceivedBy(w)]

\* The pipeline keeps the promise.
KeepsPromise == Promise!PromiseSpec
=============================================================================
