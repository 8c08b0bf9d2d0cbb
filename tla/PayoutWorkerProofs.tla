------------------------- MODULE PayoutWorkerProofs -------------------------
(* Proofs about PayoutWorker: for every number of overlapping runs, claims *)
(* and treasury keys, every set of outside events and every number of      *)
(* faults.                                                                 *)
EXTENDS PayoutWorker, PayoutOutboxProofs, SumProofs, SequenceTheorems

\* The outbox stores whatever was signed; the runs give Hashes this value.
AnyHash == Txs \subseteq Hashes

-----------------------------------------------------------------------------
(* The inductive invariant, on top of that of the outbox                   *)

\* What may be signed for a claim at a nonce of an account: a transfer at any fee.
Transfers(c, s, n) == {SignTransfer(c, s, n, fee) : fee \in Fees}

\* The row of a signed claim is the record of its one transfer.  An override
\* is one an operator sent for this claim, recorded as what it is.
RowsOK ==
    \A c \in Claims : LET row == claims[c] IN
        /\ row.tx # NULL =>
              /\ row.signer \in Signers /\ row.nonce \in Nat
              /\ row.tx \in Transfers(c, row.signer, row.nonce)
              /\ row.status \notin {"absent", "queued"}
        /\ row.status \in PastSigning \cup {"confirmed"} => row.tx # NULL
        /\ row.override # NULL =>
              /\ row.tx # NULL /\ row.override \in sent
              /\ row.override.claim = c /\ row.override.kind = row.kind
              /\ row.kind \in Kinds

\* What nodes have seen is of a signed claim and at its nonce; what could pay
\* it is its persisted transfer, or an override of the same account.
SentOK ==
    \A t \in sent :
        /\ t \in Txs /\ t.claim \in Claims /\ t.kind # "foreign"
        /\ LET row == claims[t.claim] IN
              /\ row.tx # NULL /\ t.nonce = row.nonce
              /\ t.kind = "claim" => t = row.tx
              /\ t.kind = "pay" => t.from = row.signer

MinedTxs == [tx : Txs, ok : BOOLEAN]

\* A transaction is mined once, at its account's nonce.
ChainOK ==
    /\ mined \in [Signers -> Seq(MinedTxs)]
    /\ \A s \in Signers : \A i \in 1 .. Len(mined[s]) :
          LET t == mined[s][i].tx IN
          t.from = s /\ t.nonce = i - 1 /\ (t.kind = "foreign" \/ t \in sent)

\* The nonce of c went to a transaction that does not pay c.
Voided(c) == \E m \in UsedBy(c) : ~Pays(m, c)

EndsOK ==
    \A c \in Claims :
        /\ claims[c].status = "confirmed" => PaymentsOf(c) # {}
        /\ claims[c].status = "failed" => claims[c].tx = NULL \/ Voided(c)

Money == RowsOK /\ SentOK /\ ChainOK /\ EndsOK

TodoRows == [claim : Claims, tx : Hashes \cup {NULL}, override : Hashes \cup {NULL},
             kind : Kinds \cup {NULL}]
QueueRows == [claim : Claims, nonce : Nat \cup {NULL}]
Founds == [kind : Kinds \cup {"tx", "none", "mismatch"},
           tx : Hashes \cup {NULL}, ok : BOOLEAN]
Runs == [pc : RunPhases, key : Signers \cup {NULL}, enabled : BOOLEAN,
         halted : BOOLEAN, review : BOOLEAN, busy : BOOLEAN,
         todo : Seq(TodoRows), queue : Seq(QueueRows),
         next : Nat \cup {NULL}, nonce : Nat \cup {NULL},
         fee : Fees \cup {NULL}, signed : Hashes \cup {NULL},
         found : Founds \cup {NULL}]

\* What a run read before is still so: the rows in flight were signed as they
\* are, and the overrides it saw are the recorded ones.
TodoFits(todo, rows) ==
    \A i \in 1 .. Len(todo) :
        /\ rows[todo[i].claim].tx # NULL
        /\ todo[i].tx = rows[todo[i].claim].tx
        /\ todo[i].override # NULL =>
              /\ todo[i].override = rows[todo[i].claim].override
              /\ todo[i].kind = rows[todo[i].claim].kind

\* The claim a run is at, in the list of the phase it is in.
ClaimOf(m) == IF m.todo # <<>> THEN Head(m.todo).claim ELSE Head(m.queue).claim

\* The receipt a run is about to settle with, for the claim of this row.
Settles(found, c, row, receipts) ==
    \E m \in receipts :
        /\ m.tx = found.tx /\ m.ok = found.ok
        /\ m.tx.claim = c
        /\ m.tx.from = row.signer /\ m.tx.nonce = row.nonce
        /\ IF found.kind = "cancel" THEN m.tx.kind = "cancel"
                                    ELSE m.tx.kind \in {"claim", "pay"}

InFlightPhases == {"nonce", "recheck", "switch", "flag"}
SendPhases     == {"broadcast", "mark", "attempt", "settle"}
IdlePhases     == {"init", "sanity", "sanity2", "halt", "pay"}
QueuePhases    == {"assign", "record", "poll"}

\* Run m fits these claim rows and these receipts: among others, the bytes it
\* signed in memory and is about to send are those its claim's row persists.
Fits(m, rows, receipts) ==
    /\ m.pc \notin {"idle", "release"} => m.key \in Signers
    /\ TodoFits(m.todo, rows)
    /\ m.pc \in InFlightPhases => m.todo # <<>>
    /\ m.pc \in IdlePhases \cup QueuePhases => m.todo = <<>>
    /\ m.pc \in QueuePhases => m.queue # <<>>
    /\ m.pc \in SendPhases => m.todo # <<>> \/ m.queue # <<>>
    /\ m.pc \in SendPhases \cup {"poll"} => rows[ClaimOf(m)].tx # NULL
    /\ m.pc \in SendPhases \cup {"poll"} /\ m.todo = <<>> =>
          m.signed = rows[ClaimOf(m)].tx
    /\ m.pc \in {"assign", "record"} => m.fee \in Fees
    /\ m.pc = "init" => m.nonce \in Nat
    /\ m.pc = "settle" =>
          Settles(m.found, ClaimOf(m), rows[ClaimOf(m)], receipts)

RunsOK ==
    /\ run \in [Holders -> Runs]
    /\ \A r \in Holders : Fits(run[r], claims, Receipts)

WorkerInv == IInv /\ Money /\ RunsOK /\ key \in Signers

-----------------------------------------------------------------------------
(* The chain                                                               *)

\* A receipt is an entry of some account's history.
LEMMA ReceiptAt ==
    ASSUME NEW m
    PROVE  m \in Receipts <=>
              \E s \in Signers : \E i \in 1 .. Len(mined[s]) : m = mined[s][i]
  BY DEF Receipts

\* What a receipt says of its transaction.
LEMMA ReceiptFacts ==
    ASSUME ChainOK, NEW m \in Receipts
    PROVE  /\ m \in MinedTxs
           /\ m.tx.from \in Signers
           /\ m.tx.nonce \in Nat /\ m.tx.nonce < LatestNonce(m.tx.from)
           /\ m = mined[m.tx.from][m.tx.nonce + 1]
           /\ m.tx.kind = "foreign" \/ m.tx \in sent
  <1>0. PICK s \in Signers : \E i \in 1 .. Len(mined[s]) : m = mined[s][i]
    BY ReceiptAt
  <1>1. PICK i \in 1 .. Len(mined[s]) : m = mined[s][i]
    BY <1>0
  <1>2. mined[s] \in Seq(MinedTxs)
    BY DEF ChainOK
  <1>3. m \in MinedTxs
    BY <1>1, <1>2, ElementOfSeq
  <1>4. m.tx.from = s /\ m.tx.nonce = i - 1 /\ (m.tx.kind = "foreign" \/ m.tx \in sent)
    BY <1>1 DEF ChainOK
  <1>5. Len(mined[s]) \in Nat /\ i \in Nat /\ i <= Len(mined[s]) /\ i >= 1
    BY <1>2, LenProperties
  <1> QED
    BY <1>1, <1>3, <1>4, <1>5 DEF LatestNonce

\* An account's nonce is used once.
LEMMA OneReceipt ==
    ASSUME ChainOK, NEW m \in Receipts, NEW n \in Receipts,
           m.tx.from = n.tx.from, m.tx.nonce = n.tx.nonce
    PROVE  m = n
  <1>1. m = mined[m.tx.from][m.tx.nonce + 1] /\ n = mined[n.tx.from][n.tx.nonce + 1]
    BY ReceiptFacts
  <1> QED
    BY <1>1

\* The receipt of a transaction is the only one it has.
LEMMA ReceiptOf ==
    ASSUME ChainOK, NEW t, HasReceipt(t)
    PROVE  Receipt(t) \in Receipts /\ Receipt(t).tx = t
  BY DEF HasReceipt, Receipt

\* What the row of a signed claim says of its transfer.
LEMMA SignedRow ==
    ASSUME RowsOK, NEW c \in Claims, claims[c].tx # NULL
    PROVE  /\ claims[c].signer \in Signers /\ claims[c].nonce \in Nat
           /\ claims[c].tx.from = claims[c].signer
           /\ claims[c].tx.nonce = claims[c].nonce
           /\ claims[c].tx.kind = "claim" /\ claims[c].tx.claim = c
  <1>1. /\ claims[c].signer \in Signers /\ claims[c].nonce \in Nat
        /\ claims[c].tx \in Transfers(c, claims[c].signer, claims[c].nonce)
    BY DEF RowsOK
  <1> QED
    BY <1>1 DEF Transfers, SignTransfer

\* A transfer is a transaction.
LEMMA TransferIsTx ==
    ASSUME NEW c \in Claims, NEW s \in Signers, NEW n \in Nat,
           NEW t \in Transfers(c, s, n)
    PROVE  t \in Txs /\ t.claim = c /\ t.kind = "claim" /\ t.nonce = n /\ t.from = s
  BY DEF Transfers, SignTransfer, Txs

\* A transaction that pays a claim left from the claim's account at its nonce.
LEMMA PaymentFits ==
    ASSUME RowsOK, SentOK, ChainOK, NEW c \in Claims, NEW m \in PaymentsOf(c)
    PROVE  m \in UsedBy(c) /\ claims[c].tx # NULL
  <1>1. m \in Receipts /\ m.tx.claim = c /\ m.tx.kind \in {"claim", "pay"}
    BY DEF PaymentsOf, Pays
  <1>2. m.tx \in sent
    BY <1>1, ReceiptFacts
  <1>3. /\ claims[c].tx # NULL /\ m.tx.nonce = claims[c].nonce
        /\ m.tx.kind = "claim" => m.tx = claims[c].tx
        /\ m.tx.kind = "pay" => m.tx.from = claims[c].signer
    BY <1>1, <1>2 DEF SentOK
  <1>4. m.tx.kind = "claim" => m.tx.from = claims[c].signer
    BY <1>3, SignedRow
  <1> QED
    BY <1>1, <1>3, <1>4 DEF UsedBy

\* A claim is paid by one transaction at most.
LEMMA OnePayment ==
    ASSUME RowsOK, SentOK, ChainOK, NEW c \in Claims,
           NEW m \in PaymentsOf(c), NEW n \in PaymentsOf(c)
    PROVE  m = n
  <1>1. m \in UsedBy(c) /\ n \in UsedBy(c)
    BY PaymentFits
  <1> QED
    BY <1>1, OneReceipt DEF UsedBy

\* Once its nonce is void, a claim is not paid and never will be.
LEMMA VoidForEver ==
    ASSUME RowsOK, SentOK, ChainOK, NEW c \in Claims,
           claims[c].tx = NULL \/ Voided(c)
    PROVE  PaymentsOf(c) = {} /\ ~CanStillPay(c)
  <1>1. PaymentsOf(c) = {}
    <2> SUFFICES ASSUME NEW m \in PaymentsOf(c) PROVE FALSE
      OBVIOUS
    <2>1. m \in UsedBy(c) /\ claims[c].tx # NULL
      BY PaymentFits
    <2>2. PICK v \in UsedBy(c) : ~Pays(v, c)
      BY <2>1 DEF Voided
    <2>3. v = m
      BY <2>1, <2>2, OneReceipt DEF UsedBy
    <2> QED
      BY <2>2, <2>3 DEF PaymentsOf
  <1>2. ~CanStillPay(c)
    <2> SUFFICES ASSUME NEW t \in Sent(c), t.kind \in {"claim", "pay"},
                        t.nonce >= LatestNonce(t.from)
                 PROVE  FALSE
      BY DEF CanStillPay
    <2>1. /\ t \in sent /\ t.claim = c
          /\ claims[c].tx # NULL /\ t.nonce = claims[c].nonce
          /\ t.kind = "claim" => t = claims[c].tx
          /\ t.kind = "pay" => t.from = claims[c].signer
      BY DEF Sent, SentOK
    <2>2. t.from = claims[c].signer
      BY <2>1, SignedRow
    <2>3. PICK v \in UsedBy(c) : ~Pays(v, c)
      BY <2>1 DEF Voided
    <2>4. /\ v.tx.from = t.from /\ v.tx.nonce = t.nonce
          /\ v.tx.nonce \in Nat /\ v.tx.nonce < LatestNonce(v.tx.from)
      BY <2>1, <2>2, <2>3, ReceiptFacts DEF UsedBy
    <2>5. LatestNonce(t.from) \in Nat
      BY <2>3, <2>4, ReceiptFacts, LenProperties DEF LatestNonce, UsedBy, ChainOK
    <2> QED
      BY <2>4, <2>5
  <1> QED
    BY <1>1, <1>2

-----------------------------------------------------------------------------
(* What keeps Money                                                        *)

\* What was signed stays, and so does an override once it is recorded.
KeptRow(old, new) ==
    /\ old.tx # NULL => /\ new.tx = old.tx /\ new.signer = old.signer
                        /\ new.nonce = old.nonce
    /\ old.override # NULL => new.override = old.override /\ new.kind = old.kind

RowsKept == \A c \in Claims : KeptRow(claims[c], claims'[c])

Carried == Money' /\ RowsKept /\ Receipts \subseteq Receipts'

\* A step of neither the claims nor the chain.
LEMMA MoneyQuiet ==
    ASSUME Money, UNCHANGED <<claims, sent, mined>>
    PROVE  Carried
  <1>1. Receipts' = Receipts
    BY DEF Receipts
  <1>2. \A c \in Claims : PaymentsOf(c)' = PaymentsOf(c) /\ (Voided(c) => Voided(c)')
    BY <1>1 DEF PaymentsOf, Voided, UsedBy, Pays
  <1>3. RowsOK' /\ SentOK' /\ ChainOK'
    BY DEF Money, RowsOK, SentOK, ChainOK
  <1>4. EndsOK'
    BY <1>2 DEF Money, EndsOK
  <1> QED
    BY <1>1, <1>3, <1>4 DEF Money, Carried, RowsKept, KeptRow

\* A row goes on, along an edge of the state machine: a signature is recorded
\* whole, an override is one of this claim's, and an end is the truth.
LEMMA MoneyUpdated ==
    ASSUME IInv, Money, NEW c \in Claims, NEW row \in ClaimRow, Update(c, row),
           UNCHANGED <<sent, mined>>,
           claims[c].tx = NULL /\ row.tx # NULL =>
              /\ row.signer \in Signers /\ row.nonce \in Nat
              /\ row.tx \in Transfers(c, row.signer, row.nonce),
           IF row.override = claims[c].override THEN row.kind = claims[c].kind
           ELSE /\ row.tx # NULL /\ row.override \in sent
                /\ row.override.claim = c /\ row.override.kind = row.kind
                /\ row.kind \in Kinds,
           row.status = "confirmed" => PaymentsOf(c) # {},
           row.status = "failed" => row.tx = NULL \/ Voided(c)
    PROVE  Carried
  <1>0. /\ claims' = [claims EXCEPT ![c] = row]
        /\ claims \in [Claims -> ClaimRow]
    BY DEF Update, IInv, OutboxTypeOK
  <1>1. Receipts' = Receipts
    BY DEF Receipts
  <1>2. /\ claims[c].tx # NULL =>
              /\ row.tx = claims[c].tx /\ row.signer = claims[c].signer
              /\ row.nonce = claims[c].nonce
              /\ claims[c].status \notin {"absent", "queued"}
        /\ claims[c].status \in PastSigning => claims[c].tx # NULL
        /\ claims[c].override # NULL =>
              claims[c].tx # NULL /\ row.override = claims[c].override
    BY DEF Update, TransitionOk, Money, RowsOK
  <1>3. <<claims[c].status, row.status>> \in Edges
    BY DEF Update, TransitionOk
  <1>4. row.tx # NULL => row.status \notin {"absent", "queued"}
    BY <1>2, <1>3 DEF Update, TransitionOk, Edges
  <1>5. row.status \in PastSigning \cup {"confirmed"} => row.tx # NULL
    BY <1>2, <1>3 DEF Update, TransitionOk, Edges, PastSigning, InFlight
  <1>6. RowsOK'
    <2>1. /\ claims'[c] = row
          /\ \A d \in Claims \ {c} : claims'[d] = claims[d]
      BY <1>0
    <2>2. row.tx # NULL =>
              /\ row.signer \in Signers /\ row.nonce \in Nat
              /\ row.tx \in Transfers(c, row.signer, row.nonce)
      BY <1>2 DEF Money, RowsOK
    <2>3. row.override # NULL =>
              /\ row.tx # NULL /\ row.override \in sent
              /\ row.override.claim = c /\ row.override.kind = row.kind
              /\ row.kind \in Kinds
      BY <1>2 DEF Money, RowsOK
    <2> QED
      BY <1>4, <1>5, <2>1, <2>2, <2>3 DEF Money, RowsOK
  <1>7. SentOK'
    BY <1>0, <1>2 DEF Money, SentOK
  <1>8. ChainOK'
    BY DEF Money, ChainOK
  <1>9. EndsOK'
    <2>1. \A d \in Claims : PaymentsOf(d)' = PaymentsOf(d)
      BY <1>1 DEF PaymentsOf, Pays
    <2>2. ASSUME NEW d \in Claims, d # c PROVE Voided(d)' = Voided(d)
      BY <1>0, <1>1, <2>2 DEF Voided, UsedBy, Pays
    <2>3. row.tx # NULL /\ row.status = "failed" => claims[c].tx # NULL
      BY <1>2, <1>3 DEF Update, TransitionOk, Edges, PastSigning, InFlight
    <2>4. claims[c].tx # NULL => Voided(c)' = Voided(c)
      BY <1>0, <1>1, <1>2 DEF Voided, UsedBy, Pays
    <2>5. /\ claims'[c] = row
          /\ \A d \in Claims \ {c} : claims'[d] = claims[d]
      BY <1>0
    <2>6. row.status = "failed" => row.tx = NULL \/ Voided(c)'
      BY <2>3, <2>4
    <2>7. \A d \in Claims \ {c} : claims[d].status = "failed" =>
              claims[d].tx = NULL \/ Voided(d)'
      BY <2>2 DEF Money, EndsOK
    <2> QED
      BY <2>1, <2>5, <2>6, <2>7 DEF Money, EndsOK
  <1>10. RowsKept
    BY <1>0 DEF RowsKept, KeptRow, Update, TransitionOk
  <1> QED
    BY <1>1, <1>6, <1>7, <1>8, <1>9, <1>10 DEF Money, Carried

\* A viewer's claim starts with nothing signed.
LEMMA MoneyCreated ==
    ASSUME IInv, Money, NEW w \in Wallets, CreateRewardClaim(w),
           UNCHANGED <<sent, mined>>
    PROVE  Carried
  <1>1. PICK c \in Claims :
          /\ claims[c].status = "absent"
          /\ claims' = [claims EXCEPT ![c] =
                 [NoRow EXCEPT !.status = "queued", !.wallet = w,
                               !.credits = Prefix(w)]]
    BY DEF CreateRewardClaim, NextRow
  <1>2. /\ claims'[c].status = "queued" /\ claims'[c].tx = NULL
        /\ claims'[c].override = NULL
        /\ \A d \in Claims \ {c} : claims'[d] = claims[d]
    BY <1>1 DEF NoRow, IInv, OutboxTypeOK
  <1>3. Receipts' = Receipts
    BY DEF Receipts
  <1>4. claims[c].tx = NULL
    BY <1>1 DEF Money, RowsOK
  <1>5. RowsOK' /\ SentOK' /\ ChainOK'
    BY <1>2, <1>4 DEF Money, RowsOK, SentOK, ChainOK, PastSigning, InFlight
  <1>6. EndsOK'
    <2>1. \A d \in Claims : PaymentsOf(d)' = PaymentsOf(d)
      BY <1>3 DEF PaymentsOf, Pays
    <2>2. \A d \in Claims \ {c} : Voided(d) => Voided(d)'
      BY <1>2, <1>3 DEF Voided, UsedBy, Pays
    <2> QED
      BY <1>2, <2>1, <2>2 DEF Money, EndsOK
  <1>7. RowsKept
    <2>1. claims[c].override = NULL
      BY <1>4 DEF Money, RowsOK
    <2> QED
      BY <1>2, <1>4, <2>1 DEF RowsKept, KeptRow
  <1> QED
    BY <1>3, <1>5, <1>6, <1>7 DEF Money, Carried

\* A node sees a claim's persisted bytes, or an override at its nonce.
LEMMA MoneySent ==
    ASSUME Money, NEW t \in Txs, t.claim \in Claims, t.kind # "foreign",
           claims[t.claim].tx # NULL, t.nonce = claims[t.claim].nonce,
           t.kind = "claim" => t = claims[t.claim].tx,
           t.kind = "pay" => t.from = claims[t.claim].signer,
           sent' = sent \cup {t}, UNCHANGED <<claims, mined>>
    PROVE  Carried
  <1>1. Receipts' = Receipts
    BY DEF Receipts
  <1>2. \A c \in Claims : PaymentsOf(c)' = PaymentsOf(c) /\ (Voided(c) => Voided(c)')
    BY <1>1 DEF PaymentsOf, Voided, UsedBy, Pays
  <1>3. RowsOK' /\ SentOK' /\ ChainOK'
    BY DEF Money, RowsOK, SentOK, ChainOK
  <1>4. EndsOK'
    BY <1>2 DEF Money, EndsOK
  <1> QED
    BY <1>1, <1>3, <1>4 DEF Money, Carried, RowsKept, KeptRow

\* The chain takes the next transaction of an account.
LEMMA MoneyMined ==
    ASSUME Money, NEW s \in Signers, NEW e \in MinedTxs,
           e.tx.from = s, e.tx.nonce = Len(mined[s]),
           e.tx.kind = "foreign" \/ e.tx \in sent,
           mined' = [mined EXCEPT ![s] = Append(mined[s], e)],
           UNCHANGED <<claims, sent>>
    PROVE  Carried
  <1>1. /\ mined \in [Signers -> Seq(MinedTxs)]
        /\ mined[s] \in Seq(MinedTxs)
    BY DEF Money, ChainOK
  <1>2. /\ Append(mined[s], e) \in Seq(MinedTxs)
        /\ Len(Append(mined[s], e)) = Len(mined[s]) + 1
        /\ \A i \in 1 .. Len(mined[s]) : Append(mined[s], e)[i] = mined[s][i]
        /\ Append(mined[s], e)[Len(mined[s]) + 1] = e
        /\ Len(mined[s]) \in Nat
    BY <1>1, AppendProperties, LenProperties
  <1>3. /\ mined' \in [Signers -> Seq(MinedTxs)]
        /\ mined'[s] = Append(mined[s], e)
        /\ \A z \in Signers \ {s} : mined'[z] = mined[z]
    BY <1>1, <1>2
  <1>4. Receipts \subseteq Receipts'
    <2> SUFFICES ASSUME NEW m \in Receipts PROVE m \in Receipts'
      OBVIOUS
    <2>0. PICK z \in Signers : \E i \in 1 .. Len(mined[z]) : m = mined[z][i]
      BY ReceiptAt
    <2>1. PICK i \in 1 .. Len(mined[z]) : m = mined[z][i]
      BY <2>0
    <2>2. i \in 1 .. Len(mined'[z]) /\ mined'[z][i] = m
      <3>1. CASE z = s
        BY <1>2, <1>3, <2>1, <3>1
      <3>2. CASE z # s
        BY <1>3, <2>1, <3>2
      <3> QED
        BY <3>1, <3>2
    <2> QED
      BY <2>2 DEF Receipts
  <1>5. ChainOK'
    <2>1. ASSUME NEW z \in Signers, NEW i \in 1 .. Len(mined'[z])
          PROVE  LET t == mined'[z][i].tx IN
                 t.from = z /\ t.nonce = i - 1 /\ (t.kind = "foreign" \/ t \in sent')
      <3>1. CASE z # s
        BY <1>3, <2>1, <3>1 DEF Money, ChainOK
      <3>2. CASE z = s /\ i = Len(mined[s]) + 1
        BY <1>2, <1>3, <3>2
      <3>3. CASE z = s /\ i # Len(mined[s]) + 1
        <4>1. i \in 1 .. Len(mined[s]) /\ mined'[z][i] = mined[z][i]
          BY <1>2, <1>3, <2>1, <3>3
        <4> QED
          BY <3>3, <4>1 DEF Money, ChainOK
      <3> QED
        BY <3>1, <3>2, <3>3
    <2> QED
      BY <1>3, <2>1 DEF ChainOK
  <1>6. \A c \in Claims : /\ PaymentsOf(c) \subseteq PaymentsOf(c)'
                          /\ Voided(c) => Voided(c)'
    BY <1>4 DEF PaymentsOf, Voided, UsedBy, Pays
  <1>7. RowsOK' /\ SentOK'
    BY DEF Money, RowsOK, SentOK
  <1>8. EndsOK'
    BY <1>6 DEF Money, EndsOK
  <1> QED
    BY <1>4, <1>5, <1>7, <1>8 DEF Money, Carried, RowsKept, KeptRow

-----------------------------------------------------------------------------
(* What keeps RunsOK                                                       *)

\* The claim a run is at is one it read.
LEMMA ClaimOfType ==
    ASSUME NEW m \in Runs, m.todo # <<>> \/ m.queue # <<>>
    PROVE  ClaimOf(m) \in Claims
  <1>1. m.todo \in Seq(TodoRows) /\ m.queue \in Seq(QueueRows)
    BY DEF Runs
  <1>2. CASE m.todo # <<>>
    <2>1. Head(m.todo) \in TodoRows
      BY <1>1, <1>2, HeadTailProperties
    <2> QED
      BY <1>2, <2>1 DEF ClaimOf, TodoRows
  <1>3. CASE m.todo = <<>>
    <2>1. Head(m.queue) \in QueueRows
      BY <1>1, <1>3, HeadTailProperties
    <2> QED
      BY <1>3, <2>1 DEF ClaimOf, QueueRows
  <1> QED
    BY <1>2, <1>3

\* What a run read stays true of rows that only go on and receipts that only
\* become more.
LEMMA FitsKept ==
    ASSUME NEW m \in Runs, NEW rows, NEW rows2, NEW receipts, NEW receipts2,
           Fits(m, rows, receipts), receipts \subseteq receipts2,
           \A c \in Claims : KeptRow(rows[c], rows2[c])
    PROVE  Fits(m, rows2, receipts2)
  <1>1. m.todo \in Seq(TodoRows)
    BY DEF Runs
  <1>2. TodoFits(m.todo, rows2)
    <2>1. ASSUME NEW i \in 1 .. Len(m.todo)
          PROVE  m.todo[i].claim \in Claims
      <3>1. m.todo[i] \in TodoRows
        BY <1>1, ElementOfSeq
      <3> QED
        BY <3>1 DEF TodoRows
    <2> QED
      BY <2>1 DEF Fits, TodoFits, KeptRow
  <1>3. CASE m.pc \in SendPhases \cup {"poll"}
    <2>1. ClaimOf(m) \in Claims
      BY <1>3, ClaimOfType DEF Fits, QueuePhases
    <2>2. rows[ClaimOf(m)].tx # NULL
      BY <1>3 DEF Fits
    <2>3. /\ rows2[ClaimOf(m)].tx # NULL
          /\ rows2[ClaimOf(m)].tx = rows[ClaimOf(m)].tx
          /\ rows2[ClaimOf(m)].signer = rows[ClaimOf(m)].signer
          /\ rows2[ClaimOf(m)].nonce = rows[ClaimOf(m)].nonce
      BY <2>1, <2>2 DEF KeptRow
    <2>4. m.pc = "settle" =>
             Settles(m.found, ClaimOf(m), rows2[ClaimOf(m)], receipts2)
      BY <2>3 DEF Fits, Settles
    <2> QED
      BY <1>2, <2>3, <2>4 DEF Fits
  <1>4. CASE m.pc \notin SendPhases \cup {"poll"}
    BY <1>2, <1>4 DEF Fits, SendPhases
  <1> QED
    BY <1>3, <1>4

\* One run goes on to a record that fits; the others keep what they read.
LEMMA RunMoves ==
    ASSUME RunsOK, Carried, NEW r \in Holders, NEW m \in Runs,
           Fits(m, claims', Receipts') \/ Fits(m, claims, Receipts),
           Become(r, m)
    PROVE  RunsOK'
  <1>1. /\ run \in [Holders -> Runs]
        /\ run' = [run EXCEPT ![r] = m]
        /\ \A c \in Claims : KeptRow(claims[c], claims'[c])
        /\ Receipts \subseteq Receipts'
    BY DEF RunsOK, Become, Carried, RowsKept
  <1>2. Fits(m, claims', Receipts')
    BY <1>1, FitsKept
  <1>3. ASSUME NEW q \in Holders, q # r
        PROVE  Fits(run'[q], claims', Receipts')
    <2>1. Fits(run[q], claims, Receipts) /\ run[q] \in Runs /\ run'[q] = run[q]
      BY <1>1, <1>3 DEF RunsOK
    <2> QED
      BY <1>1, <2>1, FitsKept
  <1> QED
    BY <1>1, <1>2, <1>3 DEF RunsOK

LEMMA RunsStay ==
    ASSUME RunsOK, Carried, run' = run
    PROVE  RunsOK'
  <1>1. /\ run \in [Holders -> Runs]
        /\ \A c \in Claims : KeptRow(claims[c], claims'[c])
        /\ Receipts \subseteq Receipts'
    BY DEF RunsOK, Carried, RowsKept
  <1>2. ASSUME NEW q \in Holders
        PROVE  Fits(run'[q], claims', Receipts')
    <2>1. Fits(run[q], claims, Receipts) /\ run[q] \in Runs
      BY <1>1 DEF RunsOK
    <2> QED
      BY <1>1, <2>1, FitsKept
  <1> QED
    BY <1>1, <1>2 DEF RunsOK

\* A run that ended, or is about to, holds nothing it read.
LEMMA EndedFits ==
    ASSUME NEW rows, NEW receipts
    PROVE  /\ Idle \in Runs /\ Stopped \in Runs
           /\ Fits(Idle, rows, receipts) /\ Fits(Stopped, rows, receipts)
  <1>1. Idle \in Runs
    BY DEF Idle, Runs, RunPhases
  <1>2. Stopped \in Runs
    BY <1>1 DEF Stopped, Runs, RunPhases
  <1>3. /\ Idle.pc = "idle" /\ Idle.todo = <<>>
        /\ Stopped.pc = "release" /\ Stopped.todo = <<>>
    BY DEF Idle, Stopped
  <1> QED
    BY <1>1, <1>2, <1>3
    DEF Fits, TodoFits, InFlightPhases, IdlePhases, QueuePhases, SendPhases

-----------------------------------------------------------------------------
(* The calls: each is a step of the outbox, and keeps Money                *)

Committed == OutboxStep(Nat) /\ Carried

\* The rows of a well-typed table, and what one of them becomes.
LEMMA RowType ==
    ASSUME IInv, NEW c \in Claims
    PROVE  claims[c] \in ClaimRow
  BY DEF IInv, OutboxTypeOK

\* Calls that change no claim.
LEMMA LeaseCommitted ==
    ASSUME Money, UNCHANGED <<sent, mined>>, NEW r \in Holders,
           AcquirePayoutLease(r) \/ ReleasePayoutLease(r)
    PROVE  Committed
  <1>1. OutboxStep(Nat)
    BY DEF OutboxStep, WorkerCall
  <1>2. claims' = claims
    BY DEF AcquirePayoutLease, ReleasePayoutLease
  <1> QED
    BY <1>1, <1>2, MoneyQuiet DEF Committed

LEMMA AccountCommitted ==
    ASSUME Money, UNCHANGED <<sent, mined>>, NEW r \in Holders,
           NEW s \in Signers, NEW n \in Nat,
           InitTreasuryAccount(r, s, n) \/ HaltTreasury(r, s)
    PROVE  Committed
  <1>1. OutboxStep(Nat)
    BY DEF OutboxStep, WorkerCall
  <1>2. claims' = claims
    BY DEF InitTreasuryAccount, HaltTreasury
  <1> QED
    BY <1>1, <1>2, MoneyQuiet DEF Committed

\* A cancelled claim was never signed.
LEMMA CancelCarried ==
    ASSUME IInv, Money, UNCHANGED <<sent, mined>>, NEW c \in Claims,
           CancelOk(c), CancelBody(c)
    PROVE  Carried
  <1> DEFINE row == [claims[c] EXCEPT !.status = "failed",
                                      !.proof = "never_signed", !.nonce = NULL]
  <1>1. claims[c] \in ClaimRow
    BY RowType
  <1>2. /\ row \in ClaimRow /\ row.status = "failed" /\ row.tx = claims[c].tx
        /\ row.override = claims[c].override /\ row.kind = claims[c].kind
    BY <1>1 DEF ClaimRow, Statuses, Terminal, Proofs
  <1>3. Update(c, row)
    BY DEF CancelBody
  <1>4. row.tx = NULL
    BY <1>2, <1>3 DEF CancelOk, Update, TransitionOk
  <1> HIDE DEF row
  <1> QED
    BY <1>2, <1>3, <1>4, MoneyUpdated

LEMMA CancelBlockedCommitted ==
    ASSUME IInv, Money, UNCHANGED <<sent, mined>>, NEW r \in Holders,
           NEW c \in Claims, NEW s \in Signers, CancelBlocked(r, c, s)
    PROVE  Committed
  <1>1. OutboxStep(Nat)
    BY DEF OutboxStep, WorkerCall
  <1>2. Carried
    BY CancelCarried DEF CancelBlocked, CancelBlockedOk
  <1> QED
    BY <1>1, <1>2 DEF Committed

\* A nonce is allocated before anything is signed.
LEMMA AssignCommitted ==
    ASSUME IInv, Money, UNCHANGED <<sent, mined>>, NEW r \in Holders,
           NEW c \in Claims, NEW s \in Signers, AssignClaimNonce(r, c, s)
    PROVE  Committed
  <1>1. OutboxStep(Nat)
    BY DEF OutboxStep, WorkerCall
  <1>2. CASE claims[c].nonce # NULL
    <2>1. claims' = claims
      BY <1>2 DEF AssignClaimNonce
    <2> QED
      BY <1>1, <2>1, MoneyQuiet DEF Committed
  <1>3. CASE claims[c].nonce = NULL
    <2> DEFINE row == [claims[c] EXCEPT !.nonce = nextNonce[s]]
    <2>1. claims[c] \in ClaimRow /\ claims[c].status = "queued"
      BY RowType DEF AssignClaimNonce, AssignOk, AssignGuard
    <2>2. nextNonce[s] \in Nat
      BY DEF IInv, OutboxTypeOK, AssignClaimNonce, AssignOk, AssignGuard
    <2>3. /\ row \in ClaimRow /\ row.status = "queued" /\ row.tx = claims[c].tx
          /\ row.override = claims[c].override /\ row.kind = claims[c].kind
      BY <2>1, <2>2 DEF ClaimRow
    <2>4. Update(c, row)
      BY <1>3 DEF AssignClaimNonce
    <2> HIDE DEF row
    <2>5. Carried
      BY <2>3, <2>4, MoneyUpdated
    <2> QED
      BY <1>1, <2>5 DEF Committed
  <1> QED
    BY <1>2, <1>3

\* The one transfer of a claim is persisted whole.
LEMMA RecordCommitted ==
    ASSUME AnyHash, IInv, Money, UNCHANGED <<sent, mined>>, NEW r \in Holders,
           NEW c \in Claims, NEW s \in Signers, NEW n, NEW fee \in Fees,
           RecordSignedClaim(r, c, n, SignTransfer(c, s, n, fee), s)
    PROVE  /\ Committed /\ claims'[c].tx # NULL
           /\ claims'[c].tx = SignTransfer(c, s, n, fee)
           /\ SignTransfer(c, s, n, fee) \in Hashes
  <1> DEFINE t == SignTransfer(c, s, n, fee)
             row == [claims[c] EXCEPT !.status = "signed", !.tx = t, !.signer = s]
  <1>1. claims[c] \in ClaimRow /\ n = claims[c].nonce /\ n # NULL
    BY RowType DEF RecordSignedClaim, RecordSignedOk
  <1>2. n \in Nat
    BY <1>1 DEF ClaimRow
  <1>3. t \in Txs
    BY <1>2 DEF SignTransfer, Txs
  <1>4. t \in Hashes /\ t \in Transfers(c, s, n)
    BY <1>3 DEF AnyHash, Transfers
  <1> HIDE DEF t
  <1>5. /\ row \in ClaimRow /\ row.status = "signed" /\ row.tx = t
        /\ row.signer = s /\ row.nonce = n
        /\ row.override = claims[c].override /\ row.kind = claims[c].kind
    BY <1>1, <1>4 DEF ClaimRow, Statuses, Open
  <1>6. Update(c, row)
    BY DEF RecordSignedClaim, t
  <1>7. OutboxStep(Nat)
    BY <1>1, <1>4 DEF OutboxStep, WorkerCall, t
  <1> HIDE DEF row
  <1>8. Carried
    BY <1>2, <1>4, <1>5, <1>6, MoneyUpdated
  <1>9. claims'[c].tx # NULL /\ claims'[c].tx = t
    BY <1>4, <1>5, <1>6, OutboxAssumption DEF Update, IInv, OutboxTypeOK
  <1> QED
    BY <1>4, <1>7, <1>8, <1>9 DEF Committed, t

\* A row goes on to a status that is no end.
LEMMA StatusCarried ==
    ASSUME IInv, Money, UNCHANGED <<sent, mined>>, NEW c \in Claims,
           NEW st \in {"broadcast", "needs_review"},
           Update(c, [claims[c] EXCEPT !.status = st])
    PROVE  Carried
  <1> DEFINE row == [claims[c] EXCEPT !.status = st]
  <1>1. claims[c] \in ClaimRow
    BY RowType
  <1>2. /\ row \in ClaimRow /\ row.status = st /\ row.tx = claims[c].tx
        /\ row.override = claims[c].override /\ row.kind = claims[c].kind
    BY <1>1 DEF ClaimRow, Statuses, Open
  <1> HIDE DEF row
  <1> QED
    BY <1>2, MoneyUpdated DEF row

LEMMA FollowCommitted ==
    ASSUME IInv, Money, UNCHANGED <<sent, mined>>, NEW r \in Holders,
           NEW c \in Claims,
           \/ MarkClaimBroadcast(r, c) \/ FlagClaimReview(r, c)
           \/ RecordClaimAttempt(r, c)
    PROVE  Committed
  <1>1. OutboxStep(Nat)
    BY DEF OutboxStep, WorkerCall
  <1>2. CASE MarkClaimBroadcast(r, c)
    BY <1>1, <1>2, StatusCarried DEF MarkClaimBroadcast, Committed
  <1>3. CASE FlagClaimReview(r, c)
    BY <1>1, <1>3, StatusCarried DEF FlagClaimReview, Committed
  <1>4. CASE RecordClaimAttempt(r, c)
    <2>1. claims' = claims
      BY <1>4 DEF RecordClaimAttempt, Update, IInv, OutboxTypeOK
    <2> QED
      BY <1>1, <2>1, MoneyQuiet DEF Committed
  <1> QED
    BY <1>2, <1>3, <1>4

\* A claim is confirmed once it was paid, and fails once its nonce is void.
LEMMA ConfirmCarried ==
    ASSUME IInv, Money, UNCHANGED <<sent, mined>>, NEW c \in Claims,
           PaymentsOf(c) # {},
           Update(c, [claims[c] EXCEPT !.status = "confirmed"])
    PROVE  Carried
  <1> DEFINE row == [claims[c] EXCEPT !.status = "confirmed"]
  <1>1. claims[c] \in ClaimRow
    BY RowType
  <1>2. /\ row \in ClaimRow /\ row.status = "confirmed" /\ row.tx = claims[c].tx
        /\ row.override = claims[c].override /\ row.kind = claims[c].kind
    BY <1>1 DEF ClaimRow, Statuses, Terminal
  <1> HIDE DEF row
  <1> QED
    BY <1>2, MoneyUpdated DEF row

LEMMA FailCarried ==
    ASSUME IInv, Money, UNCHANGED <<sent, mined>>, NEW c \in Claims,
           NEW p \in Proofs, Voided(c),
           Update(c, [claims[c] EXCEPT !.status = "failed", !.proof = p])
    PROVE  Carried
  <1> DEFINE row == [claims[c] EXCEPT !.status = "failed", !.proof = p]
  <1>1. claims[c] \in ClaimRow
    BY RowType
  <1>2. /\ row \in ClaimRow /\ row.status = "failed" /\ row.tx = claims[c].tx
        /\ row.override = claims[c].override /\ row.kind = claims[c].kind
    BY <1>1 DEF ClaimRow, Statuses, Terminal
  <1> HIDE DEF row
  <1> QED
    BY <1>2, MoneyUpdated DEF row

LEMMA SettleCommitted ==
    ASSUME IInv, Money, UNCHANGED <<sent, mined>>, NEW r \in Holders,
           NEW c \in Claims, NEW t \in Hashes, NEW p \in Proofs,
           \/ ConfirmClaim(r, c, t) /\ PaymentsOf(c) # {}
           \/ FailClaim(r, c, p, t) /\ Voided(c)
    PROVE  Committed
  <1>1. OutboxStep(Nat)
    BY DEF OutboxStep, WorkerCall
  <1>2. CASE ConfirmClaim(r, c, t) /\ PaymentsOf(c) # {}
    BY <1>1, <1>2, ConfirmCarried DEF ConfirmClaim, Committed
  <1>3. CASE FailClaim(r, c, p, t) /\ Voided(c)
    BY <1>1, <1>3, FailCarried DEF FailClaim, Committed
  <1> QED
    BY <1>2, <1>3

-----------------------------------------------------------------------------
(* The steps of a run                                                      *)

Upheld == [OutboxStep(Nat)]_outboxVars /\ Carried /\ RunsOK' /\ key' \in Signers

\* A step that reads, and changes only the run.
LEMMA ReadUpheld ==
    ASSUME WorkerInv, NEW r \in Holders, NEW m \in Runs,
           Fits(m, claims, Receipts), Become(r, m),
           UNCHANGED <<outboxVars, key, chainVars>>
    PROVE  Upheld
  <1>1. Carried
    BY MoneyQuiet DEF WorkerInv, outboxVars, chainVars
  <1>2. RunsOK'
    BY <1>1, RunMoves DEF WorkerInv
  <1> QED
    BY <1>1, <1>2 DEF Upheld, WorkerInv

LEMMA EndUpheld ==
    ASSUME WorkerInv, NEW r \in Holders, Become(r, Stopped) \/ Become(r, Idle),
           UNCHANGED <<outboxVars, key, chainVars>>
    PROVE  Upheld
  <1>1. /\ Idle \in Runs /\ Stopped \in Runs
        /\ Fits(Idle, claims, Receipts) /\ Fits(Stopped, claims, Receipts)
    BY EndedFits
  <1> QED
    BY <1>1, ReadUpheld

\* A call that was committed; its answer may be lost.
LEMMA CommitUpheld ==
    ASSUME WorkerInv, NEW r \in Holders, NEW m \in Runs, Committed,
           Fits(m, claims, Receipts) \/ Fits(m, claims', Receipts'),
           Become(r, m) \/ Become(r, Stopped) \/ Become(r, Idle),
           UNCHANGED <<key, chainVars>>
    PROVE  Upheld
  <1>1. /\ Idle \in Runs /\ Stopped \in Runs
        /\ Fits(Idle, claims, Receipts) /\ Fits(Stopped, claims, Receipts)
    BY EndedFits
  <1>2. RunsOK'
    BY <1>1, RunMoves DEF WorkerInv, Committed
  <1> QED
    BY <1>2 DEF Upheld, WorkerInv, Committed

LEMMA RunType ==
    ASSUME WorkerInv, NEW r \in Holders
    PROVE  /\ run[r] \in Runs /\ Fits(run[r], claims, Receipts)
           /\ Claim(r) = ClaimOf(run[r])
  BY DEF WorkerInv, RunsOK, Claim, ClaimOf

\* What a run fits by does not include its flags.
LEMMA FitsFields ==
    ASSUME NEW m \in Runs, NEW n \in Runs, NEW rows, NEW receipts,
           Fits(m, rows, receipts),
           n.pc = m.pc, n.key = m.key, n.todo = m.todo, n.queue = m.queue,
           n.nonce = m.nonce, n.found = m.found, n.fee = m.fee,
           n.signed = m.signed
    PROVE  Fits(n, rows, receipts)
  BY DEF Fits, ClaimOf

\* The next row of the phase.
LEMMA AdvanceFits ==
    ASSUME WorkerInv, NEW r \in Holders, NEW b \in BOOLEAN,
           run[r].todo # <<>> \/ run[r].queue # <<>>,
           run[r].pc \notin {"idle", "release"}
    PROVE  Advance(r, b) \in Runs /\ Fits(Advance(r, b), claims, Receipts)
  <1>1. /\ run[r] \in Runs /\ Fits(run[r], claims, Receipts)
        /\ run[r].todo \in Seq(TodoRows) /\ run[r].queue \in Seq(QueueRows)
    BY RunType DEF Runs
  <1>2. CASE run[r].todo # <<>>
    <2> DEFINE m == [run[r] EXCEPT !.pc = "reconcile", !.todo = Tail(run[r].todo),
                        !.busy = run[r].busy \/ b, !.found = NULL, !.nonce = NULL]
    <2>1. /\ Tail(run[r].todo) \in Seq(TodoRows)
          /\ Len(Tail(run[r].todo)) = Len(run[r].todo) - 1
          /\ \A i \in 1 .. Len(Tail(run[r].todo)) :
                Tail(run[r].todo)[i] = run[r].todo[i + 1]
          /\ Len(run[r].todo) \in Nat
      BY <1>1, <1>2, HeadTailProperties, LenProperties
    <2>2. /\ m \in Runs /\ m.pc = "reconcile" /\ m.todo = Tail(run[r].todo)
          /\ m.key = run[r].key
      BY <1>1, <2>1, ZenonT(60) DEF Runs, RunPhases
    <2>3. TodoFits(m.todo, claims)
      <3>1. TodoFits(run[r].todo, claims)
        BY <1>1 DEF Fits
      <3>2. ASSUME NEW i \in 1 .. Len(m.todo)
            PROVE  m.todo[i] = run[r].todo[i + 1] /\ i + 1 \in 1 .. Len(run[r].todo)
        BY <2>1, <2>2
      <3> HIDE DEF m
      <3> QED
        BY <3>1, <3>2 DEF TodoFits
    <2>4. Fits(m, claims, Receipts)
      BY <1>1, <2>2, <2>3
      DEF Fits, InFlightPhases, IdlePhases, QueuePhases, SendPhases
    <2> QED
      BY <1>2, <2>2, <2>4 DEF Advance
  <1>3. CASE run[r].todo = <<>>
    <2> DEFINE m == [run[r] EXCEPT !.pc = "pay", !.queue = Tail(run[r].queue),
                                   !.found = NULL, !.nonce = NULL, !.fee = NULL,
                                   !.signed = NULL]
    <2>1. Tail(run[r].queue) \in Seq(QueueRows)
      BY <1>1, <1>3, HeadTailProperties
    <2>2. /\ m \in Runs /\ m.pc = "pay" /\ m.todo = <<>> /\ m.key = run[r].key
      BY <1>1, <1>3, <2>1 DEF Runs, RunPhases
    <2>3. Fits(m, claims, Receipts)
      BY <1>1, <1>3, <2>2
      DEF Fits, TodoFits, InFlightPhases, IdlePhases, QueuePhases, SendPhases
    <2> QED
      BY <1>3, <2>2, <2>3 DEF Advance
  <1> QED
    BY <1>2, <1>3

\* The bytes a run read for the row it is at are those the row persists.
LEMMA HeadBytes ==
    ASSUME WorkerInv, NEW r \in Holders, run[r].todo # <<>>
    PROVE  /\ Head(run[r].todo).tx = claims[Claim(r)].tx
           /\ claims[Claim(r)].tx # NULL
  <1>1. run[r].todo \in Seq(TodoRows) /\ TodoFits(run[r].todo, claims)
    BY RunType DEF Runs, Fits
  <1>2. 1 \in 1 .. Len(run[r].todo) /\ Head(run[r].todo) = run[r].todo[1]
    BY <1>1, HeadTailProperties, LenProperties
  <1> QED
    BY <1>1, <1>2 DEF TodoFits, Claim

\* The receipt of the claim's own transfer.
LEMMA OwnReceipt ==
    ASSUME WorkerInv, NEW c \in Claims, claims[c].tx # NULL
    PROVE  /\ Found("tx", claims[c].tx) \in Founds
           /\ HasReceipt(claims[c].tx) =>
                 Settles(Found("tx", claims[c].tx), c, claims[c], Receipts)
  <1> DEFINE t == claims[c].tx
  <1>1. t \in Hashes
    BY RowType DEF WorkerInv, ClaimRow
  <1>2. /\ t.from = claims[c].signer /\ t.nonce = claims[c].nonce
        /\ t.kind = "claim" /\ t.claim = c
    BY SignedRow DEF WorkerInv, Money
  <1>3. HasReceipt(t) => /\ Receipt(t) \in Receipts /\ Receipt(t).tx = t
                         /\ Receipt(t).ok \in BOOLEAN
    BY ReceiptOf, ReceiptFacts DEF WorkerInv, Money, MinedTxs
  <1> HIDE DEF t
  <1>4. Found("tx", t) \in Founds
    BY <1>1, <1>3 DEF Found, Founds
  <1>5. HasReceipt(t) => Settles(Found("tx", t), c, claims[c], Receipts)
    BY <1>2, <1>3 DEF Found, Settles
  <1> QED
    BY <1>4, <1>5 DEF t

\* What the receipts say of a row in flight is so of its claim.
LEMMA FindFits ==
    ASSUME WorkerInv, NEW r \in Holders, run[r].todo # <<>>
    PROVE  LET f == FindReceipt(Head(run[r].todo)) IN
           /\ f \in Founds
           /\ f.kind \notin {"mismatch", "none"} =>
                 Settles(f, Claim(r), claims[Claim(r)], Receipts)
  <1> DEFINE row == Head(run[r].todo)
             c == row.claim
             t == row.override
             f == FindReceipt(row)
  <1>1. /\ run[r].todo \in Seq(TodoRows)
        /\ TodoFits(run[r].todo, claims)
    BY RunType DEF Runs, Fits
  <1>2. row \in TodoRows /\ 1 \in 1 .. Len(run[r].todo) /\ row = run[r].todo[1]
    BY <1>1, HeadTailProperties, LenProperties
  <1>3. /\ c \in Claims /\ t \in Hashes \cup {NULL} /\ row.kind \in Kinds \cup {NULL}
    BY <1>2 DEF TodoRows
  <1>4. /\ claims[c].tx # NULL
        /\ t # NULL => t = claims[c].override /\ row.kind = claims[c].kind
    BY <1>1, <1>2 DEF TodoFits
  <1>5. Claim(r) = c
    BY DEF Claim
  <1>6. t # NULL => t.claim = c /\ t.kind = row.kind /\ t \in sent
    BY <1>3, <1>4 DEF WorkerInv, Money, RowsOK
  <1>7. HasReceipt(t) => /\ Receipt(t) \in Receipts /\ Receipt(t).tx = t
                         /\ Receipt(t).ok \in BOOLEAN
    BY ReceiptOf, ReceiptFacts DEF WorkerInv, Money, MinedTxs
  <1>8. f = IF t # NULL /\ HasReceipt(t)
            THEN IF t.from = claims[c].signer /\ t.nonce = claims[c].nonce
                 THEN Found(row.kind, t) ELSE Found("mismatch", t)
            ELSE IF HasReceipt(claims[c].tx) THEN Found("tx", claims[c].tx)
                                             ELSE Found("none", NULL)
    BY <1>5, HeadBytes DEF FindReceipt
  <1> HIDE DEF row, c, t, f
  <1>9. CASE t # NULL /\ HasReceipt(t)
    <2>1. row.kind \in Kinds
      BY <1>3, <1>4, <1>9 DEF WorkerInv, Money, RowsOK
    <2>2. CASE t.from = claims[c].signer /\ t.nonce = claims[c].nonce
      <3>1. f = Found(row.kind, t)
        BY <1>8, <1>9, <2>2
      <3>2. f \in Founds
        BY <1>3, <1>7, <1>9, <2>1, <3>1 DEF Found, Founds
      <3>3. Settles(f, c, claims[c], Receipts)
        BY <1>6, <1>7, <1>9, <2>1, <2>2, <3>1 DEF Found, Settles, Kinds
      <3> QED
        BY <1>5, <3>2, <3>3 DEF f, row
    <2>3. CASE ~(t.from = claims[c].signer /\ t.nonce = claims[c].nonce)
      <3>1. f = Found("mismatch", t)
        BY <1>8, <1>9, <2>3
      <3>2. f \in Founds /\ f.kind = "mismatch"
        BY <1>3, <1>7, <1>9, <3>1 DEF Found, Founds
      <3> QED
        BY <3>2 DEF f, row
    <2> QED
      BY <2>2, <2>3
  <1>10. CASE ~(t # NULL /\ HasReceipt(t)) /\ HasReceipt(claims[c].tx)
    <2>1. f = Found("tx", claims[c].tx)
      BY <1>8, <1>10
    <2>2. f \in Founds /\ Settles(f, c, claims[c], Receipts)
      BY <1>3, <1>4, <1>10, <2>1, OwnReceipt
    <2> QED
      BY <1>5, <2>2 DEF f, row
  <1>11. CASE ~(t # NULL /\ HasReceipt(t)) /\ ~HasReceipt(claims[c].tx)
    <2>1. f = Found("none", NULL)
      BY <1>8, <1>11
    <2>2. ~HasReceipt(NULL) \/ Receipt(NULL).ok \in BOOLEAN
      BY ReceiptOf, ReceiptFacts DEF WorkerInv, Money, MinedTxs
    <2>3. f \in Founds /\ f.kind = "none"
      BY <2>1, <2>2 DEF Found, Founds
    <2> QED
      BY <2>3 DEF f, row
  <1> QED
    BY <1>9, <1>10, <1>11

\* What the receipts decided.
LEMMA DecideFits ==
    ASSUME WorkerInv, NEW r \in Holders, run[r].todo # <<>>,
           run[r].pc \in {"reconcile", "recheck"},
           NEW f \in Founds, NEW otherwise \in InFlightPhases,
           f.kind \notin {"mismatch", "none"} =>
              Settles(f, Claim(r), claims[Claim(r)], Receipts)
    PROVE  Decide(r, f, otherwise) \in Runs
           /\ Fits(Decide(r, f, otherwise), claims, Receipts)
  <1>1. /\ run[r] \in Runs /\ Fits(run[r], claims, Receipts)
        /\ Claim(r) = ClaimOf(run[r])
    BY RunType
  <1>2. ASSUME NEW pc \in InFlightPhases
        PROVE  /\ [run[r] EXCEPT !.pc = pc] \in Runs
               /\ Fits([run[r] EXCEPT !.pc = pc], claims, Receipts)
    <2> DEFINE m == [run[r] EXCEPT !.pc = pc]
    <2>1. /\ m \in Runs /\ m.pc = pc /\ m.todo = run[r].todo
          /\ m.key = run[r].key
      BY <1>1 DEF Runs, RunPhases, InFlightPhases
    <2> HIDE DEF m
    <2>2. Fits(m, claims, Receipts)
      BY <1>1, <2>1
      DEF Fits, InFlightPhases, IdlePhases, QueuePhases, SendPhases
    <2> QED
      BY <2>1, <2>2 DEF m
  <1>3. CASE f.kind \in {"mismatch", "none"}
    BY <1>2, <1>3 DEF Decide, InFlightPhases
  <1>4. CASE f.kind \notin {"mismatch", "none"}
    <2> DEFINE m == [run[r] EXCEPT !.pc = "settle", !.found = f]
    <2>1. /\ m \in Runs /\ m.pc = "settle" /\ m.todo = run[r].todo
          /\ m.key = run[r].key /\ m.found = f /\ m.queue = run[r].queue
      BY <1>1 DEF Runs, RunPhases
    <2>2. Decide(r, f, otherwise) = m
      BY <1>4 DEF Decide
    <2> HIDE DEF m
    <2>3. ClaimOf(m) = Claim(r)
      BY <1>1, <2>1 DEF ClaimOf
    <2>4. claims[Claim(r)].tx # NULL
      BY HeadBytes
    <2>5. Fits(m, claims, Receipts)
      BY <1>1, <1>4, <2>1, <2>3, <2>4
      DEF Fits, InFlightPhases, IdlePhases, QueuePhases, SendPhases
    <2> QED
      BY <2>1, <2>2, <2>5
  <1> QED
    BY <1>3, <1>4

\* A run goes on to another phase with what it has.
LEMMA GotoFits ==
    ASSUME WorkerInv, NEW r \in Holders, NEW pc \in RunPhases,
           run[r].pc \notin {"idle", "release"},
           pc \in InFlightPhases => run[r].todo # <<>>,
           pc \in IdlePhases \cup QueuePhases => run[r].todo = <<>>,
           pc \in QueuePhases => run[r].queue # <<>>,
           pc \in SendPhases => run[r].todo # <<>> \/ run[r].queue # <<>>,
           pc \in SendPhases \cup {"poll"} => claims[Claim(r)].tx # NULL,
           pc \in SendPhases \cup {"poll"} /\ run[r].todo = <<>> =>
              run[r].signed = claims[Claim(r)].tx,
           pc \in {"assign", "record"} => run[r].fee \in Fees,
           pc = "init" => run[r].nonce \in Nat,
           pc # "settle"
    PROVE  /\ [run[r] EXCEPT !.pc = pc] \in Runs
           /\ Fits([run[r] EXCEPT !.pc = pc], claims, Receipts)
  <1> DEFINE m == [run[r] EXCEPT !.pc = pc]
  <1>1. /\ run[r] \in Runs /\ Fits(run[r], claims, Receipts)
        /\ Claim(r) = ClaimOf(run[r])
    BY RunType
  <1>2. /\ m \in Runs /\ m.pc = pc /\ m.todo = run[r].todo
        /\ m.queue = run[r].queue /\ m.key = run[r].key
        /\ m.nonce = run[r].nonce /\ m.fee = run[r].fee
        /\ m.signed = run[r].signed
    BY <1>1 DEF Runs
  <1> HIDE DEF m
  <1>3. ClaimOf(m) = Claim(r)
    BY <1>1, <1>2 DEF ClaimOf
  <1>4. Fits(m, claims, Receipts)
    BY <1>1, <1>2, <1>3 DEF Fits
  <1> QED
    BY <1>2, <1>4 DEF m

\* The snapshot of the rows in flight is of signed ones.
LEMMA SnapFits ==
    ASSUME WorkerInv
    PROVE  /\ \A todo \in SnapInFlight :
                 todo \in Seq(TodoRows) /\ TodoFits(todo, claims)
           /\ \A queue \in SnapQueued : queue \in Seq(QueueRows)
  <1>0. IsFiniteSet(Claims)
    BY FS_Interval, OutboxAssumption DEF Claims
  <1>1. ASSUME NEW S \in SUBSET Claims PROVE Cardinality(S) \in Nat
    BY <1>0, FS_Subset, FS_CardinalityType
  <1>2. ASSUME NEW todo \in SnapInFlight
        PROVE  todo \in Seq(TodoRows) /\ TodoFits(todo, claims)
    <2> DEFINE rows == {c \in Claims : claims[c].status \in InFlight}
    <2>1. PICK list \in [1 .. Cardinality(rows) -> rows] :
            todo = [i \in DOMAIN list |-> [claim |-> list[i],
                                           tx |-> claims[list[i]].tx,
                                           override |-> claims[list[i]].override,
                                           kind |-> claims[list[i]].kind]]
      BY DEF SnapInFlight, Listings
    <2>2. /\ DOMAIN list = 1 .. Cardinality(rows) /\ Cardinality(rows) \in Nat
          /\ \A i \in 1 .. Cardinality(rows) :
                list[i] \in Claims /\ claims[list[i]].status \in InFlight
      BY <1>1
    <2> HIDE DEF rows
    <2>3. ASSUME NEW i \in 1 .. Cardinality(rows)
          PROVE  /\ todo[i] \in TodoRows
                 /\ claims[todo[i].claim].tx # NULL
                 /\ todo[i].tx = claims[todo[i].claim].tx
                 /\ todo[i].override = claims[todo[i].claim].override
                 /\ todo[i].kind = claims[todo[i].claim].kind
      <3>1. todo[i] = [claim |-> list[i], tx |-> claims[list[i]].tx,
                       override |-> claims[list[i]].override,
                       kind |-> claims[list[i]].kind]
        BY <2>1, <2>2
      <3>2. claims[list[i]] \in ClaimRow
        BY <2>2, RowType DEF WorkerInv
      <3>3. claims[list[i]].tx # NULL
        BY <2>2 DEF WorkerInv, Money, RowsOK, PastSigning
      <3> QED
        BY <2>2, <3>1, <3>2, <3>3 DEF TodoRows, ClaimRow
    <2>4. todo \in [1 .. Cardinality(rows) -> TodoRows]
      BY <2>1, <2>2, <2>3
    <2>5. todo \in Seq(TodoRows) /\ Len(todo) = Cardinality(rows)
      BY <2>2, <2>4, IsASeq, LenProperties
    <2> QED
      BY <2>3, <2>5 DEF TodoFits
  <1>3. ASSUME NEW queue \in SnapQueued
        PROVE  queue \in Seq(QueueRows)
    <2> DEFINE rows == {c \in Claims : claims[c].status = "queued"}
               n == Cardinality(rows)
    <2>1. PICK list \in [1 .. n -> rows] :
            queue = [i \in {j \in DOMAIN list : j <= SnapshotLimit} |->
                        [claim |-> list[i], nonce |-> claims[list[i]].nonce]]
      BY DEF SnapQueued, Listings
    <2>2. /\ DOMAIN list = 1 .. n /\ n \in Nat
          /\ \A i \in 1 .. n : list[i] \in Claims
      BY <1>1
    <2> HIDE DEF n
    <2>3. PICK k \in Nat : {j \in 1 .. n : j <= SnapshotLimit} = 1 .. k
      <3>1. CASE n <= SnapshotLimit
        BY <2>2, <3>1 DEF SnapshotLimit
      <3>2. CASE n > SnapshotLimit
        BY <2>2, <3>2 DEF SnapshotLimit
      <3> QED
        BY <2>2, <3>1, <3>2 DEF SnapshotLimit
    <2>4. ASSUME NEW i \in 1 .. k
          PROVE  /\ i \in 1 .. n
                 /\ [claim |-> list[i], nonce |-> claims[list[i]].nonce] \in QueueRows
      <3>1. i \in 1 .. n
        BY <2>3
      <3>2. list[i] \in Claims /\ claims[list[i]] \in ClaimRow
        BY <2>2, <3>1, RowType DEF WorkerInv
      <3> QED
        BY <3>1, <3>2 DEF QueueRows, ClaimRow
    <2>5. queue = [i \in 1 .. k |-> [claim |-> list[i], nonce |-> claims[list[i]].nonce]]
      BY <2>1, <2>2, <2>3
    <2>6. queue \in [1 .. k -> QueueRows]
      BY <2>4, <2>5
    <2> QED
      BY <2>6, IsASeq
  <1> QED
    BY <1>2, <1>3

\* Starting.
LEMMA StartUpheld ==
    ASSUME WorkerInv, NEW r \in Holders, Start(r) \/ Acquire(r) \/ Snapshot(r)
    PROVE  Upheld
  <1>0. /\ run[r] \in Runs /\ Fits(run[r], claims, Receipts)
    BY RunType
  <1>1. CASE Start(r)
    <2> DEFINE m == [Idle EXCEPT !.pc = "acquire", !.key = key, !.enabled = payouts]
    <2>1. Idle \in Runs
      BY EndedFits
    <2>2. payouts \in BOOLEAN /\ key \in Signers
      BY DEF WorkerInv, IInv, OutboxTypeOK
    <2>3. m \in Runs /\ m.pc = "acquire" /\ m.key = key /\ m.todo = <<>>
      BY <2>1, <2>2 DEF Runs, RunPhases, Idle
    <2>4. Become(r, m) /\ UNCHANGED <<outboxVars, key, chainVars>>
      BY <1>1 DEF Start, Read
    <2> HIDE DEF m
    <2>5. Fits(m, claims, Receipts)
      BY <2>2, <2>3
      DEF Fits, TodoFits, InFlightPhases, IdlePhases, QueuePhases, SendPhases
    <2> QED
      BY <2>3, <2>4, <2>5, ReadUpheld
  <1>2. CASE Acquire(r)
    <2> DEFINE m == [run[r] EXCEPT !.pc = "snapshot"]
    <2>0. run[r].pc = "acquire"
      BY <1>2 DEF Acquire
    <2>1. m \in Runs /\ Fits(m, claims, Receipts)
      BY <2>0, GotoFits
      DEF RunPhases, InFlightPhases, IdlePhases, QueuePhases, SendPhases
    <2>2. CASE AcquirePayoutLease(r)
      <3>1. UNCHANGED <<key, chainVars>> /\ (Become(r, m) \/ Become(r, Idle))
        BY <1>2 DEF Acquire, Goto
      <3>2. Committed
        BY <2>2, <3>1, LeaseCommitted DEF WorkerInv, chainVars
      <3> QED
        BY <2>1, <3>1, <3>2, CommitUpheld
    <2>3. CASE ~AcquirePayoutLease(r)
      <3>1. UNCHANGED <<outboxVars, key, chainVars>> /\ Become(r, Idle)
        BY <1>2, <2>3 DEF Acquire
      <3> QED
        BY <3>1, EndUpheld
    <2> QED
      BY <2>2, <2>3
  <1>3. CASE Snapshot(r)
    <2>1. PICK todo \in SnapInFlight, queue \in SnapQueued :
            Read(r, [run[r] EXCEPT
              !.pc = "reconcile",
              !.todo = todo,
              !.queue = queue,
              !.next = nextNonce[run[r].key],
              !.halted = halted[run[r].key],
              !.review = \E c \in Claims : claims[c].status = "needs_review"])
      BY <1>3 DEF Snapshot
    <2> DEFINE next == nextNonce[run[r].key]
               on == halted[run[r].key]
               review == \E c \in Claims : claims[c].status = "needs_review"
               m == [run[r] EXCEPT !.pc = "reconcile", !.todo = todo,
                                   !.queue = queue, !.next = next,
                                   !.halted = on, !.review = review]
    <2>2. /\ todo \in Seq(TodoRows) /\ TodoFits(todo, claims)
          /\ queue \in Seq(QueueRows)
      BY SnapFits
    <2>3. run[r].pc = "snapshot" /\ run[r].key \in Signers
      BY <1>0, <1>3 DEF Snapshot, Fits
    <2>4. next \in Nat \cup {NULL} /\ on \in BOOLEAN /\ review \in BOOLEAN
      BY <2>3 DEF WorkerInv, IInv, OutboxTypeOK
    <2>5. Become(r, m) /\ UNCHANGED <<outboxVars, key, chainVars>>
      BY <2>1 DEF Read
    <2> HIDE DEF next, on, review
    <2>6. /\ m \in Runs /\ m.pc = "reconcile" /\ m.todo = todo
          /\ m.key = run[r].key
      BY <1>0, <2>2, <2>4, ZenonT(60) DEF Runs, RunPhases
    <2> HIDE DEF m
    <2>7. Fits(m, claims, Receipts)
      BY <2>2, <2>3, <2>6
      DEF Fits, InFlightPhases, IdlePhases, QueuePhases, SendPhases
    <2> QED
      BY <2>5, <2>6, <2>7, ReadUpheld
  <1> QED
    BY <1>1, <1>2, <1>3

\* Reading, for a row in flight.
LEMMA ReconcileUpheld ==
    ASSUME WorkerInv, NEW r \in Holders,
           ReconcileRow(r) \/ CheckNonce(r) \/ Recheck(r) \/ ReadSwitch(r)
    PROVE  Upheld
  <1>0. /\ run[r] \in Runs /\ Fits(run[r], claims, Receipts)
    BY RunType
  <1>1. run[r].todo # <<>>
    BY <1>0
    DEF ReconcileRow, CheckNonce, Recheck, ReadSwitch, Fits, InFlightPhases
  <1>2. ASSUME NEW pc \in InFlightPhases, run[r].pc \in {"reconcile"} \cup InFlightPhases
        PROVE  /\ [run[r] EXCEPT !.pc = pc] \in Runs
               /\ Fits([run[r] EXCEPT !.pc = pc], claims, Receipts)
    BY <1>1, <1>2, GotoFits
    DEF RunPhases, InFlightPhases, IdlePhases, QueuePhases, SendPhases
  <1>3. /\ FindReceipt(Head(run[r].todo)) \in Founds
        /\ FindReceipt(Head(run[r].todo)).kind \notin {"mismatch", "none"} =>
              Settles(FindReceipt(Head(run[r].todo)), Claim(r), claims[Claim(r)], Receipts)
    BY <1>1, FindFits
  <1>4. CASE ReconcileRow(r)
    <2> DEFINE unseen == IF Row(r).signer # run[r].key THEN "flag" ELSE "nonce"
               m == Decide(r, FindReceipt(Head(run[r].todo)), unseen)
               n == [run[r] EXCEPT !.pc = unseen]
    <2>0. run[r].pc = "reconcile" /\ unseen \in InFlightPhases
      BY <1>4 DEF ReconcileRow, InFlightPhases
    <2>1. m \in Runs /\ Fits(m, claims, Receipts)
      BY <1>1, <1>3, <2>0, DecideFits
    <2>2. n \in Runs /\ Fits(n, claims, Receipts)
      BY <1>2, <2>0
    <2>3. /\ Become(r, m) \/ Become(r, n)
          /\ UNCHANGED <<outboxVars, key, chainVars>>
      BY <1>4 DEF ReconcileRow, Goto
    <2> HIDE DEF m, n
    <2> QED
      BY <2>1, <2>2, <2>3, ReadUpheld
  <1>5. CASE CheckNonce(r)
    <2> DEFINE pc == IF LatestNonce(run[r].key) <= Row(r).nonce
                     THEN "switch" ELSE "recheck"
               m == [run[r] EXCEPT !.pc = pc]
    <2>1. run[r].pc = "nonce" /\ pc \in InFlightPhases
      BY <1>5 DEF CheckNonce, InFlightPhases
    <2>2. m \in Runs /\ Fits(m, claims, Receipts)
      BY <1>2, <2>1 DEF InFlightPhases
    <2>3. Become(r, m) /\ UNCHANGED <<outboxVars, key, chainVars>>
      BY <1>5 DEF CheckNonce, Read
    <2> HIDE DEF m
    <2> QED
      BY <2>2, <2>3, ReadUpheld
  <1>6. CASE Recheck(r)
    <2> DEFINE m == Decide(r, FindReceipt(Head(run[r].todo)), "flag")
    <2>1. run[r].pc = "recheck" /\ "flag" \in InFlightPhases
      BY <1>6 DEF Recheck, InFlightPhases
    <2>2. m \in Runs /\ Fits(m, claims, Receipts)
      BY <1>1, <1>3, <2>1, DecideFits
    <2>3. Become(r, m) /\ UNCHANGED <<outboxVars, key, chainVars>>
      BY <1>6 DEF Recheck, Read
    <2> HIDE DEF m
    <2> QED
      BY <2>2, <2>3, ReadUpheld
  <1>7. CASE ReadSwitch(r)
    <2> DEFINE m == [run[r] EXCEPT !.pc = "broadcast"]
               m2 == [run[r] EXCEPT !.pc = "broadcast", !.enabled = payouts]
               n == Advance(r, TRUE)
               n2 == [n EXCEPT !.enabled = payouts]
    <2>0. run[r].pc = "switch" /\ payouts \in BOOLEAN
      BY <1>7 DEF ReadSwitch, WorkerInv, IInv, OutboxTypeOK
    <2>1. claims[Claim(r)].tx # NULL
      BY <1>1, HeadBytes
    <2>2. m \in Runs /\ Fits(m, claims, Receipts)
      BY <1>1, <2>0, <2>1, GotoFits
      DEF RunPhases, InFlightPhases, IdlePhases, QueuePhases, SendPhases
    <2>3. n \in Runs /\ Fits(n, claims, Receipts)
      BY <1>1, <2>0, AdvanceFits
    <2>4. /\ m2 \in Runs /\ m2.pc = m.pc /\ m2.key = m.key /\ m2.todo = m.todo
          /\ m2.queue = m.queue /\ m2.nonce = m.nonce /\ m2.found = m.found
          /\ m2.fee = m.fee /\ m2.signed = m.signed
      BY <1>0, <2>0 DEF Runs, RunPhases
    <2>5. /\ n2 \in Runs /\ n2.pc = n.pc /\ n2.key = n.key /\ n2.todo = n.todo
          /\ n2.queue = n.queue /\ n2.nonce = n.nonce /\ n2.found = n.found
          /\ n2.fee = n.fee /\ n2.signed = n.signed
      <3> HIDE DEF n
      <3> QED
        BY <2>0, <2>3 DEF Runs, RunPhases
    <2>6. /\ Become(r, m2) \/ Become(r, n2)
          /\ UNCHANGED <<outboxVars, key, chainVars>>
      BY <1>7 DEF ReadSwitch, Read
    <2> HIDE DEF m, n, m2, n2
    <2>7. Fits(m2, claims, Receipts) /\ Fits(n2, claims, Receipts)
      BY <2>2, <2>3, <2>4, <2>5, FitsFields
    <2> QED
      BY <2>4, <2>5, <2>6, <2>7, ReadUpheld
  <1> QED
    BY <1>4, <1>5, <1>6, <1>7

\* What the receipt of a settlement says of the claim.
LEMMA SettleMeans ==
    ASSUME WorkerInv, NEW c \in Claims, NEW found,
           Settles(found, c, claims[c], Receipts)
    PROVE  /\ found.tx \in Txs
           /\ found.kind # "cancel" /\ found.ok => PaymentsOf(c) # {}
           /\ found.kind = "cancel" \/ ~found.ok => Voided(c)
  <1>1. PICK m \in Receipts :
          /\ m.tx = found.tx /\ m.ok = found.ok
          /\ m.tx.claim = c
          /\ m.tx.from = claims[c].signer /\ m.tx.nonce = claims[c].nonce
          /\ IF found.kind = "cancel" THEN m.tx.kind = "cancel"
                                      ELSE m.tx.kind \in {"claim", "pay"}
    BY DEF Settles
  <1>2. m \in MinedTxs
    BY ReceiptFacts DEF WorkerInv, Money
  <1> QED
    BY <1>1, <1>2 DEF MinedTxs, PaymentsOf, Pays, Voided, UsedBy

\* Settling writes what the receipt says.
LEMMA SettleUpheld ==
    ASSUME AnyHash, WorkerInv, NEW r \in Holders, Settle(r)
    PROVE  Upheld
  <1> DEFINE found == run[r].found
             c == Claim(r)
             m == Advance(r, FALSE)
             proof == IF found.kind = "cancel" THEN "cancel_receipt"
                                               ELSE "receipt_reverted"
  <1>0. /\ run[r] \in Runs /\ Fits(run[r], claims, Receipts)
        /\ Claim(r) = ClaimOf(run[r]) /\ run[r].pc = "settle"
    BY RunType DEF Settle
  <1>1. run[r].todo # <<>> \/ run[r].queue # <<>>
    BY <1>0 DEF Fits, SendPhases
  <1>2. c \in Claims
    BY <1>0, <1>1, ClaimOfType
  <1>3. m \in Runs /\ Fits(m, claims, Receipts)
    BY <1>0, <1>1, AdvanceFits
  <1>4. Settles(found, c, claims[c], Receipts)
    BY <1>0 DEF Fits
  <1>5. found.tx \in Hashes /\ proof \in Proofs
    BY <1>2, <1>4, SettleMeans DEF AnyHash, Proofs
  <1>6. UNCHANGED <<key, chainVars>>
    BY DEF Settle, Write
  <1>7. CASE found.kind # "cancel" /\ found.ok
    <2>1. PaymentsOf(c) # {}
      BY <1>2, <1>4, <1>7, SettleMeans
    <2>2. \/ ConfirmClaim(r, c, found.tx) /\ (Become(r, m) \/ Become(r, Stopped))
          \/ UNCHANGED outboxVars /\ Become(r, Stopped)
      BY <1>7 DEF Settle, Write
    <2>3. CASE ConfirmClaim(r, c, found.tx)
      <3>1. Committed
        BY <1>2, <1>5, <1>6, <2>1, <2>3, SettleCommitted DEF WorkerInv, chainVars
      <3>2. Become(r, m) \/ Become(r, Stopped)
        BY <2>2
      <3> HIDE DEF m
      <3> QED
        BY <1>3, <1>6, <3>1, <3>2, CommitUpheld
    <2>4. CASE UNCHANGED outboxVars /\ Become(r, Stopped)
      BY <1>6, <2>4, EndUpheld
    <2> QED
      BY <2>2, <2>3, <2>4
  <1>8. CASE ~(found.kind # "cancel" /\ found.ok)
    <2>1. Voided(c)
      BY <1>2, <1>4, <1>8, SettleMeans
    <2>2. \/ FailClaim(r, c, proof, found.tx) /\ (Become(r, m) \/ Become(r, Stopped))
          \/ UNCHANGED outboxVars /\ Become(r, Stopped)
      BY <1>8 DEF Settle, Write
    <2>3. CASE FailClaim(r, c, proof, found.tx)
      <3>1. Committed
        BY <1>2, <1>5, <1>6, <2>1, <2>3, SettleCommitted DEF WorkerInv, chainVars
      <3>2. Become(r, m) \/ Become(r, Stopped)
        BY <2>2
      <3> HIDE DEF m
      <3> QED
        BY <1>3, <1>6, <3>1, <3>2, CommitUpheld
    <2>4. CASE UNCHANGED outboxVars /\ Become(r, Stopped)
      BY <1>6, <2>4, EndUpheld
    <2> QED
      BY <2>2, <2>3, <2>4
  <1> QED
    BY <1>7, <1>8

\* Flagging a claim, marking it sent, counting an attempt.
LEMMA FollowUpheld ==
    ASSUME WorkerInv, NEW r \in Holders, Flag(r) \/ Mark(r) \/ Attempt(r)
    PROVE  Upheld
  <1> DEFINE c == Claim(r)
             a == Advance(r, FALSE)
             a2 == [a EXCEPT !.halted = TRUE]
             b == Advance(r, TRUE)
             p == [run[r] EXCEPT !.pc = "poll"]
  <1>0. /\ run[r] \in Runs /\ Fits(run[r], claims, Receipts)
        /\ Claim(r) = ClaimOf(run[r]) /\ run[r].pc \in {"flag", "mark", "attempt"}
    BY RunType DEF Flag, Mark, Attempt
  <1>1. run[r].todo # <<>> \/ run[r].queue # <<>>
    BY <1>0 DEF Fits, SendPhases, InFlightPhases
  <1>2. c \in Claims
    BY <1>0, <1>1, ClaimOfType
  <1>3. /\ a \in Runs /\ Fits(a, claims, Receipts)
        /\ b \in Runs /\ Fits(b, claims, Receipts)
    BY <1>0, <1>1, AdvanceFits
  <1>4. a2 \in Runs /\ Fits(a2, claims, Receipts)
    <2> HIDE DEF a
    <2>1. /\ a2 \in Runs /\ a2.pc = a.pc /\ a2.key = a.key /\ a2.todo = a.todo
          /\ a2.queue = a.queue /\ a2.nonce = a.nonce /\ a2.found = a.found
          /\ a2.fee = a.fee /\ a2.signed = a.signed
      BY <1>3 DEF Runs
    <2> HIDE DEF a2
    <2> QED
      BY <1>3, <2>1, FitsFields
  <1>5. UNCHANGED <<key, chainVars>>
    BY DEF Flag, Mark, Attempt, Write
  <1>6. CASE UNCHANGED outboxVars /\ Become(r, Stopped)
    BY <1>5, <1>6, EndUpheld
  <1>7. CASE Flag(r) /\ FlagClaimReview(r, c)
    <2>1. Committed
      BY <1>2, <1>5, <1>7, FollowCommitted DEF WorkerInv, chainVars
    <2>2. Become(r, a2) \/ Become(r, Stopped)
      BY <1>7 DEF Flag, Write
    <2> HIDE DEF a2
    <2> QED
      BY <1>4, <1>5, <2>1, <2>2, CommitUpheld
  <1>8. CASE Mark(r) /\ MarkClaimBroadcast(r, c)
    <2>0. run[r].pc = "mark"
      BY <1>8 DEF Mark
    <2>1. Committed
      BY <1>2, <1>5, <1>8, FollowCommitted DEF WorkerInv, chainVars
    <2>2. CASE run[r].todo # <<>>
      <3>1. Become(r, b) \/ Become(r, Stopped)
        BY <1>8, <2>2 DEF Mark, Write
      <3> HIDE DEF b
      <3> QED
        BY <1>3, <1>5, <2>1, <3>1, CommitUpheld
    <2>3. CASE run[r].todo = <<>>
      <3>1. Become(r, p) \/ Become(r, Stopped)
        BY <1>8, <2>3 DEF Mark, Write
      <3>2. /\ claims[Claim(r)].tx # NULL
            /\ run[r].signed = claims[Claim(r)].tx
        BY <1>0, <2>0, <2>3 DEF Fits, SendPhases
      <3>3. p \in Runs /\ Fits(p, claims, Receipts)
        BY <1>1, <2>0, <2>3, <3>2, GotoFits
        DEF RunPhases, InFlightPhases, IdlePhases, QueuePhases, SendPhases
      <3> HIDE DEF p
      <3> QED
        BY <1>5, <2>1, <3>1, <3>3, CommitUpheld
    <2> QED
      BY <2>2, <2>3
  <1>9. CASE Attempt(r) /\ RecordClaimAttempt(r, c)
    <2>1. Committed
      BY <1>2, <1>5, <1>9, FollowCommitted DEF WorkerInv, chainVars
    <2>2. Become(r, b) \/ Become(r, Stopped)
      BY <1>9 DEF Attempt, Write
    <2> HIDE DEF b
    <2> QED
      BY <1>3, <1>5, <2>1, <2>2, CommitUpheld
  <1> QED
    BY <1>6, <1>7, <1>8, <1>9 DEF Flag, Mark, Attempt, Write

\* Sending what is persisted.
LEMMA BroadcastUpheld ==
    ASSUME WorkerInv, NEW r \in Holders, Broadcast(r)
    PROVE  Upheld
  <1> DEFINE c == Claim(r)
             t == claims[c].tx
             m == [run[r] EXCEPT !.pc = "mark"]
             n == [run[r] EXCEPT !.pc = "attempt"]
  <1>0. /\ run[r] \in Runs /\ Fits(run[r], claims, Receipts)
        /\ Claim(r) = ClaimOf(run[r]) /\ run[r].pc = "broadcast"
    BY RunType DEF Broadcast
  <1>1. /\ run[r].todo # <<>> \/ run[r].queue # <<>>
        /\ t # NULL
        /\ run[r].todo = <<>> => run[r].signed = t
    BY <1>0 DEF Fits, SendPhases
  <1>2. c \in Claims
    BY <1>0, <1>1, ClaimOfType
  <1>3. /\ m \in Runs /\ Fits(m, claims, Receipts)
        /\ n \in Runs /\ Fits(n, claims, Receipts)
    BY <1>0, <1>1, GotoFits
    DEF RunPhases, InFlightPhases, IdlePhases, QueuePhases, SendPhases
  <1>4. /\ Become(r, m) \/ Become(r, n)
        /\ sent' = sent \/ sent' = sent \cup {t}
        /\ UNCHANGED <<outboxVars, key, mined>>
    BY <1>1, HeadBytes DEF Broadcast, Goto, Bytes
  <1>5. Carried
    <2>1. CASE sent' = sent
      BY <1>4, <2>1, MoneyQuiet DEF WorkerInv, outboxVars
    <2>2. CASE sent' = sent \cup {t}
      <3>1. /\ claims[c].signer \in Signers /\ claims[c].nonce \in Nat
            /\ t \in Transfers(c, claims[c].signer, claims[c].nonce)
        BY <1>1, <1>2 DEF WorkerInv, Money, RowsOK
      <3>2. /\ t \in Txs /\ t.claim = c /\ t.kind = "claim"
            /\ t.nonce = claims[c].nonce
        BY <1>2, <3>1, TransferIsTx
      <3> QED
        BY <1>1, <1>2, <1>4, <2>2, <3>2, MoneySent DEF WorkerInv, outboxVars
    <2> QED
      BY <1>4, <2>1, <2>2
  <1> HIDE DEF m, n
  <1>6. RunsOK'
    BY <1>3, <1>4, <1>5, RunMoves DEF WorkerInv
  <1> QED
    BY <1>4, <1>5, <1>6 DEF Upheld, WorkerInv

\* The idle nonce check.
LEMMA LatestType ==
    ASSUME WorkerInv, NEW s \in Signers
    PROVE  LatestNonce(s) \in Nat
  BY LenProperties DEF LatestNonce, WorkerInv, Money, ChainOK

LEMMA SanityUpheld ==
    ASSUME WorkerInv, NEW r \in Holders,
           \/ Reconciled(r) \/ InitAccount(r) \/ Sanity(r) \/ Sanity2(r)
           \/ Halt(r) \/ QueueDone(r)
    PROVE  Upheld
  <1>0. /\ run[r] \in Runs /\ Fits(run[r], claims, Receipts)
        /\ run[r].pc \in {"reconcile"} \cup IdlePhases /\ run[r].todo = <<>>
    BY RunType
    DEF Reconciled, InitAccount, Sanity, Sanity2, Halt, QueueDone, Fits, IdlePhases
  <1>1. run[r].key \in Signers
    BY <1>0 DEF Fits, IdlePhases
  <1>2. ASSUME NEW pc \in IdlePhases, pc # "init"
        PROVE  /\ [run[r] EXCEPT !.pc = pc] \in Runs
               /\ Fits([run[r] EXCEPT !.pc = pc], claims, Receipts)
    BY <1>0, <1>2, GotoFits
    DEF RunPhases, InFlightPhases, IdlePhases, QueuePhases, SendPhases
  <1>3. ASSUME NEW pc \in IdlePhases, pc # "init",
               Become(r, [run[r] EXCEPT !.pc = pc]),
               UNCHANGED <<outboxVars, key, chainVars>>
        PROVE  Upheld
    <2> DEFINE m == [run[r] EXCEPT !.pc = pc]
    <2>1. m \in Runs /\ Fits(m, claims, Receipts)
      BY <1>2, <1>3
    <2>2. Become(r, m)
      BY <1>3
    <2> HIDE DEF m
    <2> QED
      BY <1>3, <2>1, <2>2, ReadUpheld
  <1>4. CASE Reconciled(r)
    <2> DEFINE n == LatestNonce(run[r].key)
               m == [run[r] EXCEPT !.pc = "init", !.nonce = n]
    <2>1. n \in Nat
      BY <1>1, LatestType
    <2>2. /\ m \in Runs /\ m.pc = "init" /\ m.key = run[r].key
          /\ m.todo = <<>> /\ m.nonce = n
      <3> HIDE DEF n
      <3> QED
        BY <1>0, <2>1 DEF Runs, RunPhases
    <2>3. /\ \/ Become(r, Stopped) \/ Become(r, m)
             \/ Become(r, [run[r] EXCEPT !.pc = "sanity"])
          /\ UNCHANGED <<outboxVars, key, chainVars>>
      BY <1>4 DEF Reconciled, Read
    <2> HIDE DEF m, n
    <2>4. Fits(m, claims, Receipts)
      BY <1>1, <2>1, <2>2
      DEF Fits, TodoFits, InFlightPhases, IdlePhases, QueuePhases, SendPhases
    <2>5. CASE Become(r, m)
      BY <2>2, <2>3, <2>4, <2>5, ReadUpheld
    <2>6. CASE Become(r, Stopped)
      BY <2>3, <2>6, EndUpheld
    <2>7. CASE Become(r, [run[r] EXCEPT !.pc = "sanity"])
      BY <1>3, <2>3, <2>7 DEF IdlePhases
    <2> QED
      BY <2>3, <2>5, <2>6, <2>7
  <1>5. CASE InitAccount(r)
    <2> DEFINE s == run[r].key
               n == run[r].nonce
               next == IF nextNonce[s] = NULL THEN n ELSE nextNonce[s]
               m == [run[r] EXCEPT !.pc = "sanity", !.nonce = NULL, !.next = next]
    <2>1. n \in Nat /\ next \in Nat \cup {NULL}
      BY <1>0, <1>1, <1>5 DEF InitAccount, Fits, WorkerInv, IInv, OutboxTypeOK
    <2>2. /\ UNCHANGED <<key, chainVars>>
          /\ \/ InitTreasuryAccount(r, s, n) /\ (Become(r, m) \/ Become(r, Stopped))
             \/ UNCHANGED outboxVars /\ Become(r, Stopped)
      BY <1>5 DEF InitAccount, Write
    <2> HIDE DEF next
    <2>3. m \in Runs /\ m.pc = "sanity" /\ m.key = s /\ m.todo = <<>>
      BY <1>0, <2>1 DEF Runs, RunPhases
    <2> HIDE DEF m
    <2>4. Fits(m, claims, Receipts)
      BY <1>1, <2>3
      DEF Fits, TodoFits, InFlightPhases, IdlePhases, QueuePhases, SendPhases
    <2>5. CASE InitTreasuryAccount(r, s, n)
      <3>1. Committed
        BY <1>1, <2>1, <2>2, <2>5, AccountCommitted DEF WorkerInv, chainVars
      <3> QED
        BY <2>2, <2>3, <2>4, <3>1, CommitUpheld
    <2>6. CASE ~InitTreasuryAccount(r, s, n)
      BY <2>2, <2>6, EndUpheld
    <2> QED
      BY <2>5, <2>6
  <1>6. CASE Sanity(r) \/ Sanity2(r)
    <2>1. /\ \/ Become(r, Stopped)
             \/ \E pc \in {"sanity2", "halt", "pay"} :
                   Become(r, [run[r] EXCEPT !.pc = pc])
          /\ UNCHANGED <<outboxVars, key, chainVars>>
      BY <1>6 DEF Sanity, Sanity2, Checked, Read
    <2> QED
      BY <1>3, <2>1, EndUpheld DEF IdlePhases
  <1>7. CASE Halt(r)
    <2>1. /\ UNCHANGED <<key, chainVars>> /\ Become(r, Stopped)
          /\ HaltTreasury(r, run[r].key) \/ UNCHANGED outboxVars
      BY <1>7 DEF Halt, Write
    <2>2. CASE HaltTreasury(r, run[r].key)
      <3>1. Committed
        BY <1>1, <2>1, <2>2, AccountCommitted DEF WorkerInv, chainVars
      <3> QED
        BY <1>0, <2>1, <3>1, CommitUpheld
    <2>3. CASE UNCHANGED outboxVars
      BY <2>1, <2>3, EndUpheld
    <2> QED
      BY <2>1, <2>2, <2>3
  <1>8. CASE QueueDone(r)
    BY <1>8, EndUpheld DEF QueueDone, Read
  <1> QED
    BY <1>4, <1>5, <1>6, <1>7, <1>8

\* Paying one queued claim, up to the bytes.
LEMMA PayUpheld ==
    ASSUME AnyHash, WorkerInv, NEW r \in Holders,
           Preflight(r) \/ PreflightRefuses(r) \/ Assign(r) \/ Record(r) \/ Poll(r)
    PROVE  Upheld
  <1>0. /\ run[r] \in Runs /\ Fits(run[r], claims, Receipts)
        /\ Claim(r) = ClaimOf(run[r])
        /\ run[r].pc \in {"pay", "assign", "record", "poll"}
        /\ run[r].todo = <<>> /\ run[r].queue # <<>>
    BY RunType
    DEF Preflight, PreflightRefuses, Assign, Record, Poll, Fits, IdlePhases, QueuePhases
  <1>1. run[r].key \in Signers
    BY <1>0 DEF Fits
  <1>2. Claim(r) \in Claims
    BY <1>0, ClaimOfType
  <1>3. CASE Preflight(r)
    <2>0. PICK fee \in Fees :
            Read(r, [run[r] EXCEPT !.pc = "assign", !.fee = fee,
                                   !.nonce = LatestNonce(run[r].key)])
      BY <1>3 DEF Preflight
    <2> DEFINE n == LatestNonce(run[r].key)
               m == [run[r] EXCEPT !.pc = "assign", !.fee = fee, !.nonce = n]
    <2>1. n \in Nat
      BY <1>1, LatestType
    <2>2. Become(r, m) /\ UNCHANGED <<outboxVars, key, chainVars>>
      BY <2>0 DEF Read
    <2> HIDE DEF n
    <2>3. /\ m \in Runs /\ m.pc = "assign" /\ m.key = run[r].key /\ m.fee = fee
          /\ m.todo = <<>> /\ m.queue # <<>>
      BY <1>0, <2>1 DEF Runs, RunPhases
    <2> HIDE DEF m
    <2>4. Fits(m, claims, Receipts)
      BY <1>1, <2>3
      DEF Fits, TodoFits, InFlightPhases, IdlePhases, QueuePhases, SendPhases
    <2> QED
      BY <2>2, <2>3, <2>4, ReadUpheld
  <1>4. CASE Assign(r)
    <2> DEFINE c == Claim(r)
               s == run[r].key
               m == [run[r] EXCEPT !.pc = "record"]
               a == Advance(r, FALSE)
    <2>0. run[r].pc = "assign" /\ run[r].fee \in Fees
      BY <1>0, <1>4 DEF Assign, Fits
    <2>1. /\ m \in Runs /\ Fits(m, claims, Receipts)
          /\ a \in Runs /\ Fits(a, claims, Receipts)
      BY <1>0, <2>0, GotoFits, AdvanceFits
      DEF RunPhases, InFlightPhases, IdlePhases, QueuePhases, SendPhases
    <2>2. UNCHANGED <<key, chainVars>>
      BY <1>4 DEF Assign, Write
    <2>3. \/ CancelBlocked(r, c, s) /\ (Become(r, a) \/ Become(r, Stopped))
          \/ AssignClaimNonce(r, c, s) /\ (Become(r, m) \/ Become(r, Stopped))
          \/ UNCHANGED outboxVars /\ Become(r, Stopped)
      BY <1>4 DEF Assign, Write
    <2> HIDE DEF m, a
    <2>4. CASE CancelBlocked(r, c, s) /\ (Become(r, a) \/ Become(r, Stopped))
      <3>1. Committed
        BY <1>1, <1>2, <2>2, <2>4, CancelBlockedCommitted DEF WorkerInv, chainVars
      <3> QED
        BY <2>1, <2>2, <2>4, <3>1, CommitUpheld
    <2>5. CASE AssignClaimNonce(r, c, s) /\ (Become(r, m) \/ Become(r, Stopped))
      <3>1. Committed
        BY <1>1, <1>2, <2>2, <2>5, AssignCommitted DEF WorkerInv, chainVars
      <3> QED
        BY <2>1, <2>2, <2>5, <3>1, CommitUpheld
    <2>6. CASE UNCHANGED outboxVars /\ Become(r, Stopped)
      BY <2>2, <2>6, EndUpheld
    <2> QED
      BY <2>3, <2>4, <2>5, <2>6
  <1>5. CASE Record(r)
    <2> DEFINE c == Claim(r)
               s == run[r].key
               n == run[r].nonce
               t == Signing(r)
               m == [run[r] EXCEPT !.pc = "broadcast", !.signed = t]
    <2>1. run[r].fee \in Fees /\ t = SignTransfer(c, s, n, run[r].fee)
      BY <1>0, <1>5 DEF Record, Fits, Signing
    <2>2. UNCHANGED <<key, chainVars>>
      BY <1>5 DEF Record, Write
    <2>3. \/ RecordSignedClaim(r, c, n, t, s)
                /\ (Become(r, m) \/ Become(r, Stopped))
          \/ UNCHANGED outboxVars /\ Become(r, Stopped)
      BY <1>5 DEF Record, Write
    <2> HIDE DEF t
    <2>5. CASE RecordSignedClaim(r, c, n, t, s)
                  /\ (Become(r, m) \/ Become(r, Stopped))
      <3>1. Committed /\ claims'[c].tx # NULL /\ claims'[c].tx = t /\ t \in Hashes
        BY <1>1, <1>2, <2>1, <2>2, <2>5, RecordCommitted DEF WorkerInv, chainVars
      <3>2. /\ m \in Runs /\ m.pc = "broadcast" /\ m.key = s /\ m.todo = <<>>
            /\ m.queue = run[r].queue /\ m.signed = t
        BY <1>0, <3>1 DEF Runs, RunPhases
      <3>3. \/ Become(r, m)
            \/ Become(r, Stopped)
        BY <2>5
      <3> HIDE DEF m
      <3>4. ClaimOf(m) = c
        BY <1>0, <3>2 DEF ClaimOf
      <3>5. Fits(m, claims', Receipts')
        BY <1>0, <1>1, <3>1, <3>2, <3>4
        DEF Fits, TodoFits, InFlightPhases, IdlePhases, QueuePhases, SendPhases
      <3> QED
        BY <2>2, <3>1, <3>2, <3>3, <3>5, CommitUpheld
    <2>6. CASE UNCHANGED outboxVars /\ Become(r, Stopped)
      BY <2>2, <2>6, EndUpheld
    <2> QED
      BY <2>3, <2>5, <2>6
  <1>6. CASE Poll(r)
    <2> DEFINE c == Claim(r)
               t == claims[c].tx
               f == Found("tx", t)
               m == [run[r] EXCEPT !.pc = "settle", !.found = f]
    <2>2. t # NULL /\ run[r].signed = t
      BY <1>0, <1>6 DEF Poll, Fits
    <2>1. /\ \/ HasReceipt(t) /\ Become(r, m)
             \/ Become(r, Stopped)
          /\ UNCHANGED <<outboxVars, key, chainVars>>
      BY <1>6, <2>2 DEF Poll, Read
    <2>3. f \in Founds /\ (HasReceipt(t) => Settles(f, c, claims[c], Receipts))
      BY <1>2, <2>2, OwnReceipt
    <2> HIDE DEF f
    <2>4. /\ m \in Runs /\ m.pc = "settle" /\ m.key = run[r].key
          /\ m.todo = <<>> /\ m.queue = run[r].queue /\ m.found = f
          /\ m.signed = run[r].signed
      BY <1>0, <2>3 DEF Runs, RunPhases
    <2> HIDE DEF m
    <2>5. ClaimOf(m) = c
      BY <1>0, <2>4 DEF ClaimOf
    <2>6. CASE HasReceipt(t) /\ Become(r, m)
      <3>1. Fits(m, claims, Receipts)
        BY <1>0, <1>1, <2>2, <2>3, <2>4, <2>5, <2>6
        DEF Fits, TodoFits, InFlightPhases, IdlePhases, QueuePhases, SendPhases
      <3> QED
        BY <2>1, <2>4, <2>6, <3>1, ReadUpheld
    <2>7. CASE Become(r, Stopped)
      BY <2>1, <2>7, EndUpheld
    <2> QED
      BY <2>1, <2>6, <2>7
  <1>7. CASE PreflightRefuses(r)
    BY <1>7, EndUpheld DEF PreflightRefuses, Read
  <1> QED
    BY <1>3, <1>4, <1>5, <1>6, <1>7

\* However a run ends.
LEMMA EndingUpheld ==
    ASSUME WorkerInv, NEW r \in Holders,
           ReleaseLease(r) \/ Abort(r) \/ Crash(r)
    PROVE  Upheld
  <1>1. CASE ReleaseLease(r)
    <2>1. Committed
      BY <1>1, LeaseCommitted DEF ReleaseLease, WorkerInv, chainVars
    <2>2. run[r] \in Runs /\ Fits(run[r], claims, Receipts)
      BY RunType
    <2> QED
      BY <1>1, <2>1, <2>2, CommitUpheld DEF ReleaseLease
  <1>2. CASE Abort(r) \/ Crash(r)
    BY <1>2, EndUpheld DEF Abort, Crash
  <1> QED
    BY <1>1, <1>2

LEMMA RunUpheld ==
    ASSUME AnyHash, WorkerInv, NEW r \in Holders, RunStep(r)
    PROVE  Upheld
  <1>1. CASE Start(r) \/ Acquire(r) \/ Snapshot(r)
    BY <1>1, StartUpheld
  <1>2. CASE ReconcileRow(r) \/ CheckNonce(r) \/ Recheck(r) \/ ReadSwitch(r)
    BY <1>2, ReconcileUpheld
  <1>3. CASE Settle(r)
    BY <1>3, SettleUpheld
  <1>4. CASE Flag(r) \/ Mark(r) \/ Attempt(r)
    BY <1>4, FollowUpheld
  <1>5. CASE Broadcast(r)
    BY <1>5, BroadcastUpheld
  <1>6. CASE \/ Reconciled(r) \/ InitAccount(r) \/ Sanity(r) \/ Sanity2(r)
             \/ Halt(r) \/ QueueDone(r)
    BY <1>6, SanityUpheld
  <1>7. CASE \/ Preflight(r) \/ PreflightRefuses(r) \/ Assign(r) \/ Record(r)
             \/ Poll(r)
    BY <1>7, PayUpheld
  <1>8. CASE ReleaseLease(r)
    BY <1>8, EndingUpheld
  <1> QED
    BY <1>1, <1>2, <1>3, <1>4, <1>5, <1>6, <1>7, <1>8 DEF RunStep

-----------------------------------------------------------------------------
(* The chain and the people                                                *)

\* A step of the outbox that no run takes.
LEMMA StayUpheld ==
    ASSUME WorkerInv, Committed, UNCHANGED <<run, key>>
    PROVE  Upheld
  BY RunsStay DEF Upheld, WorkerInv, Committed

LEMMA ChainUpheld ==
    ASSUME WorkerInv, NEW t \in sent, NEW ok \in BOOLEAN, Mine(t, ok)
    PROVE  Upheld
  <1> DEFINE e == [tx |-> t, ok |-> ok]
  <1>1. t \in Txs /\ t.from \in Signers
    BY DEF WorkerInv, Money, SentOK, Txs
  <1>2. e \in MinedTxs /\ e.tx = t
    BY <1>1 DEF MinedTxs
  <1>3. /\ mined' = [mined EXCEPT ![t.from] = Append(mined[t.from], e)]
        /\ t.nonce = Len(mined[t.from])
        /\ UNCHANGED <<outboxVars, run, key, sent>>
    BY DEF Mine, LatestNonce
  <1> HIDE DEF e
  <1>4. Carried
    BY <1>1, <1>2, <1>3, MoneyMined DEF WorkerInv, outboxVars
  <1> QED
    BY <1>3, <1>4, RunsStay DEF Upheld, WorkerInv

LEMMA ForeignUpheld ==
    ASSUME WorkerInv, NEW s \in Signers, ForeignTx(s)
    PROVE  Upheld
  <1> DEFINE n == Len(mined[s])
             t == [from |-> s, nonce |-> n, kind |-> "foreign", claim |-> NULL,
                   fee |-> NULL]
             e == [tx |-> t, ok |-> TRUE]
  <1>1. n \in Nat
    BY LatestType DEF LatestNonce
  <1>2. /\ mined' = [mined EXCEPT ![s] = Append(mined[s], e)]
        /\ UNCHANGED <<outboxVars, run, key, sent>>
    BY DEF ForeignTx
  <1>3. /\ e \in MinedTxs /\ e.tx.from = s /\ e.tx.nonce = n
        /\ e.tx.kind = "foreign"
    <2> HIDE DEF n
    <2> QED
      BY <1>1 DEF MinedTxs, Txs
  <1> HIDE DEF e
  <1>4. Carried
    BY <1>2, <1>3, MoneyMined DEF WorkerInv, outboxVars
  <1> QED
    BY <1>2, <1>4, RunsStay DEF Upheld, WorkerInv

\* The override an operator sends by hand.
LEMMA SendOverrideUpheld ==
    ASSUME WorkerInv, NEW c \in Claims, NEW kind \in Kinds, NEW s \in Signers,
           SendOverride(c, kind, s)
    PROVE  Upheld
  <1> DEFINE n == claims[c].nonce
             t == [from |-> s, nonce |-> n, kind |-> kind, claim |-> c, fee |-> NULL]
  <1>1. claims[c].tx # NULL /\ n \in Nat
    BY DEF SendOverride, WorkerInv, Money, RowsOK, PastSigning, InFlight
  <1>2. kind = "pay" => s = claims[c].signer
    BY DEF SendOverride
  <1>3. sent' = sent \cup {t} /\ UNCHANGED <<outboxVars, run, key, mined>>
    BY DEF SendOverride
  <1>4. /\ t \in Txs /\ t.claim = c /\ t.kind = kind /\ t.nonce = n
        /\ t.from = s
    <2> HIDE DEF n
    <2> QED
      BY <1>1 DEF Txs, Kinds
  <1> HIDE DEF t
  <1>5. Carried
    BY <1>1, <1>2, <1>3, <1>4, MoneySent DEF WorkerInv, outboxVars, Kinds
  <1> QED
    BY <1>3, <1>5, RunsStay DEF Upheld, WorkerInv

\* ... and writes down.
LEMMA RecordOverrideUpheld ==
    ASSUME AnyHash, WorkerInv, NEW c \in Claims, RecordOverride(c)
    PROVE  Upheld
  <1>1. PICK t \in Sent(c) :
          t.kind \in Kinds /\ Operates(RecordClaimOverride(c, t, t.kind))
    BY DEF RecordOverride
  <1> DEFINE kind == t.kind
             row == [claims[c] EXCEPT !.override = t, !.kind = kind]
  <1>2. t \in sent /\ t.claim = c /\ t \in Txs /\ claims[c].tx # NULL
    BY DEF Sent, WorkerInv, Money, SentOK
  <1>3. t \in Hashes /\ kind \in Kinds
    BY <1>1, <1>2 DEF AnyHash
  <1>4. /\ RecordClaimOverride(c, t, kind)
        /\ UNCHANGED <<run, key, sent, mined>>
    BY <1>1 DEF Operates, chainVars
  <1>5. OutboxStep(Nat)
    BY <1>3, <1>4 DEF OutboxStep, OperatorCall
  <1>6. claims[c] \in ClaimRow
    BY RowType DEF WorkerInv
  <1>7. Update(c, row) /\ claims[c].status \in InFlight \cup {"needs_review"}
    BY <1>4 DEF RecordClaimOverride
  <1> HIDE DEF kind
  <1>8. /\ row \in ClaimRow /\ row.override = t /\ row.kind = kind
        /\ row.tx = claims[c].tx /\ row.status = claims[c].status
    BY <1>3, <1>6 DEF ClaimRow
  <1> HIDE DEF row
  <1>9. /\ t # claims[c].override
        /\ row.status # "confirmed" /\ row.status # "failed"
    BY <1>3, <1>4, <1>7, <1>8, OutboxAssumption DEF RecordClaimOverride, InFlight
  <1>10. Carried
    BY <1>2, <1>3, <1>4, <1>7, <1>8, <1>9, MoneyUpdated DEF WorkerInv, kind
  <1> QED
    BY <1>4, <1>5, <1>10, StayUpheld DEF Committed

\* The ruling of an operator who read what used the claim's nonce.
LEMMA RuleUpheld ==
    ASSUME AnyHash, WorkerInv, NEW c \in Claims, Rule(c)
    PROVE  Upheld
  <1>1. PICK m \in UsedBy(c) :
          IF Pays(m, c) THEN Operates(ResolveConfirmed(c, m.tx))
                        ELSE Operates(ResolveFailed(c))
    BY DEF Rule
  <1>2. m \in Receipts /\ m.tx \in Hashes
    BY ReceiptFacts DEF UsedBy, WorkerInv, Money, MinedTxs, AnyHash
  <1>3. UNCHANGED <<run, key, sent, mined>>
    BY <1>1 DEF Operates, chainVars
  <1>4. CASE Pays(m, c)
    <2>1. ResolveConfirmed(c, m.tx) /\ PaymentsOf(c) # {}
      BY <1>1, <1>2, <1>4 DEF Operates, PaymentsOf
    <2>2. OutboxStep(Nat)
      BY <1>2, <2>1 DEF OutboxStep, OperatorCall
    <2>3. Carried
      BY <1>3, <2>1, ConfirmCarried DEF ResolveConfirmed, WorkerInv
    <2> QED
      BY <1>3, <2>2, <2>3, StayUpheld DEF Committed
  <1>5. CASE ~Pays(m, c)
    <2>1. ResolveFailed(c) /\ Voided(c)
      BY <1>1, <1>5 DEF Operates, Voided
    <2>2. OutboxStep(Nat)
      BY <2>1 DEF OutboxStep, OperatorCall
    <2>3. "operator_review" \in Proofs
      BY DEF Proofs
    <2>4. Carried
      BY <1>3, <2>1, <2>3, FailCarried DEF ResolveFailed, WorkerInv
    <2> QED
      BY <1>3, <2>2, <2>4, StayUpheld DEF Committed
  <1> QED
    BY <1>4, <1>5

\* What else people do to the outbox leaves every signed row alone.
LEMMA OtherUpheld ==
    ASSUME WorkerInv, UNCHANGED <<run, key, sent, mined>>,
           \/ \E w \in Wallets : CreateRewardClaim(w)
           \/ \E k \in Credits : InsertCredit(k)
           \/ SetPayouts(~payouts)
           \/ \E w \in Wallets : SetBlocked(blocked \cup {w})
           \/ \E c \in Claims : CancelQueuedClaim(c)
           \/ \E s \in Signers : AlignNonce(s, LatestNonce(s)) \/ ResumePayouts(s)
           \/ ExpireLease
    PROVE  Upheld
  <1>1. OutboxStep(Nat)
    BY LatestType DEF OutboxStep, OperatorCall
  <1>2. CASE claims' = claims
    BY <1>1, <1>2, MoneyQuiet, StayUpheld DEF Committed, WorkerInv
  <1>3. CASE \E w \in Wallets : CreateRewardClaim(w)
    BY <1>1, <1>3, MoneyCreated, StayUpheld DEF Committed, WorkerInv
  <1>4. CASE \E c \in Claims : CancelQueuedClaim(c)
    BY <1>1, <1>4, CancelCarried, StayUpheld
    DEF Committed, WorkerInv, CancelQueuedClaim
  <1> QED
    BY <1>2, <1>3, <1>4
    DEF InsertCredit, SetPayouts, SetBlocked, AlignNonce, ResumePayouts, ExpireLease

\* docs/RUNBOOK.md 5.3.
LEMMA RotateUpheld ==
    ASSUME WorkerInv, NEW s \in Signers, RotateKey(s)
    PROVE  Upheld
  <1>1. Carried
    BY MoneyQuiet DEF RotateKey, WorkerInv, outboxVars, chainVars
  <1> QED
    BY <1>1, RunsStay DEF Upheld, WorkerInv, RotateKey

LEMMA WorldUpheld ==
    ASSUME AnyHash, WorkerInv, WorldNext \/ ChainNext \/ LeaseRunsOut
    PROVE  Upheld
  <1>1. CASE ChainNext
    BY <1>1, ChainUpheld DEF ChainNext
  <1>2. CASE LeaseRunsOut
    BY <1>2, OtherUpheld DEF LeaseRunsOut, chainVars
  <1>3. CASE \E c \in Claims : \/ \E kind \in Kinds, s \in Signers : SendOverride(c, kind, s)
                               \/ RecordOverride(c) \/ Rule(c)
    BY <1>3, SendOverrideUpheld, RecordOverrideUpheld, RuleUpheld
  <1>4. CASE \E s \in Signers : RotateKey(s) \/ ForeignTx(s)
    BY <1>4, RotateUpheld, ForeignUpheld
  <1>5. CASE \/ \E w \in Wallets : Operates(CreateRewardClaim(w))
             \/ \E k \in Credits : Operates(InsertCredit(k))
             \/ Operates(SetPayouts(~payouts))
             \/ \E w \in Blockable : Operates(SetBlocked(blocked \cup {w}))
             \/ \E c \in Claims : Operates(CancelQueuedClaim(c))
             \/ \E s \in Signers : Align(s) \/ Resume(s)
    BY <1>5, OtherUpheld DEF Operates, chainVars, Blockable, Align, Resume
  <1> QED
    BY <1>1, <1>2, <1>3, <1>4, <1>5 DEF WorldNext

LEMMA NextUpheld ==
    ASSUME AnyHash, WorkerInv, [Next]_vars
    PROVE  /\ WorkerInv' /\ [OutboxStep(Nat)]_outboxVars
           /\ RowsKept /\ Receipts \subseteq Receipts'
  <1>1. Upheld
    <2>1. CASE UNCHANGED vars
      <3>1. Carried
        BY <2>1, MoneyQuiet DEF vars, WorkerInv
      <3> QED
        BY <2>1, <3>1, RunsStay DEF Upheld, WorkerInv, vars, outboxVars
    <2>2. ASSUME NEW r \in Holders, RunStep(r) \/ Abort(r) \/ Crash(r)
          PROVE  Upheld
      BY <2>2, RunUpheld, EndingUpheld
    <2>3. CASE WorldNext \/ ChainNext \/ LeaseRunsOut
      BY <2>3, WorldUpheld
    <2> QED
      BY <2>1, <2>2, <2>3 DEF Next, WorkerNext
  <1>2. IInv'
    BY <1>1, NextSafe DEF Upheld, WorkerInv
  <1> QED
    BY <1>1, <1>2 DEF Upheld, Carried, WorkerInv

LEMMA InitUpheld ==
    ASSUME WorkerInit
    PROVE  WorkerInv
  <1>1. IInv
    BY InitTypeOK, InitSafe DEF WorkerInit, IInv
  <1>2. /\ \A c \in Claims : claims[c] = NoRow
        /\ NoRow.tx = NULL /\ NoRow.override = NULL /\ NoRow.status = "absent"
    BY DEF WorkerInit, OutboxInit, NoRow
  <1>3. ChainOK
    <2>1. <<>> \in Seq(MinedTxs) /\ Len(<<>>) = 0
      BY EmptySeq
    <2>2. \A s \in Signers : mined[s] = <<>>
      BY DEF WorkerInit
    <2>3. mined \in [Signers -> Seq(MinedTxs)]
      BY <2>1 DEF WorkerInit
    <2> QED
      BY <2>1, <2>2, <2>3 DEF ChainOK
  <1>4. Money
    BY <1>2, <1>3
    DEF Money, RowsOK, SentOK, EndsOK, PastSigning, InFlight, WorkerInit
  <1>5. RunsOK
    BY EndedFits DEF RunsOK, WorkerInit
  <1> QED
    BY <1>1, <1>4, <1>5 DEF WorkerInv, WorkerInit

-----------------------------------------------------------------------------
(* What the invariant says of the money                                    *)

\* A credit that is in a paid claim is attached to it.
LEMMA PaidIsAttached ==
    ASSUME IInv, Money, NEW c \in Claims, NEW k \in Credits,
           k \in claims[c].credits, PaymentsOf(c) # {}
    PROVE  ledger[k] = c
  <1>1. claims[c].status # "failed"
    BY VoidForEver DEF Money, EndsOK
  <1> QED
    BY <1>1 DEF IInv, Safe, LedgerAgrees

LEMMA InvPaidOnce ==
    ASSUME WorkerInv
    PROVE  PaidAtMostOnce
  <1> SUFFICES ASSUME NEW k \in Credits
               PROVE  Cardinality(UNION {PaymentsOf(c) :
                         c \in {d \in Claims : k \in claims[d].credits}}) <= 1
    BY DEF PaidAtMostOnce
  <1> DEFINE all == UNION {PaymentsOf(c) :
                              c \in {d \in Claims : k \in claims[d].credits}}
  <1>1. ASSUME NEW m \in all, NEW n \in all
        PROVE  m = n
    <2>1. PICK c \in Claims : k \in claims[c].credits /\ m \in PaymentsOf(c)
      OBVIOUS
    <2>2. PICK d \in Claims : k \in claims[d].credits /\ n \in PaymentsOf(d)
      OBVIOUS
    <2>3. ledger[k] = c /\ ledger[k] = d
      BY <2>1, <2>2, PaidIsAttached DEF WorkerInv
    <2> QED
      BY <2>1, <2>2, <2>3, OnePayment DEF WorkerInv, Money
  <1> HIDE DEF all
  <1>2. CASE all = {}
    BY <1>2, FS_EmptySet DEF all
  <1>3. CASE all # {}
    <2>1. PICK m : all = {m}
      BY <1>1, <1>3
    <2>2. Cardinality(all) = 1
      BY <2>1, FS_Singleton
    <2> QED
      BY <2>2 DEF all
  <1> QED
    BY <1>2, <1>3

LEMMA InvTruth ==
    ASSUME WorkerInv
    PROVE  TerminalIsTruth
  BY VoidForEver DEF TerminalIsTruth, WorkerInv, Money, EndsOK

LEMMA InvPersisted ==
    ASSUME WorkerInv
    PROVE  OnlyPersistedBytes
  BY DEF OnlyPersistedBytes, WorkerInv, Money, SentOK

-----------------------------------------------------------------------------
(* The promise to the viewer                                               *)

\* What a claim is made of: credits of one wallet, and some.
Bundled ==
    \A c \in Claims : claims[c].status # "absent" =>
        /\ claims[c].wallet \in Wallets /\ claims[c].credits # {}
        /\ \A k \in claims[c].credits : Owner[k] = claims[c].wallet

PromiseInv == WorkerInv /\ Bundled /\ IsFiniteSet(Receipts)

\* No claim changes hands, is taken apart, comes or goes.
SameClaims ==
    \A c \in Claims : /\ claims'[c].wallet = claims[c].wallet
                      /\ claims'[c].credits = claims[c].credits
                      /\ (claims'[c].status = "absent") = (claims[c].status = "absent")

\* A claim fails, and what it held is free again.
GivesBack(c) ==
    /\ SameClaims /\ Release(c)
    /\ claims[c].status \in Open /\ claims'[c].status = "failed"

LEMMA UpdateSame ==
    ASSUME OutboxTypeOK, NEW c \in Claims, NEW row, Update(c, row)
    PROVE  /\ SameClaims
           /\ claims'[c] = row
           /\ row.status = "failed" => claims[c].status \in Open
  <1>1. /\ claims' = [claims EXCEPT ![c] = row] /\ claims \in [Claims -> ClaimRow]
        /\ row.wallet = claims[c].wallet /\ row.credits = claims[c].credits
        /\ <<claims[c].status, row.status>> \in Edges
    BY DEF Update, TransitionOk, OutboxTypeOK
  <1>2. claims[c].status \in Open /\ row.status # "absent"
    BY <1>1 DEF Edges, Open
  <1>3. claims[c].status # "absent"
    BY <1>2 DEF Open
  <1> QED
    BY <1>1, <1>2, <1>3 DEF SameClaims

\* To a viewer, a worker's call gives a claim back or is none of their business.
LEMMA WorkerCallKinds ==
    ASSUME OutboxTypeOK, NEW h \in Holders, WorkerCall(h, Nat)
    PROVE  \/ \E c \in Claims : GivesBack(c)
           \/ SameClaims /\ UNCHANGED ledger
  <1>1. ASSUME NEW c \in Claims, NEW s \in Signers, CancelBlocked(h, c, s)
        PROVE  GivesBack(c)
    <2> DEFINE row == [claims[c] EXCEPT !.status = "failed", !.proof = "never_signed",
                                        !.nonce = NULL]
    <2>1. Update(c, row) /\ Release(c) /\ row.status = "failed"
      BY <1>1 DEF CancelBlocked, CancelBody, OutboxTypeOK, ClaimRow
    <2> HIDE DEF row
    <2> QED
      BY <2>1, UpdateSame DEF GivesBack
  <1>2. ASSUME NEW c \in Claims, NEW s \in Signers, AssignClaimNonce(h, c, s)
        PROVE  SameClaims /\ UNCHANGED ledger
    BY <1>2, UpdateSame DEF AssignClaimNonce, SameClaims
  <1>3. ASSUME NEW c \in Claims, NEW s \in Signers, NEW t \in Hashes,
               RecordSignedClaim(h, c, claims[c].nonce, t, s)
        PROVE  SameClaims /\ UNCHANGED ledger
    BY <1>3, UpdateSame DEF RecordSignedClaim
  <1>4. ASSUME NEW c \in Claims, \/ MarkClaimBroadcast(h, c) \/ RecordClaimAttempt(h, c)
                                 \/ FlagClaimReview(h, c)
        PROVE  SameClaims /\ UNCHANGED ledger
    BY <1>4, UpdateSame DEF MarkClaimBroadcast, RecordClaimAttempt, FlagClaimReview
  <1>5. ASSUME NEW c \in Claims, NEW t \in Hashes, ConfirmClaim(h, c, t)
        PROVE  SameClaims /\ UNCHANGED ledger
    BY <1>5, UpdateSame DEF ConfirmClaim
  <1>6. ASSUME NEW c \in Claims, NEW t \in Hashes, NEW p \in Proofs, FailClaim(h, c, p, t)
        PROVE  GivesBack(c)
    <2> DEFINE row == [claims[c] EXCEPT !.status = "failed", !.proof = p]
    <2>1. Update(c, row) /\ Release(c) /\ row.status = "failed"
      BY <1>6 DEF FailClaim, OutboxTypeOK, ClaimRow
    <2> HIDE DEF row
    <2> QED
      BY <2>1, UpdateSame DEF GivesBack
  <1>7. ASSUME \/ AcquirePayoutLease(h) \/ ReleasePayoutLease(h)
               \/ \E s \in Signers : \/ \E n \in Nat : InitTreasuryAccount(h, s, n)
                                     \/ HaltTreasury(h, s)
        PROVE  SameClaims /\ UNCHANGED ledger
    BY <1>7 DEF AcquirePayoutLease, ReleasePayoutLease, InitTreasuryAccount, HaltTreasury, SameClaims
  <1> QED
    BY <1>1, <1>2, <1>3, <1>4, <1>5, <1>6, <1>7 DEF WorkerCall

LEMMA OperatorCallKinds ==
    ASSUME OutboxTypeOK, OperatorCall(Nat)
    PROVE  \/ \E c \in Claims : GivesBack(c)
           \/ SameClaims /\ UNCHANGED ledger
  <1>1. ASSUME NEW c \in Claims, CancelQueuedClaim(c)
        PROVE  GivesBack(c)
    <2> DEFINE row == [claims[c] EXCEPT !.status = "failed", !.proof = "never_signed",
                                        !.nonce = NULL]
    <2>1. Update(c, row) /\ Release(c) /\ row.status = "failed"
      BY <1>1 DEF CancelQueuedClaim, CancelBody, OutboxTypeOK, ClaimRow
    <2> HIDE DEF row
    <2> QED
      BY <2>1, UpdateSame DEF GivesBack
  <1>2. ASSUME NEW c \in Claims, ResolveFailed(c)
        PROVE  GivesBack(c)
    <2> DEFINE row == [claims[c] EXCEPT !.status = "failed", !.proof = "operator_review"]
    <2>1. Update(c, row) /\ Release(c) /\ row.status = "failed"
      BY <1>2 DEF ResolveFailed, OutboxTypeOK, ClaimRow
    <2> HIDE DEF row
    <2> QED
      BY <2>1, UpdateSame DEF GivesBack
  <1>3. ASSUME NEW c \in Claims, NEW t \in Hashes, ResolveConfirmed(c, t)
        PROVE  SameClaims /\ UNCHANGED ledger
    BY <1>3, UpdateSame DEF ResolveConfirmed
  <1>4. ASSUME NEW c \in Claims, NEW t \in Hashes, NEW k \in Kinds, RecordClaimOverride(c, t, k)
        PROVE  SameClaims /\ UNCHANGED ledger
    BY <1>4, UpdateSame DEF RecordClaimOverride
  <1>5. ASSUME \/ \E s \in Signers : \/ ResumePayouts(s)
                                     \/ \E n \in Nat : AlignNonce(s, n)
               \/ SetPayouts(~payouts)
               \/ \E w \in Wallets : SetBlocked(blocked \cup {w}) \/ SetBlocked(blocked \ {w})
        PROVE  SameClaims /\ UNCHANGED ledger
    BY <1>5 DEF ResumePayouts, AlignNonce, SetPayouts, SetBlocked, SameClaims
  <1> QED
    BY <1>1, <1>2, <1>3, <1>4, <1>5 DEF OperatorCall

\* What any step of the outbox is to a viewer.
LEMMA StepKinds ==
    ASSUME OutboxTypeOK, [OutboxStep(Nat)]_outboxVars
    PROVE  \/ \E w \in Wallets : CreateRewardClaim(w)
           \/ \E k \in Credits : InsertCredit(k)
           \/ \E c \in Claims : GivesBack(c)
           \/ SameClaims /\ UNCHANGED ledger
  <1>1. ExpireLease \/ UNCHANGED outboxVars => SameClaims /\ UNCHANGED ledger
    BY DEF ExpireLease, outboxVars, SameClaims
  <1> QED
    BY <1>1, WorkerCallKinds, OperatorCallKinds DEF OutboxStep

\* A new claim is of some wallet's unclaimed credits.
LEMMA CreatedIs ==
    ASSUME OutboxTypeOK, NEW w \in Wallets, CreateRewardClaim(w)
    PROVE  \E c \in Claims : \E take \in SUBSET Credits :
              /\ take # {} /\ \A k \in take : Owner[k] = w /\ ledger[k] = NULL
              /\ claims[c].status = "absent"
              /\ claims'[c].status = "queued" /\ claims'[c].wallet = w
              /\ claims'[c].credits = take /\ claims'[c].tx = NULL
              /\ \A d \in Claims \ {c} : claims'[d] = claims[d]
              /\ ledger' = [k \in Credits |-> IF k \in take THEN c ELSE ledger[k]]
  <1> DEFINE take == Prefix(w)
  <1>1. PICK c \in Claims :
          /\ NextRow(c)
          /\ claims' = [claims EXCEPT ![c] = [NoRow EXCEPT !.status = "queued", !.wallet = w,
                                                           !.credits = take]]
          /\ ledger' = [k \in Credits |-> IF k \in take THEN c ELSE ledger[k]]
    BY DEF CreateRewardClaim
  <1>2. take # {} /\ take \in SUBSET Credits /\ \A k \in take : Owner[k] = w /\ ledger[k] = NULL
    <2>1. take \subseteq Unclaimed(w)
      BY DEF Prefix
    <2> QED
      BY <2>1 DEF CreateRewardClaim, Unclaimed
  <1> HIDE DEF take
  <1> DEFINE row == [NoRow EXCEPT !.status = "queued", !.wallet = w, !.credits = take]
  <1>3. /\ row.status = "queued" /\ row.wallet = w /\ row.credits = take /\ row.tx = NULL
    BY DEF NoRow
  <1>4. claims' = [claims EXCEPT ![c] = row] /\ claims \in [Claims -> ClaimRow]
    BY <1>1 DEF OutboxTypeOK
  <1> HIDE DEF row
  <1>5. claims'[c] = row /\ \A d \in Claims \ {c} : claims'[d] = claims[d]
    BY <1>4
  <1> QED
    BY <1>1, <1>2, <1>3, <1>5 DEF NextRow

LEMMA BundledKept ==
    ASSUME OutboxTypeOK, Bundled, [OutboxStep(Nat)]_outboxVars
    PROVE  Bundled'
  <1>1. ASSUME NEW w \in Wallets, CreateRewardClaim(w) PROVE Bundled'
    BY <1>1, CreatedIs DEF Bundled
  <1>2. ASSUME SameClaims PROVE Bundled'
    BY <1>2 DEF SameClaims, Bundled
  <1>3. ASSUME NEW k \in Credits, InsertCredit(k) PROVE SameClaims
    BY <1>3 DEF InsertCredit, SameClaims
  <1> QED
    BY <1>1, <1>2, <1>3, StepKinds DEF GivesBack

\* What mining adds to the receipts.
LEMMA ReceiptsMined ==
    ASSUME ChainOK, NEW s \in Signers, NEW e \in MinedTxs,
           mined' = [mined EXCEPT ![s] = Append(mined[s], e)]
    PROVE  Receipts' = Receipts \cup {e}
  <1>1. mined \in [Signers -> Seq(MinedTxs)] /\ mined[s] \in Seq(MinedTxs)
    BY DEF ChainOK
  <1>2. /\ Len(Append(mined[s], e)) = Len(mined[s]) + 1
        /\ \A i \in 1 .. Len(mined[s]) : Append(mined[s], e)[i] = mined[s][i]
        /\ Append(mined[s], e)[Len(mined[s]) + 1] = e
        /\ Len(mined[s]) \in Nat
    BY <1>1, AppendProperties, LenProperties
  <1>3. mined'[s] = Append(mined[s], e) /\ \A z \in Signers \ {s} : mined'[z] = mined[z]
    BY <1>1
  <1>4. ASSUME NEW m
        PROVE  (\E i \in 1 .. Len(mined'[s]) : m = mined'[s][i])
                  <=> m = e \/ \E i \in 1 .. Len(mined[s]) : m = mined[s][i]
    <2>1. ASSUME NEW i \in 1 .. Len(mined'[s]), m = mined'[s][i]
          PROVE  m = e \/ \E j \in 1 .. Len(mined[s]) : m = mined[s][j]
      <3>1. CASE i = Len(mined[s]) + 1
        BY <1>2, <1>3, <2>1, <3>1
      <3>2. CASE i # Len(mined[s]) + 1
        <4>1. i \in 1 .. Len(mined[s])
          BY <1>2, <1>3, <3>2
        <4> QED
          BY <1>2, <1>3, <2>1, <4>1
      <3> QED
        BY <3>1, <3>2
    <2>2. ASSUME m = e PROVE \E i \in 1 .. Len(mined'[s]) : m = mined'[s][i]
      <3>1. Len(mined[s]) + 1 \in 1 .. Len(mined'[s])
        BY <1>2, <1>3
      <3> QED
        BY <1>2, <1>3, <2>2, <3>1
    <2>3. ASSUME NEW j \in 1 .. Len(mined[s]), m = mined[s][j]
          PROVE  \E i \in 1 .. Len(mined'[s]) : m = mined'[s][i]
      <3>1. j \in 1 .. Len(mined'[s]) /\ mined'[s][j] = m
        BY <1>2, <1>3, <2>3
      <3> QED
        BY <3>1
    <2> QED
      BY <2>1, <2>2, <2>3
  <1>5. ASSUME NEW m PROVE m \in Receipts' <=> m \in Receipts \/ m = e
    <2>1. m \in Receipts' <=> \E z \in Signers : \E i \in 1 .. Len(mined'[z]) : m = mined'[z][i]
      BY DEF Receipts
    <2>2. m \in Receipts <=> \E z \in Signers : \E i \in 1 .. Len(mined[z]) : m = mined[z][i]
      BY ReceiptAt
    <2>3. \A z \in Signers \ {s} : (\E i \in 1 .. Len(mined'[z]) : m = mined'[z][i])
                                     <=> (\E i \in 1 .. Len(mined[z]) : m = mined[z][i])
      BY <1>3
    <2> QED
      BY <1>4, <2>1, <2>2, <2>3
  <1> QED
    BY <1>5

\* How a credit stands, told from the ledger alone but for whether it was paid.
StateOf(k) ==
    IF ledger[k] = Absent THEN "none"
    ELSE IF ledger[k] = NULL THEN "owed"
    ELSE IF PaymentsOf(ledger[k]) # {} THEN "paid" ELSE "reserved"

LEMMA PayingIs ==
    ASSUME WorkerInv, NEW m \in Paying
    PROVE  /\ m \in Receipts /\ m.tx.claim \in Claims /\ m \in PaymentsOf(m.tx.claim)
           /\ claims[m.tx.claim].tx # NULL /\ claims[m.tx.claim].status # "absent"
  <1>1. m \in Receipts /\ Pays(m, m.tx.claim)
    BY DEF Paying
  <1>2. m.tx \in sent
    BY <1>1, ReceiptFacts DEF Pays, WorkerInv, Money
  <1>3. m.tx.claim \in Claims
    BY <1>2 DEF WorkerInv, Money, SentOK
  <1>4. m \in PaymentsOf(m.tx.claim)
    BY <1>1 DEF PaymentsOf
  <1> QED
    BY <1>1, <1>3, <1>4, PaymentFits DEF WorkerInv, Money, RowsOK

LEMMA StateIs == WorkerInv => \A k \in Credits : CreditState(k) = StateOf(k)
  <1> SUFFICES ASSUME WorkerInv, NEW k \in Credits PROVE CreditState(k) = StateOf(k)
    OBVIOUS
  <1> DEFINE paid == \E m \in Paying : k \in claims[m.tx.claim].credits
  <1>1. /\ ledger[k] \in Claims \cup {NULL, Absent} /\ NULL \notin Claims /\ Absent \notin Claims
        /\ NULL # Absent
    BY OutboxAssumption DEF WorkerInv, IInv, OutboxTypeOK, Claims
  <1>2. ASSUME paid PROVE ledger[k] \in Claims /\ PaymentsOf(ledger[k]) # {}
    <2>1. PICK m \in Paying : k \in claims[m.tx.claim].credits
      BY <1>2
    <2>2. m.tx.claim \in Claims /\ PaymentsOf(m.tx.claim) # {}
      BY PayingIs
    <2>3. ledger[k] = m.tx.claim
      BY <2>1, <2>2, PaidIsAttached DEF WorkerInv
    <2> QED
      BY <2>2, <2>3
  <1>3. ASSUME ledger[k] \in Claims, PaymentsOf(ledger[k]) # {} PROVE paid
    <2>1. PICK m : m \in PaymentsOf(ledger[k])
      BY <1>3
    <2>2. m \in Paying /\ m.tx.claim = ledger[k]
      BY <2>1 DEF PaymentsOf, Paying, Pays
    <2>3. k \in claims[ledger[k]].credits
      BY <1>3 DEF WorkerInv, IInv, Safe, LedgerAgrees
    <2> QED
      BY <2>2, <2>3
  <1> QED
    BY <1>1, <1>2, <1>3 DEF CreditState, StateOf

OnePaymentEach == \A c \in Claims : \A m, n \in PaymentsOf(c) : m = n

LEMMA PaidOnceEver == WorkerInv => OnePaymentEach
  BY OnePayment DEF WorkerInv, Money, OnePaymentEach

\* What a claim is worth, and what a wallet was paid, are numbers.
LEMMA WorthIs ==
    ASSUME PromiseInv, IsFiniteSet(Credits)
    PROVE  /\ \A m \in Paying : Worth[m] = Total(Amount, claims[m.tx.claim].credits)
           /\ \A K \in SUBSET Credits : IsFiniteSet(K) /\ Total(Amount, K) \in Nat
           /\ \A m \in Paying : Worth[m] \in Nat
           /\ IsFiniteSet(Paying)
  <1>1. \A m \in Paying : Worth[m] = Total(Amount, claims[m.tx.claim].credits)
    BY DEF Worth, Total
  <1>2. ASSUME NEW K \in SUBSET Credits PROVE IsFiniteSet(K) /\ Total(Amount, K) \in Nat
    <2>1. IsFiniteSet(K)
      BY FS_Subset
    <2>2. Counts(Amount, K)
      BY OutboxAssumption DEF Counts
    <2> QED
      BY <2>1, <2>2, TotalType
  <1>3. ASSUME NEW m \in Paying PROVE Worth[m] \in Nat
    <2>1. claims[m.tx.claim] \in ClaimRow
      BY PayingIs DEF PromiseInv, WorkerInv, IInv, OutboxTypeOK
    <2>2. claims[m.tx.claim].credits \in SUBSET Credits
      BY <2>1 DEF ClaimRow
    <2> QED
      BY <1>1, <1>2, <2>2
  <1>4. IsFiniteSet(Paying)
    BY FS_Subset DEF PromiseInv, Paying
  <1> QED
    BY <1>1, <1>2, <1>3, <1>4

PayingTo(w) == {m \in Paying : claims[m.tx.claim].wallet = w}

LEMMA WorthTotals == Worth = [m \in Paying |-> Total(Amount, claims[m.tx.claim].credits)]
  BY DEF Worth, Total

AddsUp == \A w : ReceivedBy(w) = Total(Worth, PayingTo(w))

LEMMA ReceivedTotals == AddsUp
  BY DEF AddsUp, ReceivedBy, Total, PayingTo

\* What was paid stays what it was while the chain and the paid claims do.
LEMMA ReceivedStays ==
    ASSUME Receipts' = Receipts,
           \A m \in Paying : /\ claims'[m.tx.claim].wallet = claims[m.tx.claim].wallet
                             /\ claims'[m.tx.claim].credits = claims[m.tx.claim].credits
    PROVE  /\ \A c : PaymentsOf(c)' = PaymentsOf(c)
           /\ \A w : ReceivedBy(w)' = ReceivedBy(w)
  <1>1. \A c : PaymentsOf(c)' = PaymentsOf(c)
    BY DEF PaymentsOf, Pays
  <1>2. Paying' = Paying
    BY DEF Paying, Pays
  <1>3. Worth' = Worth
    <2>1. (Worth = [m \in Paying |-> Total(Amount, claims[m.tx.claim].credits)])'
      BY WorthTotals, PTL
    <2> QED
      BY <1>2, <2>1, WorthTotals
  <1>4. AddsUp'
    BY ReceivedTotals, PTL
  <1>5. ASSUME NEW w PROVE ReceivedBy(w)' = ReceivedBy(w)
    <2>1. PayingTo(w)' = PayingTo(w)
      BY <1>2 DEF PayingTo
    <2> QED
      BY <1>3, <1>4, <2>1, ReceivedTotals DEF AddsUp
  <1> QED
    BY <1>1, <1>5

\* A step of the outbox is a step of the promise, or nothing to it.
LEMMA OutboxKeepsPromise ==
    ASSUME PromiseInv, WorkerInv', [OutboxStep(Nat)]_outboxVars, UNCHANGED mined
    PROVE  [Promise!Next]_(Promise!promiseVars)
  <1> DEFINE st == [k \in Credits |-> CreditState(k)]
             rc == [w \in Wallets |-> ReceivedBy(w)]
  <1>1. Receipts' = Receipts
    BY DEF Receipts
  <1>2. /\ \A k \in Credits : CreditState(k) = StateOf(k)
        /\ \A k \in Credits : (CreditState(k) = StateOf(k))'
    <2>1. WorkerInv' => (\A k \in Credits : CreditState(k) = StateOf(k))'
      BY StateIs, PTL
    <2> QED
      BY <2>1, StateIs DEF PromiseInv
  <1>3. OutboxTypeOK /\ ledger \in [Credits -> Claims \cup {NULL, Absent}] /\ NULL # Absent
        /\ NULL \notin Claims /\ Absent \notin Claims
    BY OutboxAssumption DEF PromiseInv, WorkerInv, IInv, OutboxTypeOK, Claims
  <1>4. ASSUME NEW w \in Wallets, CreateRewardClaim(w)
        PROVE  [Promise!Next]_(Promise!promiseVars)
    <2>0. PICK c \in Claims : \E take \in SUBSET Credits :
              /\ take # {} /\ \A k \in take : Owner[k] = w /\ ledger[k] = NULL
              /\ claims[c].status = "absent"
              /\ claims'[c].status = "queued" /\ claims'[c].wallet = w
              /\ claims'[c].credits = take /\ claims'[c].tx = NULL
              /\ \A d \in Claims \ {c} : claims'[d] = claims[d]
              /\ ledger' = [k \in Credits |-> IF k \in take THEN c ELSE ledger[k]]
      BY <1>3, <1>4, CreatedIs
    <2>1. PICK take \in SUBSET Credits :
              /\ take # {} /\ \A k \in take : Owner[k] = w /\ ledger[k] = NULL
              /\ claims[c].status = "absent"
              /\ claims'[c].status = "queued" /\ claims'[c].wallet = w
              /\ claims'[c].credits = take /\ claims'[c].tx = NULL
              /\ \A d \in Claims \ {c} : claims'[d] = claims[d]
              /\ ledger' = [k \in Credits |-> IF k \in take THEN c ELSE ledger[k]]
      BY <2>0
    <2>2. \A m \in Paying : m.tx.claim \in Claims \ {c}
      BY <2>1, PayingIs DEF PromiseInv
    <2>3. /\ \A d : PaymentsOf(d)' = PaymentsOf(d)
          /\ \A v : ReceivedBy(v)' = ReceivedBy(v)
      BY <1>1, <2>1, <2>2, ReceivedStays
    <2>4. PaymentsOf(c) = {}
      <3>1. claims[c].tx = NULL
        BY <2>1 DEF PromiseInv, WorkerInv, Money, RowsOK
      <3> QED
        BY <3>1, PaymentFits DEF PromiseInv, WorkerInv, Money
    <2>5. \A k \in take : StateOf(k) = "owed" /\ StateOf(k)' = "reserved"
      <3> SUFFICES ASSUME NEW k \in take PROVE StateOf(k) = "owed" /\ StateOf(k)' = "reserved"
        OBVIOUS
      <3>1. ledger[k] = NULL /\ ledger'[k] = c /\ c # NULL /\ c # Absent
        BY <1>3, <2>1
      <3>2. PaymentsOf(c)' = {}
        BY <2>3, <2>4
      <3> QED
        BY <1>3, <3>1, <3>2 DEF StateOf, PaymentsOf, Pays
    <2>6. \A k \in Credits \ take : StateOf(k)' = StateOf(k)
      BY <1>1, <2>1 DEF StateOf, PaymentsOf, Pays
    <2>7. rc' = rc
      BY <2>3
    <2>8. Promise!Move(take, "owed", "reserved")
      BY <1>2, <2>5, <2>6 DEF Promise!Move
    <2>9. take \in Promise!Batches
      BY <2>1 DEF Promise!Batches
    <2> QED
      BY <2>7, <2>8, <2>9 DEF Promise!Next, Promise!Reserve
  <1>5. ASSUME NEW k \in Credits, InsertCredit(k)
        PROVE  [Promise!Next]_(Promise!promiseVars)
    <2>1. ledger[k] = Absent /\ ledger' = [ledger EXCEPT ![k] = NULL] /\ claims' = claims
      BY <1>5 DEF InsertCredit
    <2>2. \A v : ReceivedBy(v)' = ReceivedBy(v)
      BY <1>1, <2>1, ReceivedStays
    <2>3. StateOf(k) = "none" /\ StateOf(k)' = "owed"
      BY <1>3, <2>1 DEF StateOf
    <2>4. \A j \in Credits \ {k} : StateOf(j)' = StateOf(j)
      BY <1>1, <1>3, <2>1 DEF StateOf, PaymentsOf, Pays
    <2>5. rc' = rc
      BY <2>2
    <2>6. Promise!Move({k}, "none", "owed")
      BY <1>2, <2>3, <2>4 DEF Promise!Move
    <2> QED
      BY <2>5, <2>6 DEF Promise!Next, Promise!Win
  <1>6. ASSUME NEW c \in Claims, GivesBack(c)
        PROVE  [Promise!Next]_(Promise!promiseVars)
    <2> DEFINE K == claims[c].credits
    <2>1. /\ claims[c].status \in Open /\ claims'[c].status = "failed" /\ SameClaims
          /\ ledger' = [k \in Credits |-> IF ledger[k] = c THEN NULL ELSE ledger[k]]
      BY <1>6 DEF GivesBack, Release
    <2>2. K = {k \in Credits : ledger[k] = c} /\ K \in SUBSET Credits
      BY <2>1 DEF PromiseInv, WorkerInv, IInv, Safe, LedgerAgrees, Open
    <2>3. K # {} /\ \A j, k \in K : Owner[j] = Owner[k]
      BY <2>1 DEF PromiseInv, Bundled, Open
    <2>4. \A m \in Paying : m.tx.claim \in Claims
      BY PayingIs DEF PromiseInv
    <2>5. /\ \A d : PaymentsOf(d)' = PaymentsOf(d)
          /\ \A v : ReceivedBy(v)' = ReceivedBy(v)
      BY <1>1, <2>1, <2>4, ReceivedStays DEF SameClaims
    <2>6. PaymentsOf(c) = {}
      <3>1. WorkerInv' => TerminalIsTruth'
        BY InvTruth, PTL
      <3>2. PaymentsOf(c)' = {}
        BY <2>1, <3>1 DEF TerminalIsTruth
      <3> QED
        BY <2>5, <3>2
    <2> HIDE DEF K
    <2>7. \A k \in K : StateOf(k) = "reserved" /\ StateOf(k)' = "owed"
      BY <1>3, <2>1, <2>2, <2>6 DEF StateOf
    <2>8. \A k \in Credits \ K : StateOf(k)' = StateOf(k)
      BY <1>1, <2>1, <2>2 DEF StateOf, PaymentsOf, Pays
    <2>9. rc' = rc
      BY <2>5
    <2>10. Promise!Move(K, "reserved", "owed")
      BY <1>2, <2>2, <2>7, <2>8 DEF Promise!Move
    <2>11. K \in Promise!Batches
      BY <2>2, <2>3 DEF Promise!Batches
    <2> QED
      BY <2>9, <2>10, <2>11 DEF Promise!Next, Promise!GiveBack
  <1>7. ASSUME SameClaims, UNCHANGED ledger
        PROVE  [Promise!Next]_(Promise!promiseVars)
    <2>1. \A m \in Paying : m.tx.claim \in Claims
      BY PayingIs DEF PromiseInv
    <2>2. \A v : ReceivedBy(v)' = ReceivedBy(v)
      BY <1>1, <1>7, <2>1, ReceivedStays DEF SameClaims
    <2>3. \A k \in Credits : StateOf(k)' = StateOf(k)
      BY <1>1, <1>7 DEF StateOf, PaymentsOf, Pays
    <2>4. rc' = rc
      BY <2>2
    <2>5. st' = st
      BY <1>2, <2>3
    <2> QED
      BY <2>4, <2>5 DEF Promise!promiseVars
  <1> QED
    BY <1>3, <1>4, <1>5, <1>6, <1>7, StepKinds

\* Mining what pays nothing is nothing to the promise.
LEMMA IdleMining ==
    ASSUME PromiseInv, WorkerInv', UNCHANGED <<claims, ledger>>,
           NEW e, Receipts' = Receipts \cup {e}, ~Pays(e, e.tx.claim)
    PROVE  UNCHANGED (Promise!promiseVars)
  <1>1. Paying' = Paying
    BY DEF Paying, Pays
  <1>2. Worth' = Worth
    <2>1. (Worth = [m \in Paying |-> Total(Amount, claims[m.tx.claim].credits)])'
      BY WorthTotals, PTL
    <2> QED
      BY <1>1, <2>1, WorthTotals
  <1>3. AddsUp'
    BY ReceivedTotals, PTL
  <1>4. \A w : ReceivedBy(w)' = ReceivedBy(w)
    <2>1. \A w : PayingTo(w)' = PayingTo(w)
      BY <1>1 DEF PayingTo
    <2> QED
      BY <1>2, <1>3, <2>1, ReceivedTotals DEF AddsUp
  <1>5. \A k \in Credits : CreditState(k)' = CreditState(k)
    BY <1>1 DEF CreditState
  <1> QED
    BY <1>4, <1>5 DEF Promise!promiseVars

\* A transaction that is mined and pays, pays all of one claim that was reserved.
LEMMA MiningPays ==
    ASSUME PromiseInv, WorkerInv', IsFiniteSet(Credits), UNCHANGED <<claims, ledger, sent>>,
           NEW e \in MinedTxs, Receipts' = Receipts \cup {e}, e \notin Receipts,
           e.tx \in sent, Pays(e, e.tx.claim), IsFiniteSet(Receipts')
    PROVE  Promise!Next
  <1> DEFINE c == e.tx.claim
             K == claims[c].credits
             w == claims[c].wallet
  <1>1. /\ \A k \in Credits : CreditState(k) = StateOf(k)
        /\ \A k \in Credits : (CreditState(k) = StateOf(k))'
    <2>1. WorkerInv' => (\A k \in Credits : CreditState(k) = StateOf(k))'
      BY StateIs, PTL
    <2> QED
      BY <2>1, StateIs DEF PromiseInv
  <1>2. c \in Claims /\ claims[c].tx # NULL /\ claims[c].status # "absent"
    BY DEF PromiseInv, WorkerInv, Money, SentOK, RowsOK
  <1>3. e \in PaymentsOf(c)' /\ \A d \in Claims : PaymentsOf(d) \subseteq PaymentsOf(d)'
    BY DEF PaymentsOf, Pays
  <1>4. PaymentsOf(c) = {}
    <2>1. WorkerInv' => OnePaymentEach'
      BY PaidOnceEver, PTL
    <2>2. \A m \in PaymentsOf(c) : m = e
      BY <1>2, <1>3, <2>1 DEF OnePaymentEach
    <2> QED
      BY <2>2 DEF PaymentsOf
  <1>5. claims[c].status # "failed"
    <2>1. WorkerInv' => TerminalIsTruth'
      BY InvTruth, PTL
    <2> QED
      BY <1>2, <1>3, <2>1 DEF TerminalIsTruth
  <1>6. /\ K = {k \in Credits : ledger[k] = c} /\ K \in SUBSET Credits /\ K # {}
        /\ w \in Wallets /\ \A k \in K : Owner[k] = w
    BY <1>2, <1>5 DEF PromiseInv, WorkerInv, IInv, Safe, LedgerAgrees, Bundled
  <1>7. c # NULL /\ c # Absent
    BY <1>2, OutboxAssumption DEF Claims
  <1>8. \A k \in K : StateOf(k) = "reserved" /\ StateOf(k)' = "paid"
    BY <1>3, <1>4, <1>6, <1>7 DEF StateOf
  <1>9. \A k \in Credits \ K : StateOf(k)' = StateOf(k)
    <2>1. \A d : d # c => PaymentsOf(d)' = PaymentsOf(d)
      BY DEF PaymentsOf, Pays
    <2>2. \A k \in Credits \ K : ledger[k] # c
      BY <1>6
    <2> QED
      BY <2>1, <2>2 DEF StateOf
  <1>10. Promise!Move(K, "reserved", "paid")
    BY <1>1, <1>6, <1>8, <1>9 DEF Promise!Move
  <1>11. Paying' = Paying \cup {e} /\ e \notin Paying
    BY DEF Paying, Pays
  <1>12. (Worth = [m \in Paying |-> Total(Amount, claims[m.tx.claim].credits)])'
    BY WorthTotals, PTL
  <1>13. /\ \A m \in Paying : Worth'[m] = Worth[m] /\ Worth[m] \in Nat
         /\ Worth'[e] = Total(Amount, K) /\ Total(Amount, K) \in Nat
         /\ IsFiniteSet(Paying)
    BY <1>6, <1>11, <1>12, WorthTotals, WorthIs
  <1>14. AddsUp'
    BY ReceivedTotals, PTL
  <1>15. \A v : /\ PayingTo(v) \in SUBSET Paying /\ IsFiniteSet(PayingTo(v))
                /\ Total(Worth', PayingTo(v)) = Total(Worth, PayingTo(v))
    <2> TAKE v
    <2>1. PayingTo(v) \in SUBSET Paying
      BY DEF PayingTo
    <2>2. IsFiniteSet(PayingTo(v))
      BY <1>13, <2>1, FS_Subset
    <2>3. \A m \in PayingTo(v) : Worth'[m] = Worth[m]
      BY <1>13, <2>1
    <2> QED
      BY <2>1, <2>2, <2>3, TotalSame
  <1> PICK u \in Wallets : u = w
    BY <1>6
  <1>16. ASSUME NEW v, v # u PROVE ReceivedBy(v)' = ReceivedBy(v)
    <2>1. PayingTo(v)' = PayingTo(v)
      BY <1>11, <1>16 DEF PayingTo
    <2> QED
      BY <1>14, <1>15, <2>1, ReceivedTotals DEF AddsUp
  <1> DEFINE n == Total(Amount, K)
  <1>17. ReceivedBy(u)' = ReceivedBy(u) + n
    <2> DEFINE new == PayingTo(u) \cup {e}
    <2>1. PayingTo(u)' = new /\ new \ {e} = PayingTo(u)
      BY <1>11, <1>15 DEF PayingTo
    <2>2. IsFiniteSet(new)
      BY <1>15, FS_AddElement
    <2>3. Counts(Worth', new)
      BY <1>13, <1>15 DEF Counts
    <2>4. Total(Worth', PayingTo(u)) \in Nat
      <3>1. Counts(Worth', PayingTo(u))
        BY <2>3 DEF Counts
      <3> QED
        BY <1>15, <3>1, TotalType
    <2>5. Worth'[e] = n /\ n \in Nat /\ e \in new
      BY <1>13
    <2>6. ReceivedBy(u)' = Total(Worth', new)
      BY <1>14, <2>1 DEF AddsUp
    <2>7. ReceivedBy(u) = Total(Worth', PayingTo(u))
      BY <1>15, ReceivedTotals DEF AddsUp
    <2> HIDE DEF new, n
    <2>8. Total(Worth', new) = Worth'[e] + Total(Worth', new \ {e})
      BY <2>2, <2>3, <2>5, TotalWithout
    <2>9. Total(Worth', new) = n + Total(Worth', PayingTo(u))
      BY <2>1, <2>5, <2>8
    <2>10. ReceivedBy(u)' = n + ReceivedBy(u)
      BY <2>6, <2>7, <2>9
    <2>11. ReceivedBy(u) \in Nat
      BY <2>4, <2>7
    <2> QED
      BY <2>5, <2>10, <2>11
  <1> DEFINE rc == [v \in Wallets |-> ReceivedBy(v)]
  <1>18. rc' = [rc EXCEPT ![u] = rc[u] + n]
    <2> HIDE DEF n
    <2>1. rc[u] = ReceivedBy(u)
      OBVIOUS
    <2>2. rc' = [v \in Wallets |-> ReceivedBy(v)']
      OBVIOUS
    <2>3. \A v \in Wallets : ReceivedBy(v)' = IF v = u THEN ReceivedBy(u) + n ELSE ReceivedBy(v)
      BY <1>16, <1>17
    <2> QED
      BY <2>1, <2>2, <2>3
  <1>19. Total(Amount, K) = Promise!MapThenSumSet(LAMBDA k : Amount[k], K)
    BY DEF Total, MapThenSumSet, MapThenFoldSet, Promise!MapThenSumSet, Promise!MapThenFoldSet
  <1>20. Promise!Pay(K)
    BY <1>6, <1>10, <1>18, <1>19 DEF Promise!Pay
  <1>21. K \in Promise!Batches
    BY <1>6 DEF Promise!Batches
  <1> QED
    BY <1>20, <1>21 DEF Promise!Next

\* Only the chain mines, and what it does is nothing to the tables.
LEMMA OnlyTheChainMines ==
    ASSUME [Next]_vars
    PROVE  \/ UNCHANGED mined
           \/ \E t \in sent, ok \in BOOLEAN : Mine(t, ok)
           \/ \E s \in Signers : ForeignTx(s)
  <1>1. ASSUME NEW r \in Holders, RunStep(r) \/ Abort(r) \/ Crash(r)
        PROVE  UNCHANGED mined
    <2>1. CASE Start(r) \/ Snapshot(r) \/ CheckNonce(r) \/ Recheck(r) \/ ReadSwitch(r)
      BY <2>1 DEF Start, Snapshot, CheckNonce, Recheck, ReadSwitch, Read, chainVars
    <2>2. CASE Acquire(r) \/ ReconcileRow(r) \/ Broadcast(r) \/ ReleaseLease(r) \/ Abort(r) \/ Crash(r)
      BY <2>2 DEF Acquire, ReconcileRow, Broadcast, ReleaseLease, Abort, Crash, chainVars
    <2>3. CASE Settle(r) \/ Flag(r) \/ Mark(r) \/ Attempt(r)
      BY <2>3 DEF Settle, Flag, Mark, Attempt, Write, chainVars
    <2>4. CASE InitAccount(r) \/ Halt(r) \/ Assign(r) \/ Record(r)
      BY <2>4 DEF InitAccount, Halt, Assign, Record, Write, chainVars
    <2>5. CASE \/ Reconciled(r) \/ Sanity(r) \/ Sanity2(r) \/ QueueDone(r) \/ Preflight(r)
               \/ PreflightRefuses(r) \/ Poll(r)
      BY <2>5 DEF Reconciled, Sanity, Sanity2, QueueDone, Preflight, PreflightRefuses, Poll,
                  Read, chainVars
    <2> QED
      BY <1>1, <2>1, <2>2, <2>3, <2>4, <2>5 DEF RunStep
  <1>2. LeaseRunsOut \/ UNCHANGED vars => UNCHANGED mined
    BY DEF LeaseRunsOut, vars, chainVars
  <1>3. ASSUME WorldNext
        PROVE  UNCHANGED mined \/ \E s \in Signers : ForeignTx(s)
    <2>1. ASSUME NEW c \in Claims, \/ \E kind \in Kinds, s \in Signers : SendOverride(c, kind, s)
                                   \/ RecordOverride(c) \/ Rule(c)
          PROVE  UNCHANGED mined
      BY <2>1 DEF SendOverride, RecordOverride, Rule, Operates, chainVars
    <2>2. ASSUME NEW s \in Signers, Align(s) \/ Resume(s) \/ RotateKey(s)
          PROVE  UNCHANGED mined
      BY <2>2 DEF Align, Resume, RotateKey, Operates, chainVars
    <2> QED
      BY <1>3, <2>1, <2>2 DEF WorldNext, Operates, chainVars
  <1> QED
    BY <1>1, <1>2, <1>3 DEF Next, WorkerNext, ChainNext

LEMMA ChainKeepsPromise ==
    ASSUME PromiseInv, WorkerInv', IsFiniteSet(Credits),
           \/ \E t \in sent, ok \in BOOLEAN : Mine(t, ok)
           \/ \E s \in Signers : ForeignTx(s)
    PROVE  [Promise!Next]_(Promise!promiseVars) /\ IsFiniteSet(Receipts')
  <1>1. ChainOK
    BY DEF PromiseInv, WorkerInv, Money
  <1>2. ASSUME NEW t \in sent, NEW ok \in BOOLEAN, Mine(t, ok)
        PROVE  [Promise!Next]_(Promise!promiseVars) /\ IsFiniteSet(Receipts')
    <2> DEFINE e == [tx |-> t, ok |-> ok]
    <2>1. t \in Txs /\ t.from \in Signers
      BY DEF PromiseInv, WorkerInv, Money, SentOK, Txs
    <2>2. e \in MinedTxs /\ e.tx = t
      BY <2>1 DEF MinedTxs
    <2>3. /\ mined' = [mined EXCEPT ![t.from] = Append(mined[t.from], e)]
          /\ t.nonce = LatestNonce(t.from)
          /\ UNCHANGED <<claims, ledger, sent>>
      BY <1>2 DEF Mine, outboxVars
    <2> HIDE DEF e
    <2>4. Receipts' = Receipts \cup {e}
      BY <1>1, <2>1, <2>2, <2>3, ReceiptsMined
    <2>5. e \notin Receipts
      <3>1. ASSUME e \in Receipts PROVE FALSE
        <4>1. e.tx.nonce \in Nat /\ e.tx.nonce < LatestNonce(e.tx.from)
          BY <1>1, <3>1, ReceiptFacts
        <4> QED
          BY <2>2, <2>3, <4>1
      <3> QED
        BY <3>1
    <2>6. IsFiniteSet(Receipts')
      BY <2>4, FS_AddElement DEF PromiseInv
    <2>7. CASE Pays(e, e.tx.claim)
      BY <2>2, <2>3, <2>4, <2>5, <2>6, <2>7, MiningPays
    <2>8. CASE ~Pays(e, e.tx.claim)
      <3>1. UNCHANGED <<claims, ledger>>
        BY <2>3
      <3> QED
        BY <2>4, <2>6, <2>8, <3>1, IdleMining
    <2> QED
      BY <2>6, <2>7, <2>8
  <1>3. ASSUME NEW s \in Signers, ForeignTx(s)
        PROVE  [Promise!Next]_(Promise!promiseVars) /\ IsFiniteSet(Receipts')
    <2> DEFINE n == Len(mined[s])
               t == [from |-> s, nonce |-> n, kind |-> "foreign", claim |-> NULL,
                     fee |-> NULL]
               e == [tx |-> t, ok |-> TRUE]
    <2>1. n \in Nat
      BY LatestType DEF LatestNonce, PromiseInv, WorkerInv
    <2>2. /\ mined' = [mined EXCEPT ![s] = Append(mined[s], e)]
          /\ UNCHANGED <<claims, ledger, sent>>
      BY <1>3 DEF ForeignTx, outboxVars
    <2>3. e \in MinedTxs /\ e.tx.kind = "foreign"
      <3> HIDE DEF n
      <3> QED
        BY <2>1 DEF MinedTxs, Txs
    <2> HIDE DEF e
    <2>4. Receipts' = Receipts \cup {e}
      BY <1>1, <2>2, <2>3, ReceiptsMined
    <2>5. IsFiniteSet(Receipts')
      BY <2>4, FS_AddElement DEF PromiseInv
    <2>6. ~Pays(e, e.tx.claim)
      BY <2>3 DEF Pays
    <2> QED
      BY <2>2, <2>4, <2>5, <2>6, IdleMining
  <1> QED
    BY <1>2, <1>3

LEMMA NextKeepsPromise ==
    ASSUME AnyHash, IsFiniteSet(Credits), PromiseInv, [Next]_vars
    PROVE  PromiseInv' /\ [Promise!Next]_(Promise!promiseVars)
  <1>1. WorkerInv' /\ [OutboxStep(Nat)]_outboxVars
    BY NextUpheld DEF PromiseInv
  <1>2. Bundled'
    BY <1>1, BundledKept DEF PromiseInv, WorkerInv, IInv
  <1>3. CASE UNCHANGED mined
    <2>1. IsFiniteSet(Receipts')
      BY <1>3 DEF PromiseInv, Receipts
    <2> QED
      BY <1>1, <1>2, <1>3, <2>1, OutboxKeepsPromise DEF PromiseInv
  <1>4. CASE \/ \E t \in sent, ok \in BOOLEAN : Mine(t, ok)
             \/ \E s \in Signers : ForeignTx(s)
    BY <1>1, <1>2, <1>4, ChainKeepsPromise DEF PromiseInv
  <1> QED
    BY <1>3, <1>4, OnlyTheChainMines

LEMMA InitKeepsPromise ==
    ASSUME WorkerInit
    PROVE  PromiseInv /\ Promise!Init
  <1>1. WorkerInv
    BY InitUpheld
  <1>2. Receipts = {}
    <2>1. \A s \in Signers : Len(mined[s]) = 0
      BY EmptySeq DEF WorkerInit
    <2>2. \A m : m \notin Receipts
      BY <2>1, ReceiptAt
    <2> QED
      BY <2>2
  <1>3. Bundled
    BY DEF WorkerInit, OutboxInit, NoRow, Bundled
  <1>4. Paying = {}
    BY <1>2 DEF Paying
  <1>5. \A w : ReceivedBy(w) = 0
    <2>1. \A w : PayingTo(w) = {}
      BY <1>4 DEF PayingTo
    <2> QED
      BY <2>1, ReceivedTotals, TotalEmpty DEF AddsUp
  <1>6. \A k \in Credits : CreditState(k) = "none"
    BY <1>4, OutboxAssumption DEF CreditState, WorkerInit, OutboxInit
  <1> QED
    BY <1>1, <1>2, <1>3, <1>5, <1>6, FS_EmptySet DEF PromiseInv, Promise!Init

-----------------------------------------------------------------------------
(* Theorems                                                                *)

\* The pipeline never leaves its invariant: any number of overlapping runs,
\* each killed, suspended or left without an answer at any step, the chain
\* mining what it was sent at any later time, and an operator who overrides,
\* rules, cancels, aligns, resumes and rotates the key by hand.
THEOREM PayoutInvariance == AnyHash => (Spec => []WorkerInv)
  <1> SUFFICES ASSUME AnyHash PROVE Spec => []WorkerInv
    OBVIOUS
  <1>1. WorkerInit => WorkerInv
    BY InitUpheld
  <1>2. WorkerInv /\ [Next]_vars => WorkerInv'
    BY NextUpheld
  <1> QED
    BY <1>1, <1>2, PTL DEF Spec

\* The pipeline implements the outbox as the functions of the database let
\* anyone call it: each of its steps is one of theirs, or leaves the tables
\* alone.
THEOREM UsesTheOutbox ==
    AnyHash => (Spec => OutboxInit /\ [][OutboxStep(Nat)]_outboxVars)
  <1> SUFFICES ASSUME AnyHash
               PROVE  Spec => OutboxInit /\ [][OutboxStep(Nat)]_outboxVars
    OBVIOUS
  <1>1. WorkerInit => WorkerInv /\ OutboxInit
    BY InitUpheld DEF WorkerInit
  <1>2. WorkerInv /\ [Next]_vars => WorkerInv' /\ [OutboxStep(Nat)]_outboxVars
    BY NextUpheld
  <1> QED
    BY <1>1, <1>2, PTL DEF Spec

\* No credit is ever paid twice, over every claim it was ever part of.
THEOREM PaidOnce == AnyHash => (Spec => []PaidAtMostOnce)
  BY PayoutInvariance, InvPaidOnce, PTL

\* A confirmed claim was paid; a failed one was not, and no bytes are left
\* anywhere that could still pay it.
THEOREM EndsAreTrue == AnyHash => (Spec => []TerminalIsTruth)
  BY PayoutInvariance, InvTruth, PTL

\* No node ever sees a transfer that is not the persisted one of its claim,
\* though a claim may be signed many times, at other fees and by several runs
\* at once, and each run sends the bytes it has in memory: a run only gets to
\* send when its own bytes are the ones the row took.
THEOREM BytesArePersisted == AnyHash => (Spec => []OnlyPersistedBytes)
  BY PayoutInvariance, InvPersisted, PTL

\* The pipeline keeps its promise to every viewer: a credit won is owed, is set
\* aside whole with others of its wallet, and comes back whole or is paid, once;
\* and a wallet is paid exactly what its paid credits amount to
\* (docs/CONTRACTS-PREDICTIONS.md 10.1, as CreditPromise states it).
THEOREM PromiseIsKept ==
    AnyHash /\ IsFiniteSet(Credits) => (Spec => KeepsPromise)
  <1> SUFFICES ASSUME AnyHash, IsFiniteSet(Credits) PROVE Spec => KeepsPromise
    OBVIOUS
  <1>1. WorkerInit => PromiseInv /\ Promise!Init
    BY InitKeepsPromise
  <1>2. PromiseInv /\ [Next]_vars => PromiseInv' /\ [Promise!Next]_(Promise!promiseVars)
    BY NextKeepsPromise
  <1> QED
    BY <1>1, <1>2, PTL DEF Spec, KeepsPromise, Promise!PromiseSpec

-----------------------------------------------------------------------------
(* What the promise comes to                                               *)

PaidTo(w) == {k \in Credits : CreditState(k) = "paid" /\ Owner[k] = w}

\* What the chain has paid a wallet is what its paid credits amount to.
PaidInFull == \A w \in Wallets : ReceivedBy(w) = Total(Amount, PaidTo(w))

\* A credit that is paid stays paid, and one that exists goes on existing.
PaidForGood ==
    \A k \in Credits :
        /\ CreditState(k) = "paid" => CreditState(k)' = "paid"
        /\ CreditState(k) # "none" => CreditState(k)' # "none"

\* A move of credits between states other than paid pays nobody.
LEMMA UnpaidMoves ==
    ASSUME NEW K \in SUBSET Credits, NEW from, NEW to, from # "paid", to \notin {"paid", "none"},
           Promise!Move(K, from, to), \A w \in Wallets : ReceivedBy(w)' = ReceivedBy(w), PaidInFull
    PROVE  PaidInFull' /\ PaidForGood
  <1>1. \A k \in Credits :
           /\ k \in K => CreditState(k) = from /\ CreditState(k)' = to
           /\ k \notin K => CreditState(k)' = CreditState(k)
    <2>1. /\ \A k \in K : [j \in Credits |-> CreditState(j)][k] = from
          /\ [k \in Credits |-> CreditState(k)']
                = [k \in Credits |-> IF k \in K THEN to ELSE [j \in Credits |-> CreditState(j)][k]]
      BY DEF Promise!Move
    <2> QED
      BY <2>1
  <1>2. \A w : PaidTo(w)' = PaidTo(w)
    BY <1>1 DEF PaidTo
  <1>3. PaidInFull'
    BY <1>2 DEF PaidInFull
  <1>4. PaidForGood
    BY <1>1 DEF PaidForGood
  <1> QED
    BY <1>3, <1>4

\* A transfer pays the credits it carries, all of one wallet.
LEMMA PayAddsUp ==
    ASSUME IsFiniteSet(Credits), NEW K \in SUBSET Credits, Promise!Pay(K), PaidInFull
    PROVE  PaidInFull' /\ PaidForGood
  <1> DEFINE rc == [w \in Wallets |-> ReceivedBy(w)]
             sum == Promise!MapThenSumSet(LAMBDA k : Amount[k], K)
  <1>1. /\ \A k \in K : [j \in Credits |-> CreditState(j)][k] = "reserved"
        /\ [k \in Credits |-> CreditState(k)']
              = [k \in Credits |-> IF k \in K THEN "paid" ELSE [j \in Credits |-> CreditState(j)][k]]
    BY DEF Promise!Pay, Promise!Move
  <1>2. \A k \in Credits :
           /\ k \in K => CreditState(k) = "reserved" /\ CreditState(k)' = "paid"
           /\ k \notin K => CreditState(k)' = CreditState(k)
    BY <1>1
  <1>3. PICK u \in Wallets :
           /\ \A k \in K : Owner[k] = u
           /\ [w \in Wallets |-> ReceivedBy(w)'] = [rc EXCEPT ![u] = rc[u] + sum]
    BY DEF Promise!Pay
  <1>4. sum = Total(Amount, K)
    BY DEF Total, MapThenSumSet, MapThenFoldSet, Promise!MapThenSumSet, Promise!MapThenFoldSet
  <1> HIDE DEF sum
  <1>5. /\ ReceivedBy(u)' = ReceivedBy(u) + Total(Amount, K)
        /\ \A w \in Wallets \ {u} : ReceivedBy(w)' = ReceivedBy(w)
    BY <1>3, <1>4
  <1>6. /\ PaidTo(u)' = PaidTo(u) \cup K /\ PaidTo(u) \cap K = {}
        /\ \A w \in Wallets \ {u} : PaidTo(w)' = PaidTo(w)
    BY <1>2, <1>3 DEF PaidTo
  <1>7. Total(Amount, PaidTo(u) \cup K) = Total(Amount, PaidTo(u)) + Total(Amount, K)
    <2>1. PaidTo(u) \in SUBSET Credits
      BY DEF PaidTo
    <2>2. IsFiniteSet(PaidTo(u)) /\ IsFiniteSet(K)
      BY <2>1, FS_Subset
    <2>3. Counts(Amount, PaidTo(u) \cup K)
      BY <2>1, OutboxAssumption DEF Counts
    <2> QED
      BY <1>6, <2>2, <2>3, TotalJoined
  <1>8. PaidInFull'
    BY <1>5, <1>6, <1>7 DEF PaidInFull
  <1>9. PaidForGood
    BY <1>2 DEF PaidForGood
  <1> QED
    BY <1>8, <1>9

LEMMA PromiseStepsAddUp ==
    ASSUME IsFiniteSet(Credits), PaidInFull, [Promise!Next]_(Promise!promiseVars)
    PROVE  PaidInFull' /\ PaidForGood
  <1>1. ASSUME UNCHANGED (Promise!promiseVars) PROVE PaidInFull' /\ PaidForGood
    <2>1. /\ [w \in Wallets |-> ReceivedBy(w)'] = [w \in Wallets |-> ReceivedBy(w)]
          /\ [k \in Credits |-> CreditState(k)'] = [k \in Credits |-> CreditState(k)]
      BY <1>1 DEF Promise!promiseVars
    <2>2. /\ \A w \in Wallets : ReceivedBy(w)' = ReceivedBy(w)
          /\ \A k \in Credits : CreditState(k)' = CreditState(k)
      BY <2>1
    <2>3. \A w : PaidTo(w)' = PaidTo(w)
      BY <2>2 DEF PaidTo
    <2> QED
      BY <2>2, <2>3 DEF PaidInFull, PaidForGood
  <1>2. ASSUME UNCHANGED [w \in Wallets |-> ReceivedBy(w)]
        PROVE  \A w \in Wallets : ReceivedBy(w)' = ReceivedBy(w)
    <2>1. [w \in Wallets |-> ReceivedBy(w)'] = [w \in Wallets |-> ReceivedBy(w)]
      BY <1>2
    <2> QED
      BY <2>1
  <1>3. ASSUME NEW k \in Credits, Promise!Win(k) PROVE PaidInFull' /\ PaidForGood
    <2>1. {k} \in SUBSET Credits /\ Promise!Move({k}, "none", "owed")
      BY <1>3 DEF Promise!Win
    <2>2. \A w \in Wallets : ReceivedBy(w)' = ReceivedBy(w)
      BY <1>2, <1>3 DEF Promise!Win
    <2> QED
      BY <2>1, <2>2, UnpaidMoves
  <1>4. ASSUME NEW K \in Promise!Batches,
               Promise!Reserve(K) \/ Promise!GiveBack(K) \/ Promise!Pay(K)
        PROVE  PaidInFull' /\ PaidForGood
    <2>1. K \in SUBSET Credits
      BY DEF Promise!Batches
    <2>2. ASSUME Promise!Reserve(K) \/ Promise!GiveBack(K)
          PROVE  PaidInFull' /\ PaidForGood
      <3>1. \/ Promise!Move(K, "owed", "reserved")
            \/ Promise!Move(K, "reserved", "owed")
        BY <2>2 DEF Promise!Reserve, Promise!GiveBack
      <3>2. \A w \in Wallets : ReceivedBy(w)' = ReceivedBy(w)
        BY <1>2, <2>2 DEF Promise!Reserve, Promise!GiveBack
      <3> QED
        BY <2>1, <3>1, <3>2, UnpaidMoves
    <2> QED
      BY <1>4, <2>1, <2>2, PayAddsUp
  <1> QED
    BY <1>1, <1>3, <1>4 DEF Promise!Next

\* In the end it is the money that counts: at every moment each wallet has received on the
\* chain exactly what its paid credits amount to, through any number of crashes, retries,
\* reverted transfers and overrides, and what was paid, or won, is never taken back.
THEOREM ViewersArePaidInFull ==
    AnyHash /\ IsFiniteSet(Credits) => (Spec => []PaidInFull /\ [][PaidForGood]_vars)
  <1> SUFFICES ASSUME AnyHash, IsFiniteSet(Credits)
               PROVE  Spec => []PaidInFull /\ [][PaidForGood]_vars
    OBVIOUS
  <1>1. WorkerInit => PromiseInv /\ PaidInFull
    <2> SUFFICES ASSUME WorkerInit PROVE PromiseInv /\ PaidInFull
      OBVIOUS
    <2>1. PromiseInv /\ Promise!Init
      BY InitKeepsPromise
    <2>2. /\ [k \in Credits |-> CreditState(k)] = [k \in Credits |-> "none"]
          /\ [w \in Wallets |-> ReceivedBy(w)] = [w \in Wallets |-> 0]
      BY <2>1 DEF Promise!Init
    <2>3. /\ \A k \in Credits : CreditState(k) = "none"
          /\ \A w \in Wallets : ReceivedBy(w) = 0
      BY <2>2
    <2>4. \A w : PaidTo(w) = {}
      BY <2>3 DEF PaidTo
    <2> QED
      BY <2>1, <2>3, <2>4, TotalEmpty DEF PaidInFull
  <1>2. PromiseInv /\ PaidInFull /\ [Next]_vars
           => PromiseInv' /\ PaidInFull' /\ PaidForGood
    BY NextKeepsPromise, PromiseStepsAddUp
  <1> QED
    BY <1>1, <1>2, PTL DEF Spec

-----------------------------------------------------------------------------
(* Signed nonces stay spent: what the lease is worth                       *)

\* No nonce is held by two claims, whoever signed for them.
NoncesDiffer ==
    \A c, d \in Claims :
        c # d /\ claims[c].nonce # NULL => claims[d].nonce # claims[c].nonce

BeforeReading == {"idle", "acquire", "snapshot", "release"}
PayPhases == {"pay", "assign", "record"}

\* The queue as run m read it: claims that exist, each once, and at most the
\* first with a nonce, which the second look has found next to m.next.
QueueFits(m, rows) ==
    /\ m.pc \in BeforeReading => m.todo = <<>> /\ m.queue = <<>>
    /\ \A i \in 1 .. Len(m.queue) :
          /\ rows[m.queue[i].claim].status # "absent"
          /\ i # 1 => m.queue[i].nonce = NULL
          /\ \A j \in 1 .. Len(m.queue) : m.queue[i].claim = m.queue[j].claim => i = j
          /\ m.pc = "sanity2" /\ m.queue[i].nonce # NULL => m.queue[i].nonce = m.next - 1
    /\ m.pc \in {"sanity", "sanity2"} => m.next \in Nat

\* The i-th claim of the queue, if it still waits, is as m read it, and what m
\* read of its account is so; from the nonce check on the account is past it.
EntryFits(m, i, rows, next) ==
    LET c == m.queue[i].claim IN
    rows[c].status = "queued" =>
        /\ i # 1 \/ m.pc # "record" => rows[c].nonce = m.queue[i].nonce
        /\ rows[c].nonce # NULL =>
              IF m.pc \in PayPhases
              THEN next[m.key] # NULL /\ rows[c].nonce < next[m.key]
              ELSE m.halted \/ next[m.key] = m.next

\* What holds of a run that reads and writes while its lease is its own.
Tenure(m, rows, next, stop) ==
    /\ m.pc \notin BeforeReading /\ ~m.halted => ~stop[m.key]
    /\ m.pc \notin BeforeReading \cup {"reconcile"} /\ m.todo = <<>> => ~m.halted
    /\ \A i \in 1 .. Len(m.queue) : EntryFits(m, i, rows, next)

Fenced ==
    \A r \in Holders :
        /\ QueueFits(run[r], claims)
        /\ LeaseHeld(r) => Tenure(run[r], claims, nextNonce, halted)

SpentInv == WorkerInv /\ NoncesDiffer /\ SignedNoncesSpent /\ Fenced

\* What waits goes on waiting with the nonce it had, or none; and the accounts
\* that sign stay where they are, as long as a claim waits with one.
Calm ==
    \A c \in Claims : claims'[c].status = "queued" /\ claims[c].status # "absent" =>
        /\ claims[c].status = "queued" /\ claims'[c].nonce = claims[c].nonce
        /\ claims[c].nonce # NULL =>
              \A s \in Signers : ~halted[s] => nextNonce'[s] = nextNonce[s]

NoneHalts == \A s \in Signers : halted'[s] => halted[s]
NoneVanishes == \A c \in Claims : claims[c].status # "absent" => claims'[c].status # "absent"
NoneSigned == \A c \in Claims : claims'[c].tx = claims[c].tx

\* A step that leaves claims and accounts alone is calm.
LEMMA QuietCalm ==
    ASSUME UNCHANGED <<claims, nextNonce, halted>>
    PROVE  Calm /\ NoneHalts /\ NoneSigned
  BY DEF Calm, NoneHalts, NoneSigned

\* No claim is ever deleted.
LEMMA NoneGoes ==
    ASSUME WorkerInv, [OutboxStep(Nat)]_outboxVars
    PROVE  NoneVanishes
  <1>1. OutboxTypeOK
    BY DEF WorkerInv, IInv
  <1>2. ASSUME NEW w \in Wallets, CreateRewardClaim(w)
        PROVE  NoneVanishes
    BY <1>1, <1>2 DEF CreateRewardClaim, NextRow, NoRow, NoneVanishes, OutboxTypeOK, ClaimRow
  <1>3. ASSUME NEW k \in Credits, InsertCredit(k)
        PROVE  NoneVanishes
    BY <1>3 DEF InsertCredit, NoneVanishes
  <1>4. SameClaims => NoneVanishes
    BY DEF SameClaims, NoneVanishes
  <1> QED
    BY <1>1, <1>2, <1>3, <1>4, StepKinds DEF GivesBack

\* A claim that moves and keeps what it had signed.
LEMMA UpdateCalm ==
    ASSUME IInv, NEW c \in Claims, NEW row, Update(c, row), row.tx = claims[c].tx,
           row.status = "queued" => claims[c].status = "queued" /\ row.nonce = claims[c].nonce
    PROVE  /\ NoneSigned
           /\ nextNonce' = nextNonce => Calm
  BY DEF IInv, OutboxTypeOK, Update, NoneSigned, Calm

\* Only the slot's holder hands a nonce back, and then waits no more.
LEMMA CancelCalm ==
    ASSUME IInv, NEW c \in Claims, CancelOk(c), CancelBody(c)
    PROVE  Calm /\ NoneSigned
  <1> DEFINE row == [claims[c] EXCEPT !.status = "failed",
                                      !.proof = "never_signed", !.nonce = NULL]
  <1>1. claims \in [Claims -> ClaimRow]
    BY DEF IInv, OutboxTypeOK
  <1>2. /\ row \in ClaimRow /\ row.status = "failed" /\ row.tx = claims[c].tx
    BY <1>1 DEF ClaimRow, Statuses, Terminal, Proofs
  <1>3. Update(c, row)
    BY DEF CancelBody
  <1> HIDE DEF row
  <1>4. claims' = [claims EXCEPT ![c] = row]
    BY <1>3 DEF Update
  <1>5. NoneSigned
    BY <1>1, <1>2, <1>4 DEF NoneSigned
  <1>6. ASSUME NEW d \in Claims, claims'[d].status = "queued"
        PROVE  d # c /\ claims'[d] = claims[d]
    BY <1>1, <1>2, <1>4, <1>6
  <1>7. ASSUME NEW d \in Claims, d # c, claims[d].status = "queued", claims[d].nonce # NULL
        PROVE  nextNonce' = nextNonce
    <2>1. OneSlot /\ claims[c].status = "queued" /\ HoldsSlot(d)
      BY <1>7 DEF IInv, Safe, HoldsSlot, CancelOk
    <2>2. claims[c].nonce = NULL
      BY <1>7, <2>1 DEF OneSlot, HoldsSlot
    <2> QED
      BY <2>2 DEF CancelBody
  <1> QED
    BY <1>5, <1>6, <1>7 DEF Calm

\* A new claim waits with no nonce, and signs nothing.
LEMMA CreateCalm ==
    ASSUME IInv, Money, NEW w \in Wallets, CreateRewardClaim(w)
    PROVE  Calm /\ NoneSigned /\ NoneHalts
  <1> DEFINE take == Prefix(w)
             row == [NoRow EXCEPT !.status = "queued", !.wallet = w, !.credits = take]
  <1>1. PICK c \in Claims : NextRow(c) /\ claims' = [claims EXCEPT ![c] = row]
    BY DEF CreateRewardClaim
  <1>2. row.tx = NULL
    BY DEF NoRow
  <1>3. claims \in [Claims -> ClaimRow] /\ claims[c].status = "absent" /\ claims[c].tx = NULL
    BY <1>1 DEF IInv, OutboxTypeOK, NextRow, Money, RowsOK
  <1>4. UNCHANGED <<nextNonce, halted>>
    BY DEF CreateRewardClaim, treasury
  <1> HIDE DEF row
  <1> QED
    BY <1>1, <1>2, <1>3, <1>4 DEF Calm, NoneSigned, NoneHalts

\* The calls that follow a signed claim to its end.
LEMMA FollowCalm ==
    ASSUME IInv, NEW c \in Claims, NEW r \in Holders, NEW t, NEW p \in Proofs,
           \/ MarkClaimBroadcast(r, c) \/ RecordClaimAttempt(r, c)
           \/ ConfirmClaim(r, c, t) \/ FailClaim(r, c, p, t)
    PROVE  Calm /\ NoneHalts /\ NoneSigned /\ UNCHANGED <<nextNonce, halted, lease>>
  <1>1. claims[c] \in ClaimRow
    BY RowType
  <1>2. UNCHANGED <<nextNonce, halted, lease>>
    BY DEF MarkClaimBroadcast, RecordClaimAttempt, ConfirmClaim, FailClaim, treasury
  <1>3. \E row : /\ Update(c, row) /\ row.tx = claims[c].tx
                 /\ row.status = "queued" => row = claims[c]
    <2>1. CASE MarkClaimBroadcast(r, c)
      BY <1>1, <2>1 DEF MarkClaimBroadcast, ClaimRow
    <2>2. CASE RecordClaimAttempt(r, c)
      BY <2>2 DEF RecordClaimAttempt
    <2>3. CASE ConfirmClaim(r, c, t)
      BY <1>1, <2>3 DEF ConfirmClaim, ClaimRow
    <2>4. CASE FailClaim(r, c, p, t)
      <3> DEFINE row == [claims[c] EXCEPT !.status = "failed", !.proof = p]
      <3>1. row.tx = claims[c].tx /\ row.status = "failed"
        BY <1>1 DEF ClaimRow
      <3>2. Update(c, row)
        BY <2>4 DEF FailClaim
      <3> HIDE DEF row
      <3> QED
        BY <3>1, <3>2
    <2> QED
      BY <2>1, <2>2, <2>3, <2>4
  <1> QED
    BY <1>2, <1>3, UpdateCalm DEF NoneHalts

\* Flagging halts an account; it moves no nonce.
LEMMA FlagCalm ==
    ASSUME IInv, NEW c \in Claims, NEW r \in Holders, FlagClaimReview(r, c)
    PROVE  Calm /\ NoneSigned /\ UNCHANGED <<nextNonce, lease>>
  <1>1. claims[c] \in ClaimRow
    BY RowType
  <1> DEFINE row == [claims[c] EXCEPT !.status = "needs_review"]
  <1>2. Update(c, row) /\ row.tx = claims[c].tx /\ row.status # "queued"
    BY <1>1 DEF FlagClaimReview, ClaimRow
  <1>3. UNCHANGED <<nextNonce, lease>>
    BY DEF FlagClaimReview
  <1> HIDE DEF row
  <1> QED
    BY <1>2, <1>3, UpdateCalm

\* Nothing a person or the chain does disturbs a run that holds the lease.
LEMMA WorldCalm ==
    ASSUME WorkerInv, WorldNext
    PROVE  Calm /\ NoneHalts /\ NoneSigned /\ UNCHANGED <<run, lease>>
  <1>0. IInv /\ Money
    BY DEF WorkerInv
  <1>1. ASSUME NEW w \in Wallets, Operates(CreateRewardClaim(w))
        PROVE  Calm /\ NoneHalts /\ NoneSigned /\ UNCHANGED <<run, lease>>
    BY <1>0, <1>1, CreateCalm DEF Operates, CreateRewardClaim
  <1>2. ASSUME \/ \E k \in Credits : Operates(InsertCredit(k))
               \/ Operates(SetPayouts(~payouts))
               \/ \E w \in Wallets : Operates(SetBlocked(blocked \cup {w}))
               \/ \E c \in Claims, kind \in Kinds, s \in Signers : SendOverride(c, kind, s)
               \/ \E s \in Signers : RotateKey(s) \/ ForeignTx(s)
        PROVE  Calm /\ NoneHalts /\ NoneSigned /\ UNCHANGED <<run, lease>>
    <2>1. UNCHANGED <<claims, nextNonce, halted, run, lease>>
      BY <1>2 DEF Operates, InsertCredit, SetPayouts, SetBlocked, SendOverride, RotateKey,
                  ForeignTx, treasury, outboxVars
    <2> QED
      BY <2>1, QuietCalm
  <1>3. ASSUME NEW c \in Claims, RecordOverride(c) \/ Rule(c)
        PROVE  Calm /\ NoneHalts /\ NoneSigned /\ UNCHANGED <<run, lease>>
    <2>1. claims[c] \in ClaimRow
      BY <1>0, RowType
    <2>2. UNCHANGED <<nextNonce, halted, run, lease>>
      BY <1>3 DEF RecordOverride, Rule, Operates, RecordClaimOverride, ResolveConfirmed,
                  ResolveFailed, treasury
    <2>3. ASSUME NEW t, RecordClaimOverride(c, t, t.kind)
          PROVE  \E row : Update(c, row) /\ row.tx = claims[c].tx /\ row.status # "queued"
      <3> DEFINE row == [claims[c] EXCEPT !.override = t, !.kind = t.kind]
      <3>1. row.tx = claims[c].tx /\ row.status = claims[c].status
        BY <2>1 DEF ClaimRow
      <3>2. Update(c, row) /\ claims[c].status # "queued"
        BY <2>3 DEF RecordClaimOverride, InFlight
      <3> HIDE DEF row
      <3> QED
        BY <3>1, <3>2
    <2>4. ASSUME NEW t, ResolveConfirmed(c, t)
          PROVE  \E row : Update(c, row) /\ row.tx = claims[c].tx /\ row.status # "queued"
      BY <2>1, <2>4 DEF ResolveConfirmed, ClaimRow
    <2>5. ASSUME ResolveFailed(c)
          PROVE  \E row : Update(c, row) /\ row.tx = claims[c].tx /\ row.status # "queued"
      <3> DEFINE row == [claims[c] EXCEPT !.status = "failed", !.proof = "operator_review"]
      <3>1. row.tx = claims[c].tx /\ row.status = "failed"
        BY <2>1 DEF ClaimRow
      <3>2. Update(c, row)
        BY <2>5 DEF ResolveFailed
      <3> HIDE DEF row
      <3> QED
        BY <3>1, <3>2
    <2>6. \E row : Update(c, row) /\ row.tx = claims[c].tx /\ row.status # "queued"
      BY <1>3, <2>3, <2>4, <2>5 DEF RecordOverride, Rule, Operates
    <2> QED
      BY <1>0, <2>2, <2>6, UpdateCalm DEF NoneHalts
  <1>4. ASSUME NEW c \in Claims, Operates(CancelQueuedClaim(c))
        PROVE  Calm /\ NoneHalts /\ NoneSigned /\ UNCHANGED <<run, lease>>
    <2>1. CancelOk(c) /\ CancelBody(c) /\ UNCHANGED <<halted, run, lease>>
      BY <1>4 DEF Operates, CancelQueuedClaim
    <2> QED
      BY <1>0, <2>1, CancelCalm DEF NoneHalts
  <1>5. ASSUME NEW s \in Signers, Align(s) \/ Resume(s)
        PROVE  Calm /\ NoneHalts /\ NoneSigned /\ UNCHANGED <<run, lease>>
    <2>1. nextNonce \in [Signers -> Nat \cup {NULL}] /\ halted \in [Signers -> BOOLEAN]
      BY <1>0 DEF IInv, OutboxTypeOK
    <2>2. CASE Align(s)
      BY <2>1, <2>2 DEF Align, Operates, AlignNonce, Calm, NoneHalts, NoneSigned
    <2>3. CASE Resume(s)
      BY <2>1, <2>3 DEF Resume, Operates, ResumePayouts, Calm, NoneHalts, NoneSigned
    <2> QED
      BY <1>5, <2>2, <2>3
  <1> QED
    BY <1>1, <1>2, <1>3, <1>4, <1>5 DEF WorldNext, Blockable

\* While one run holds the lease, the others only read.
LEMMA OthersRead ==
    ASSUME NEW r \in Holders, NEW q \in Holders, q # r, LeaseHeld(q)',
           RunStep(r) \/ Abort(r) \/ Crash(r)
    PROVE  LeaseHeld(q) /\ UNCHANGED <<claims, nextNonce, halted>>
  <1>0. NULL \notin Holders
    BY OutboxAssumption
  <1>1. ~LeaseHeld(r)'
    BY DEF LeaseHeld
  <1>2. ASSUME UNCHANGED outboxVars
        PROVE  LeaseHeld(q) /\ UNCHANGED <<claims, nextNonce, halted>>
    BY <1>2 DEF LeaseHeld, outboxVars
  <1>3. CASE ReleaseLease(r)
    BY <1>0, <1>3 DEF ReleaseLease, ReleasePayoutLease, LeaseHeld, Free, treasury
  <1>4. CASE Acquire(r)
    BY <1>1, <1>2, <1>4 DEF Acquire, AcquirePayoutLease, LeaseHeld, outboxVars
  <1>5. CASE \/ Start(r) \/ Snapshot(r) \/ ReconcileRow(r) \/ CheckNonce(r) \/ Recheck(r)
             \/ ReadSwitch(r) \/ Broadcast(r) \/ Reconciled(r) \/ Sanity(r) \/ Sanity2(r)
             \/ QueueDone(r) \/ Preflight(r) \/ PreflightRefuses(r) \/ Poll(r)
             \/ Abort(r) \/ Crash(r)
    BY <1>2, <1>5
    DEF Start, Snapshot, ReconcileRow, CheckNonce, Recheck, ReadSwitch, Broadcast, Reconciled,
        Sanity, Sanity2, QueueDone, Preflight, PreflightRefuses, Poll, Abort, Crash, Read
  <1>6. CASE Settle(r) \/ Flag(r) \/ Mark(r) \/ Attempt(r)
    <2>1. UNCHANGED outboxVars \/ (LeaseHeld(r) /\ UNCHANGED lease)
      BY <1>6
      DEF Settle, Flag, Mark, Attempt, Write, ConfirmClaim, ConfirmOk, FailClaim, FailOk,
          FlagClaimReview, FlagOk, MarkClaimBroadcast, MarkOk, RecordClaimAttempt, AttemptOk
    <2> QED
      BY <1>1, <1>2, <2>1 DEF LeaseHeld
  <1>7. CASE InitAccount(r) \/ Halt(r) \/ Assign(r) \/ Record(r)
    <2>1. UNCHANGED outboxVars \/ (LeaseHeld(r) /\ UNCHANGED lease)
      BY <1>7
      DEF InitAccount, Halt, Assign, Record, Write, InitTreasuryAccount, InitOk, HaltTreasury,
          HaltOk, CancelBlocked, CancelBlockedOk, AssignGuard, AssignClaimNonce, AssignOk,
          RecordSignedClaim, RecordSignedOk
    <2> QED
      BY <1>1, <1>2, <2>1 DEF LeaseHeld
  <1> QED
    BY <1>3, <1>4, <1>5, <1>6, <1>7 DEF RunStep

-----------------------------------------------------------------------------
(* What a run reads, it may rely on                                        *)

\* A run that has read nothing, or forgets what it read.
LEMMA NothingRead ==
    ASSUME NEW m, m.pc \in BeforeReading, m.todo = <<>>, m.queue = <<>>,
           NEW rows, NEW next, NEW stop
    PROVE  QueueFits(m, rows) /\ Tenure(m, rows, next, stop)
  <1>1. 1 .. Len(m.queue) = {}
    BY EmptySeq
  <1> QED
    BY <1>1 DEF QueueFits, Tenure, BeforeReading

\* A run that rests has read nothing.
LEMMA RestingReads ==
    /\ Idle.pc = "idle" /\ Idle.todo = <<>> /\ Idle.queue = <<>>
    /\ Stopped.pc = "release" /\ Stopped.todo = <<>> /\ Stopped.queue = <<>>
  BY DEF Idle, Stopped

\* The entries of a queue are claims and nonces.
LEMMA EntryTypes ==
    ASSUME NEW m \in Runs
    PROVE  /\ Len(m.queue) \in Nat
           /\ \A i \in 1 .. Len(m.queue) :
                 m.queue[i].claim \in Claims /\ m.queue[i].nonce \in Nat \cup {NULL}
  <1>1. m.queue \in Seq(QueueRows)
    BY DEF Runs
  <1>2. \A i \in 1 .. Len(m.queue) : m.queue[i] \in QueueRows
    BY <1>1, ElementOfSeq
  <1> QED
    BY <1>1, <1>2, LenProperties DEF QueueRows

\* The world goes on and leaves a run what it read.
LEMMA StaysRead ==
    ASSUME NEW m \in Runs, QueueFits(m, claims), NoneVanishes
    PROVE  QueueFits(m, claims')
  BY EntryTypes DEF QueueFits, NoneVanishes

\* ... nor does it move what a run that holds the lease relies on.
LEMMA StaysHeld ==
    ASSUME NEW m \in Runs, QueueFits(m, claims), Calm, NoneHalts,
           m.pc \notin BeforeReading => m.key \in Signers,
           m.pc \in PayPhases => m.todo = <<>>,
           Tenure(m, claims, nextNonce, halted)
    PROVE  Tenure(m, claims', nextNonce', halted')
  <1>1. CASE m.pc \in BeforeReading
    BY <1>1, NothingRead DEF QueueFits
  <1>2. CASE m.pc \notin BeforeReading
    <2>1. m.key \in Signers
      BY <1>2
    <2>2. m.pc \in PayPhases => ~m.halted
      <3>1. m.pc \in PayPhases => m.pc \notin BeforeReading \cup {"reconcile"}
        BY DEF PayPhases, BeforeReading
      <3> QED
        BY <3>1 DEF Tenure
    <2>3. ~m.halted => ~halted[m.key]
      BY <1>2 DEF Tenure
    <2>4. ASSUME NEW i \in 1 .. Len(m.queue) PROVE EntryFits(m, i, claims', nextNonce')
      <3> DEFINE c == m.queue[i].claim
      <3>1. c \in Claims /\ claims[c].status # "absent" /\ EntryFits(m, i, claims, nextNonce)
        BY EntryTypes DEF QueueFits, Tenure
      <3> SUFFICES ASSUME claims'[c].status = "queued" PROVE EntryFits(m, i, claims', nextNonce')
        BY DEF EntryFits
      <3>2. /\ claims[c].status = "queued" /\ claims'[c].nonce = claims[c].nonce
            /\ claims[c].nonce # NULL /\ ~halted[m.key] => nextNonce'[m.key] = nextNonce[m.key]
        BY <2>1, <3>1 DEF Calm
      <3> QED
        BY <2>2, <2>3, <3>1, <3>2 DEF EntryFits
    <2>5. ~m.halted => ~halted'[m.key]
      BY <2>1, <2>3 DEF NoneHalts
    <2> QED
      BY <2>4, <2>5 DEF Tenure
  <1> QED
    BY <1>1, <1>2

\* A run goes on among the claims in flight, and in the checks after them.
LEMMA GoesOn ==
    ASSUME NEW m \in Runs, NEW n, NEW rows, NEW next, NEW stop,
           QueueFits(m, rows),
           m.pc \notin BeforeReading \cup PayPhases,
           n.pc \notin BeforeReading \cup PayPhases \cup {"sanity2"},
           n.key = m.key, n.queue = m.queue, n.next = m.next, n.halted = m.halted,
           n.pc = "sanity" => n.next \in Nat,
           n.todo = <<>> /\ n.pc # "reconcile" =>
              ~n.halted \/ (m.todo = <<>> /\ m.pc # "reconcile")
    PROVE  /\ QueueFits(n, rows)
           /\ Tenure(m, rows, next, stop) => Tenure(n, rows, next, stop)
  <1>1. QueueFits(n, rows)
    BY DEF QueueFits
  <1>2. ASSUME Tenure(m, rows, next, stop) PROVE Tenure(n, rows, next, stop)
    <2>1. ASSUME NEW i \in 1 .. Len(n.queue) PROVE EntryFits(n, i, rows, next)
      BY <1>2 DEF Tenure, EntryFits, PayPhases
    <2> QED
      BY <1>2, <2>1 DEF Tenure
  <1> QED
    BY <1>1, <1>2

\* What is behind the head of the queue holds no nonce.
LEMMA TailFits ==
    ASSUME NEW m \in Runs, NEW n, NEW rows, NEW next, NEW stop,
           QueueFits(m, rows), m.queue # <<>>,
           m.pc \notin BeforeReading \cup {"reconcile"}, m.todo = <<>>,
           n.pc = "pay", n.queue = Tail(m.queue), n.key = m.key, n.halted = m.halted
    PROVE  /\ QueueFits(n, rows)
           /\ Tenure(m, rows, next, stop) => Tenure(n, rows, next, stop)
  <1>1. /\ m.queue \in Seq(QueueRows)
        /\ Len(n.queue) = Len(m.queue) - 1 /\ Len(m.queue) \in Nat
        /\ \A i \in 1 .. Len(n.queue) : n.queue[i] = m.queue[i + 1]
    <2>1. m.queue \in Seq(QueueRows)
      BY DEF Runs
    <2> QED
      BY <2>1, HeadTailProperties, LenProperties
  <1>2. ASSUME NEW i \in 1 .. Len(n.queue)
        PROVE  i + 1 \in 1 .. Len(m.queue) /\ i + 1 # 1 /\ n.queue[i] = m.queue[i + 1]
    BY <1>1
  <1>3. ASSUME NEW i \in 1 .. Len(n.queue)
        PROVE  rows[n.queue[i].claim].status # "absent" /\ n.queue[i].nonce = NULL
    BY <1>2 DEF QueueFits
  <1>4. ASSUME NEW i \in 1 .. Len(n.queue), NEW j \in 1 .. Len(n.queue),
               n.queue[i].claim = n.queue[j].claim
        PROVE  i = j
    <2>1. i + 1 = j + 1
      BY <1>2, <1>4 DEF QueueFits
    <2> QED
      BY <2>1
  <1>5. QueueFits(n, rows)
    BY <1>3, <1>4 DEF QueueFits, BeforeReading
  <1>6. ASSUME Tenure(m, rows, next, stop) PROVE Tenure(n, rows, next, stop)
    <2>1. ASSUME NEW i \in 1 .. Len(n.queue) PROVE EntryFits(n, i, rows, next)
      <3>1. EntryFits(m, i + 1, rows, next)
        BY <1>2, <1>6 DEF Tenure
      <3>2. rows[n.queue[i].claim].status = "queued" => rows[n.queue[i].claim].nonce = NULL
        BY <1>2, <1>3, <3>1 DEF EntryFits
      <3> QED
        BY <1>3, <3>2 DEF EntryFits
    <2>2. ~m.halted /\ ~stop[m.key]
      BY <1>6 DEF Tenure
    <2> QED
      BY <2>1, <2>2 DEF Tenure
  <1> QED
    BY <1>5, <1>6

-----------------------------------------------------------------------------
(* A run's own step                                                        *)

OwnFits(r) ==
    /\ QueueFits(run'[r], claims')
    /\ LeaseHeld(r)' => Tenure(run'[r], claims', nextNonce', halted')

\* What the invariant says of one run.
LEMMA FencedRun ==
    ASSUME SpentInv, NEW r \in Holders
    PROVE  /\ IInv /\ Money /\ WorkerInv
           /\ run \in [Holders -> Runs] /\ run[r] \in Runs
           /\ Fits(run[r], claims, Receipts)
           /\ QueueFits(run[r], claims)
           /\ LeaseHeld(r) => Tenure(run[r], claims, nextNonce, halted)
  BY RunType DEF SpentInv, WorkerInv, RunsOK, Fenced

\* A run that ends forgets what it read.
LEMMA OwnEnds ==
    ASSUME SpentInv, NEW r \in Holders, Become(r, Idle) \/ Become(r, Stopped)
    PROVE  OwnFits(r)
  <1>1. run'[r] = Idle \/ run'[r] = Stopped
    BY FencedRun DEF Become
  <1>2. ASSUME NEW m, m = Idle \/ m = Stopped
        PROVE  QueueFits(m, claims') /\ Tenure(m, claims', nextNonce', halted')
    <2>1. m.pc \in BeforeReading /\ m.todo = <<>> /\ m.queue = <<>>
      BY <1>2, RestingReads DEF BeforeReading
    <2> QED
      BY <2>1, NothingRead
  <1> QED
    BY <1>1, <1>2 DEF OwnFits

\* A step that reads: the tables are as they were.
LEMMA OwnReads ==
    ASSUME SpentInv, NEW r \in Holders, NEW n, Become(r, n), UNCHANGED outboxVars,
           QueueFits(n, claims),
           Tenure(run[r], claims, nextNonce, halted) => Tenure(n, claims, nextNonce, halted)
    PROVE  OwnFits(r) /\ NoneSigned
  <1>1. run'[r] = n
    BY FencedRun DEF Become
  <1>2. UNCHANGED <<claims, nextNonce, halted, lease>>
    BY DEF outboxVars
  <1>3. LeaseHeld(r)' => Tenure(n, claims, nextNonce, halted)
    BY <1>2, FencedRun DEF LeaseHeld
  <1> QED
    BY <1>1, <1>2, <1>3, QuietCalm DEF OwnFits

\* A step that writes, calmly: the run goes on from what it may still rely on.
LEMMA OwnCalls ==
    ASSUME SpentInv, NEW r \in Holders, NEW n, Become(r, n) \/ Become(r, Stopped),
           NoneVanishes, Calm, NoneHalts, lease' = lease,
           QueueFits(run[r], claims') =>
              /\ QueueFits(n, claims')
              /\ Tenure(run[r], claims', nextNonce', halted') =>
                    Tenure(n, claims', nextNonce', halted')
    PROVE  OwnFits(r)
  <1>1. CASE Become(r, Stopped)
    BY <1>1, OwnEnds
  <1>2. CASE Become(r, n)
    <2>1. run'[r] = n
      BY <1>2, FencedRun DEF Become
    <2>2. QueueFits(run[r], claims')
      BY FencedRun, StaysRead
    <2>3. ASSUME LeaseHeld(r)' PROVE Tenure(run[r], claims', nextNonce', halted')
      <3>1. Tenure(run[r], claims, nextNonce, halted)
        BY <2>3, FencedRun DEF LeaseHeld
      <3>2. run[r].pc \notin BeforeReading => run[r].key \in Signers
        BY FencedRun DEF Fits, BeforeReading
      <3>3. run[r].pc \in PayPhases => run[r].todo = <<>>
        BY FencedRun DEF Fits, PayPhases, IdlePhases, QueuePhases
      <3> QED
        BY <3>1, <3>2, <3>3, FencedRun, StaysHeld
    <2> QED
      BY <2>1, <2>2, <2>3 DEF OwnFits
  <1> QED
    BY <1>1, <1>2

\* The next row of the phase, field by field.
LEMMA AdvanceFields ==
    ASSUME NEW r \in Holders, run[r] \in Runs, NEW b \in BOOLEAN, NEW n, n = Advance(r, b)
    PROVE  /\ n.key = run[r].key /\ n.next = run[r].next /\ n.halted = run[r].halted
           /\ run[r].todo # <<>> => n.pc = "reconcile" /\ n.queue = run[r].queue
           /\ run[r].todo = <<>> => n.pc = "pay" /\ n.queue = Tail(run[r].queue)
  <1>1. CASE run[r].todo # <<>>
    BY <1>1 DEF Advance, Runs
  <1>2. CASE run[r].todo = <<>>
    BY <1>2 DEF Advance, Runs
  <1> QED
    BY <1>1, <1>2

\* After a claim, in either phase.
LEMMA AdvanceGoesOn ==
    ASSUME NEW r \in Holders, run[r] \in Runs, NEW b \in BOOLEAN, NEW n, n = Advance(r, b),
           run[r].pc \notin BeforeReading,
           run[r].todo # <<>> => run[r].pc \notin PayPhases,
           run[r].todo = <<>> => run[r].pc # "reconcile" /\ run[r].queue # <<>>,
           NEW rows, NEW next, NEW stop, QueueFits(run[r], rows)
    PROVE  /\ QueueFits(n, rows)
           /\ Tenure(run[r], rows, next, stop) => Tenure(n, rows, next, stop)
  <1> DEFINE m == run[r]
  <1> HIDE DEF m
  <1>0. /\ m \in Runs /\ QueueFits(m, rows) /\ m.pc \notin BeforeReading
        /\ n.key = m.key /\ n.next = m.next /\ n.halted = m.halted
    BY AdvanceFields DEF m
  <1>1. CASE run[r].todo # <<>>
    <2>1. n.pc = "reconcile" /\ n.queue = m.queue /\ m.pc \notin PayPhases
      BY <1>1, AdvanceFields DEF m
    <2>2. /\ QueueFits(n, rows)
          /\ Tenure(m, rows, next, stop) => Tenure(n, rows, next, stop)
      BY <1>0, <2>1, GoesOn DEF BeforeReading, PayPhases
    <2> QED
      BY <2>2 DEF m
  <1>2. CASE run[r].todo = <<>>
    <2>1. /\ n.pc = "pay" /\ n.queue = Tail(m.queue) /\ m.todo = <<>>
          /\ m.pc # "reconcile" /\ m.queue # <<>>
      BY <1>2, AdvanceFields DEF m
    <2>2. /\ QueueFits(n, rows)
          /\ Tenure(m, rows, next, stop) => Tenure(n, rows, next, stop)
      BY <1>0, <2>1, TailFits
    <2> QED
      BY <2>2 DEF m
  <1> QED
    BY <1>1, <1>2

\* Starting, up to the lease; and ending.
LEMMA EdgesFit ==
    ASSUME SpentInv, NEW r \in Holders,
           \/ Start(r) \/ Acquire(r) \/ Halt(r) \/ QueueDone(r) \/ ReleaseLease(r)
           \/ PreflightRefuses(r) \/ Abort(r) \/ Crash(r)
    PROVE  OwnFits(r) /\ NoneSigned
  <1>1. claims' = claims
    BY DEF Start, Acquire, Halt, QueueDone, ReleaseLease, Abort, Crash, Read, Write, outboxVars,
           PreflightRefuses, AcquirePayoutLease, ReleasePayoutLease, HaltTreasury
  <1>2. NoneSigned
    BY <1>1 DEF NoneSigned
  <1>3. CASE Start(r)
    <2> DEFINE m == [Idle EXCEPT !.pc = "acquire", !.key = key, !.enabled = payouts]
    <2>1. run'[r] = m
      BY <1>3, FencedRun DEF Start, Read, Become
    <2>2. m.pc = "acquire" /\ m.todo = <<>> /\ m.queue = <<>>
      BY DEF Idle
    <2> HIDE DEF m
    <2>3. QueueFits(m, claims') /\ Tenure(m, claims', nextNonce', halted')
      BY <2>2, NothingRead DEF BeforeReading
    <2> QED
      BY <1>2, <2>1, <2>3 DEF OwnFits
  <1>4. CASE Acquire(r) /\ ~Become(r, Idle)
    <2> DEFINE m == [run[r] EXCEPT !.pc = "snapshot"]
    <2>1. run'[r] = m /\ run[r].pc = "acquire"
      BY <1>4, FencedRun DEF Acquire, Goto, Become
    <2>2. run[r].todo = <<>> /\ run[r].queue = <<>>
      BY <2>1, FencedRun DEF QueueFits, BeforeReading
    <2>3. m.pc = "snapshot" /\ m.todo = <<>> /\ m.queue = <<>>
      BY <2>2, FencedRun DEF Runs
    <2> HIDE DEF m
    <2>4. QueueFits(m, claims') /\ Tenure(m, claims', nextNonce', halted')
      BY <2>3, NothingRead DEF BeforeReading
    <2> QED
      BY <1>2, <2>1, <2>4 DEF OwnFits
  <1>5. CASE \/ Halt(r) \/ QueueDone(r) \/ ReleaseLease(r) \/ Abort(r) \/ Crash(r)
             \/ PreflightRefuses(r)
             \/ Acquire(r) /\ Become(r, Idle)
    BY <1>2, <1>5, OwnEnds
    DEF Halt, QueueDone, PreflightRefuses, ReleaseLease, Abort, Crash, Read, Write
  <1> QED
    BY <1>3, <1>4, <1>5

\* What the queue's order says of the nonces in it: of two claims that hold
\* one there is at most one (OneSlot), and it is first.
LEMMA SnapshotQueue ==
    ASSUME SpentInv, NEW queue \in SnapQueued
    PROVE  \A i \in 1 .. Len(queue) :
              /\ queue[i].claim \in Claims
              /\ claims[queue[i].claim].status = "queued"
              /\ queue[i].nonce = claims[queue[i].claim].nonce
              /\ i # 1 => queue[i].nonce = NULL
              /\ \A j \in 1 .. Len(queue) : queue[i].claim = queue[j].claim => i = j
  <1> DEFINE rows == {c \in Claims : claims[c].status = "queued"}
             n == Cardinality(rows)
             Before(c, d) == IF (claims[c].nonce = NULL) = (claims[d].nonce = NULL)
                             THEN c < d ELSE claims[c].nonce # NULL
  <1>1. PICK list \in [1 .. n -> rows] :
          /\ \A i, j \in DOMAIN list : i < j => Before(list[i], list[j])
          /\ queue = [i \in {j \in DOMAIN list : j <= SnapshotLimit} |->
                        [claim |-> list[i], nonce |-> claims[list[i]].nonce]]
    BY DEF SnapQueued, Listings
  <1>2. n \in Nat
    <2>1. IsFiniteSet(Claims) /\ rows \subseteq Claims
      BY FS_Interval, OutboxAssumption DEF Claims
    <2> QED
      BY <2>1, FS_Subset, FS_CardinalityType
  <1> HIDE DEF n
  <1>3. /\ DOMAIN list = 1 .. n
        /\ \A i \in 1 .. n : list[i] \in Claims /\ claims[list[i]].status = "queued"
        /\ \A i, j \in 1 .. n : i < j => Before(list[i], list[j])
    BY <1>1
  <1>4. PICK k \in Nat : {j \in 1 .. n : j <= SnapshotLimit} = 1 .. k
    <2>1. CASE n <= SnapshotLimit
      BY <1>2, <2>1 DEF SnapshotLimit
    <2>2. CASE n > SnapshotLimit
      BY <1>2, <2>2 DEF SnapshotLimit
    <2> QED
      BY <1>2, <2>1, <2>2 DEF SnapshotLimit
  <1>5. queue = [i \in 1 .. k |-> [claim |-> list[i], nonce |-> claims[list[i]].nonce]]
    BY <1>1, <1>3, <1>4
  <1>6. Len(queue) = k
    BY <1>5
  <1>7. ASSUME NEW i \in 1 .. n, NEW j \in 1 .. n, i < j
        PROVE  list[i] # list[j] /\ claims[list[j]].nonce = NULL
    <2> DEFINE c == list[i]
               d == list[j]
    <2>1. /\ c \in Claims /\ claims[c].status = "queued"
          /\ d \in Claims /\ claims[d].status = "queued" /\ Before(c, d)
      BY <1>3, <1>7
    <2> HIDE DEF c, d
    <2>2. c # d
      BY <2>1 DEF Claims
    <2>3. OneSlot
      BY DEF SpentInv, WorkerInv, IInv, Safe
    <2>4. claims[d].nonce = NULL
      BY <2>1, <2>2, <2>3 DEF OneSlot, HoldsSlot
    <2> QED
      BY <2>2, <2>4 DEF c, d
  <1>8. ASSUME NEW i \in 1 .. k
        PROVE  /\ i \in 1 .. n /\ queue[i].claim = list[i]
               /\ queue[i].nonce = claims[list[i]].nonce
    BY <1>4, <1>5
  <1>9. ASSUME NEW i \in 1 .. k, i # 1 PROVE queue[i].nonce = NULL
    <2>1. 1 \in 1 .. n /\ 1 < i /\ i \in 1 .. n
      BY <1>2, <1>8, <1>9
    <2> QED
      BY <1>7, <1>8, <2>1
  <1>10. ASSUME NEW i \in 1 .. k, NEW j \in 1 .. k, queue[i].claim = queue[j].claim
         PROVE  i = j
    <2>1. i \in 1 .. n /\ j \in 1 .. n /\ list[i] = list[j]
      BY <1>8, <1>10
    <2>2. ~(i < j) /\ ~(j < i)
      BY <1>7, <2>1
    <2> QED
      BY <2>1, <2>2
  <1> QED
    BY <1>3, <1>6, <1>8, <1>9, <1>10

\* The snapshot is true when it is taken.
LEMMA SnapshotFits ==
    ASSUME SpentInv, NEW r \in Holders, Snapshot(r)
    PROVE  OwnFits(r) /\ NoneSigned
  <1>1. PICK todo \in SnapInFlight, queue \in SnapQueued :
          Read(r, [run[r] EXCEPT
              !.pc = "reconcile",
              !.todo = todo,
              !.queue = queue,
              !.next = nextNonce[run[r].key],
              !.halted = halted[run[r].key],
              !.review = \E c \in Claims : claims[c].status = "needs_review"])
    BY DEF Snapshot
  <1> DEFINE next == nextNonce[run[r].key]
             on == halted[run[r].key]
             review == \E c \in Claims : claims[c].status = "needs_review"
             m == [run[r] EXCEPT !.pc = "reconcile", !.todo = todo, !.queue = queue,
                                 !.next = next, !.halted = on, !.review = review]
  <1>2. Become(r, m) /\ UNCHANGED outboxVars
    BY <1>1 DEF Read
  <1>3. next = nextNonce[run[r].key] /\ on = halted[run[r].key]
    OBVIOUS
  <1> HIDE DEF next, on, review
  <1>4. /\ m.pc = "reconcile" /\ m.queue = queue /\ m.next = next /\ m.halted = on
        /\ m.key = run[r].key
    BY FencedRun DEF Runs
  <1> HIDE DEF m
  <1>5. QueueFits(m, claims)
    BY <1>4, SnapshotQueue DEF QueueFits, BeforeReading
  <1>6. ASSUME NEW i \in 1 .. Len(m.queue) PROVE EntryFits(m, i, claims, nextNonce)
    BY <1>3, <1>4, SnapshotQueue DEF EntryFits, PayPhases
  <1>7. Tenure(m, claims, nextNonce, halted)
    BY <1>3, <1>4, <1>6 DEF Tenure
  <1> QED
    BY <1>2, <1>5, <1>7, OwnReads

\* Reading, for a row in flight.
LEMMA ReadingFits ==
    ASSUME SpentInv, NEW r \in Holders,
           ReconcileRow(r) \/ CheckNonce(r) \/ Recheck(r) \/ ReadSwitch(r)
    PROVE  OwnFits(r) /\ NoneSigned
  <1> DEFINE m == run[r]
  <1>0. m \in Runs /\ m.todo # <<>> /\ m.pc \in {"reconcile", "nonce", "recheck", "switch"}
    BY FencedRun DEF ReconcileRow, CheckNonce, Recheck, ReadSwitch, Fits, InFlightPhases
  <1>1. ASSUME NEW n, Become(r, n), UNCHANGED outboxVars,
               n.key = m.key, n.queue = m.queue, n.next = m.next, n.halted = m.halted,
               \/ n.pc \in {"flag", "nonce", "settle", "switch", "recheck", "broadcast"}
                  /\ n.todo = m.todo
               \/ n.pc = "reconcile"
        PROVE  OwnFits(r) /\ NoneSigned
    <2>1. /\ QueueFits(n, claims)
          /\ Tenure(m, claims, nextNonce, halted) => Tenure(n, claims, nextNonce, halted)
      BY <1>0, <1>1, FencedRun, GoesOn DEF BeforeReading, PayPhases
    <2> QED
      BY <1>1, <2>1, OwnReads
  <1>2. ASSUME NEW pc \in {"flag", "nonce", "switch", "recheck", "broadcast"},
               Become(r, [m EXCEPT !.pc = pc]), UNCHANGED outboxVars
        PROVE  OwnFits(r) /\ NoneSigned
    <2> DEFINE n == [m EXCEPT !.pc = pc]
    <2>1. /\ n.key = m.key /\ n.queue = m.queue /\ n.next = m.next /\ n.halted = m.halted
          /\ n.todo = m.todo /\ n.pc = pc
      BY <1>0 DEF Runs
    <2> HIDE DEF n
    <2> QED
      BY <1>1, <1>2, <2>1 DEF n
  <1>3. ASSUME NEW f, NEW pc \in {"flag", "nonce"},
               Become(r, Decide(r, f, pc)), UNCHANGED outboxVars
        PROVE  OwnFits(r) /\ NoneSigned
    <2> DEFINE n == [m EXCEPT !.pc = "settle", !.found = f]
    <2>1. /\ n.key = m.key /\ n.queue = m.queue /\ n.next = m.next /\ n.halted = m.halted
          /\ n.todo = m.todo /\ n.pc = "settle"
      BY <1>0 DEF Runs
    <2>2. \/ Become(r, [m EXCEPT !.pc = "flag"]) \/ Become(r, [m EXCEPT !.pc = pc])
          \/ Become(r, n)
      BY <1>3 DEF Decide
    <2> HIDE DEF n
    <2>3. Become(r, n) => OwnFits(r) /\ NoneSigned
      BY <1>1, <1>3, <2>1
    <2> QED
      BY <1>2, <1>3, <2>2, <2>3
  <1>4. CASE ReconcileRow(r) \/ CheckNonce(r) \/ Recheck(r)
    <2>1. /\ UNCHANGED outboxVars
          /\ \/ \E pc \in {"flag", "nonce", "switch", "recheck"} : Become(r, [m EXCEPT !.pc = pc])
             \/ \E f : \E pc \in {"flag", "nonce"} : Become(r, Decide(r, f, pc))
      <3>1. CASE ReconcileRow(r)
        <4>1. Row(r).signer # m.key \/ Row(r).signer = m.key
          OBVIOUS
        <4> QED
          BY <3>1, <4>1 DEF ReconcileRow, Goto
      <3>2. CASE CheckNonce(r)
        <4>1. LatestNonce(m.key) <= Row(r).nonce \/ ~(LatestNonce(m.key) <= Row(r).nonce)
          OBVIOUS
        <4> QED
          BY <3>2, <4>1 DEF CheckNonce, Read
      <3>3. CASE Recheck(r)
        BY <3>3 DEF Recheck, Read
      <3> QED
        BY <1>4, <3>1, <3>2, <3>3
    <2> QED
      BY <1>2, <1>3, <2>1
  <1>5. CASE ReadSwitch(r)
    <2> DEFINE b == [m EXCEPT !.pc = "broadcast", !.enabled = payouts]
               a == Advance(r, TRUE)
               n == [a EXCEPT !.enabled = payouts]
    <2>1. /\ b.key = m.key /\ b.queue = m.queue /\ b.next = m.next /\ b.halted = m.halted
          /\ b.todo = m.todo /\ b.pc = "broadcast"
      BY <1>0 DEF Runs
    <2>2. /\ a.key = m.key /\ a.queue = m.queue /\ a.next = m.next /\ a.halted = m.halted
          /\ a.pc = "reconcile"
      BY <1>0, AdvanceFields
    <2>3. m.todo # <<>> /\ m.pc \notin {"idle", "release"}
      BY <1>0
    <2>4. a \in Runs
      BY <2>3, FencedRun, AdvanceFits
    <2> HIDE DEF a, b
    <2>5. /\ n.key = m.key /\ n.queue = m.queue /\ n.next = m.next /\ n.halted = m.halted
          /\ n.pc = "reconcile"
      BY <2>2, <2>4 DEF Runs
    <2> HIDE DEF n
    <2>6. UNCHANGED outboxVars /\ (Become(r, b) \/ Become(r, n))
      BY <1>5 DEF ReadSwitch, Read, a, b, n
    <2> QED
      BY <1>1, <2>1, <2>5, <2>6
  <1> QED
    BY <1>4, <1>5

\* Writing what was found, and sending.
LEMMA WritingFits ==
    ASSUME SpentInv, NoneVanishes, NEW r \in Holders, Settle(r) \/ Mark(r) \/ Attempt(r)
    PROVE  OwnFits(r) /\ NoneSigned
  <1> DEFINE m == run[r]
             c == Claim(r)
             n == IF m.pc = "mark" /\ m.todo = <<>> THEN [m EXCEPT !.pc = "poll"]
                                              ELSE Advance(r, m.pc # "settle")
  <1>0. /\ m \in Runs /\ m.pc \in {"settle", "mark", "attempt"}
        /\ m.todo = <<>> => m.queue # <<>>
        /\ c \in Claims
    <2>1. m \in Runs /\ m.pc \in {"settle", "mark", "attempt"} /\ Fits(m, claims, Receipts)
      BY FencedRun DEF Settle, Mark, Attempt
    <2>2. m.todo # <<>> \/ m.queue # <<>>
      BY <2>1 DEF Fits, SendPhases
    <2>3. c \in Claims
      BY <2>1, <2>2, FencedRun, RunType, ClaimOfType
    <2> QED
      BY <2>1, <2>2, <2>3
  <1>1. \/ UNCHANGED outboxVars /\ Become(r, Stopped)
        \/ /\ Become(r, n) \/ Become(r, Stopped)
           /\ \/ MarkClaimBroadcast(r, c) \/ RecordClaimAttempt(r, c)
              \/ \E t : ConfirmClaim(r, c, t) \/ \E p \in Proofs : FailClaim(r, c, p, t)
    <2>1. CASE Settle(r)
      BY <2>1, <1>0 DEF Settle, Write, Mark, Proofs
    <2>2. CASE Mark(r)
      BY <2>2, <1>0 DEF Settle, Write, Mark
    <2>3. CASE Attempt(r)
      BY <2>3, <1>0 DEF Settle, Write, Mark, Attempt
    <2> QED
      BY <2>1, <2>2, <2>3
  <1>2. ASSUME UNCHANGED outboxVars, Become(r, Stopped)
        PROVE  OwnFits(r) /\ NoneSigned
    BY <1>2, OwnEnds, QuietCalm DEF outboxVars
  <1>3. ASSUME QueueFits(m, claims')
        PROVE  /\ QueueFits(n, claims')
               /\ Tenure(m, claims', nextNonce', halted') =>
                     Tenure(n, claims', nextNonce', halted')
    <2>1. CASE m.pc = "mark" /\ m.todo = <<>>
      <3>1. /\ n.pc = "poll" /\ n.key = m.key /\ n.queue = m.queue /\ n.next = m.next
            /\ n.halted = m.halted /\ n.todo = <<>> /\ m.todo = <<>> /\ m.pc = "mark"
        BY <1>0, <2>1 DEF Runs
      <3> HIDE DEF n, m
      <3> QED
        BY <1>0, <1>3, <3>1, GoesOn DEF BeforeReading, PayPhases
    <2>2. CASE ~(m.pc = "mark" /\ m.todo = <<>>)
      <3>1. n = Advance(r, m.pc # "settle") /\ (m.pc # "settle") \in BOOLEAN
        BY <2>2
      <3>2. /\ m.pc \notin BeforeReading /\ m.pc \notin PayPhases /\ m.pc # "reconcile"
        BY <1>0 DEF BeforeReading, PayPhases
      <3> HIDE DEF n
      <3> QED
        BY <1>0, <1>3, <3>1, <3>2, AdvanceGoesOn
    <2> QED
      BY <2>1, <2>2
  <1> HIDE DEF n
  <1>4. ASSUME Become(r, n) \/ Become(r, Stopped),
               \/ MarkClaimBroadcast(r, c) \/ RecordClaimAttempt(r, c)
               \/ \E t : ConfirmClaim(r, c, t) \/ \E p \in Proofs : FailClaim(r, c, p, t)
        PROVE  OwnFits(r) /\ NoneSigned
    <2> HIDE DEF c
    <2>1. Calm /\ NoneHalts /\ NoneSigned /\ lease' = lease
      <3>1. PICK t : \/ MarkClaimBroadcast(r, c) \/ RecordClaimAttempt(r, c)
                     \/ ConfirmClaim(r, c, t) \/ \E p \in Proofs : FailClaim(r, c, p, t)
        BY <1>4
      <3>2. PICK p \in Proofs : \/ MarkClaimBroadcast(r, c) \/ RecordClaimAttempt(r, c)
                                \/ ConfirmClaim(r, c, t) \/ FailClaim(r, c, p, t)
        BY <3>1 DEF Proofs
      <3> QED
        BY <1>0, <3>2, FencedRun, FollowCalm
    <2> QED
      BY <1>3, <1>4, <2>1, OwnCalls
  <1> QED
    BY <1>1, <1>2, <1>4

\* A run that flagged a claim knows that its account is halted.
LEMMA FlagFits ==
    ASSUME SpentInv, NoneVanishes, NEW r \in Holders, Flag(r)
    PROVE  OwnFits(r) /\ NoneSigned
  <1> DEFINE m == run[r]
             c == Claim(r)
             a == Advance(r, FALSE)
             n == [a EXCEPT !.halted = TRUE]
  <1>0. m \in Runs /\ m.pc = "flag" /\ m.todo # <<>> /\ c \in Claims
    <2>1. m \in Runs /\ m.pc = "flag" /\ Fits(m, claims, Receipts)
      BY FencedRun DEF Flag
    <2>2. m.todo # <<>>
      BY <2>1 DEF Fits, InFlightPhases
    <2> QED
      BY <2>1, <2>2, FencedRun, RunType, ClaimOfType
  <1>1. \/ UNCHANGED outboxVars /\ Become(r, Stopped)
        \/ FlagClaimReview(r, c) /\ (Become(r, n) \/ Become(r, Stopped))
    BY DEF Flag, Write
  <1>2. ASSUME UNCHANGED outboxVars, Become(r, Stopped)
        PROVE  OwnFits(r) /\ NoneSigned
    BY <1>2, OwnEnds, QuietCalm DEF outboxVars
  <1>3. /\ n.pc = "reconcile" /\ n.key = m.key /\ n.queue = m.queue /\ n.next = m.next
        /\ n.halted = TRUE
    <2>1. a.pc = "reconcile" /\ a.key = m.key /\ a.queue = m.queue /\ a.next = m.next
      BY <1>0, AdvanceFields
    <2>2. m.pc \notin {"idle", "release"}
      BY <1>0
    <2>3. a \in Runs
      BY <1>0, <2>2, FencedRun, AdvanceFits
    <2> HIDE DEF a
    <2> QED
      BY <2>1, <2>3 DEF Runs
  <1>4. ASSUME FlagClaimReview(r, c), Become(r, n)
        PROVE  OwnFits(r) /\ NoneSigned
    <2>1. Calm /\ NoneSigned /\ lease' = lease /\ nextNonce' = nextNonce
      BY <1>0, <1>4, FencedRun, FlagCalm
    <2>2. QueueFits(m, claims')
      BY FencedRun, StaysRead
    <2> HIDE DEF n, m, c
    <2>3. QueueFits(n, claims')
      BY <1>3, <2>2 DEF QueueFits, BeforeReading
    <2>4. ASSUME LeaseHeld(r)', NEW i \in 1 .. Len(n.queue)
          PROVE  EntryFits(n, i, claims', nextNonce')
      <3>1. Tenure(m, claims, nextNonce, halted) /\ m.queue[i].claim \in Claims
            /\ claims[m.queue[i].claim].status # "absent"
        BY <1>0, <1>3, <2>1, <2>4, FencedRun, EntryTypes DEF m, LeaseHeld, QueueFits
      <3>2. EntryFits(m, i, claims, nextNonce)
        BY <1>3, <2>4, <3>1 DEF Tenure
      <3> QED
        BY <1>0, <1>3, <2>1, <3>1, <3>2 DEF EntryFits, Calm, PayPhases
    <2>5. LeaseHeld(r)' => Tenure(n, claims', nextNonce', halted')
      BY <1>3, <2>4 DEF Tenure
    <2>6. run'[r] = n
      BY <1>4, FencedRun DEF Become
    <2> QED
      BY <2>1, <2>3, <2>5, <2>6 DEF OwnFits
  <1>5. ASSUME FlagClaimReview(r, c), Become(r, Stopped)
        PROVE  OwnFits(r) /\ NoneSigned
    BY <1>0, <1>5, FencedRun, FlagCalm, OwnEnds
  <1> QED
    BY <1>1, <1>2, <1>4, <1>5

\* Sending and polling touch no table.
LEMMA SendingFits ==
    ASSUME SpentInv, NEW r \in Holders, Broadcast(r) \/ Poll(r)
    PROVE  OwnFits(r) /\ NoneSigned
  <1> DEFINE m == run[r]
             f == Found("tx", m.signed)
  <1>0. m \in Runs /\ m.pc \in {"broadcast", "poll"}
    BY FencedRun DEF Broadcast, Poll
  <1>1. PICK n : /\ Become(r, n) \/ Become(r, Stopped)
                 /\ UNCHANGED outboxVars
                 /\ \/ n = [m EXCEPT !.pc = "mark"] \/ n = [m EXCEPT !.pc = "attempt"]
                    \/ n = [m EXCEPT !.pc = "settle", !.found = f]
    BY DEF Broadcast, Poll, Goto, Read
  <1> HIDE DEF f
  <1>2. /\ n.key = m.key /\ n.queue = m.queue /\ n.next = m.next /\ n.halted = m.halted
        /\ n.todo = m.todo /\ n.pc \in {"mark", "attempt", "settle"}
    BY <1>0, <1>1 DEF Runs
  <1>3. /\ QueueFits(n, claims)
        /\ Tenure(m, claims, nextNonce, halted) => Tenure(n, claims, nextNonce, halted)
    BY <1>0, <1>2, FencedRun, GoesOn DEF BeforeReading, PayPhases
  <1>4. Become(r, n) => OwnFits(r) /\ NoneSigned
    BY <1>1, <1>3, OwnReads
  <1>5. Become(r, Stopped) => OwnFits(r) /\ NoneSigned
    BY <1>1, OwnEnds, QuietCalm DEF outboxVars
  <1> QED
    BY <1>1, <1>4, <1>5

-----------------------------------------------------------------------------
(* From the nonce check to the signature                                   *)

\* Past the check, the nonce a waiting claim holds is the one before m.next.
LEMMA HeldChecked ==
    ASSUME NEW m \in Runs, NEW n, NEW rows, NEW next, NEW stop,
           QueueFits(m, rows), m.pc \in {"sanity", "sanity2"}, m.todo = <<>>,
           \A i \in 1 .. Len(m.queue) : m.queue[i].nonce # NULL => m.queue[i].nonce = m.next - 1,
           n.pc \in {"sanity2", "pay"}, n.key = m.key, n.queue = m.queue, n.next = m.next,
           n.halted = m.halted
    PROVE  /\ QueueFits(n, rows)
           /\ Tenure(m, rows, next, stop) => Tenure(n, rows, next, stop)
  <1>1. m.next \in Nat /\ NULL \notin Nat
    BY OutboxAssumption DEF QueueFits
  <1>2. QueueFits(n, rows)
    BY <1>1 DEF QueueFits, BeforeReading
  <1>3. ASSUME Tenure(m, rows, next, stop) PROVE Tenure(n, rows, next, stop)
    <2>1. ~m.halted /\ ~stop[m.key]
      BY <1>3 DEF Tenure, BeforeReading
    <2>2. ASSUME NEW i \in 1 .. Len(n.queue) PROVE EntryFits(n, i, rows, next)
      <3> DEFINE c == m.queue[i].claim
      <3> SUFFICES ASSUME rows[c].status = "queued" PROVE EntryFits(n, i, rows, next)
        BY DEF EntryFits
      <3>1. EntryFits(m, i, rows, next)
        BY <1>3, <2>2 DEF Tenure
      <3>2. rows[c].nonce = m.queue[i].nonce
        BY <3>1 DEF EntryFits
      <3>3. rows[c].nonce # NULL => next[m.key] = m.next /\ rows[c].nonce = m.next - 1
        BY <2>1, <2>2, <3>1, <3>2 DEF EntryFits, PayPhases
      <3> QED
        BY <1>1, <2>1, <3>2, <3>3 DEF EntryFits, PayPhases
    <2> QED
      BY <2>1, <2>2 DEF Tenure
  <1> QED
    BY <1>2, <1>3

\* The check of the head is a check of the whole queue.
LEMMA HeldFirst ==
    ASSUME SpentInv, NEW r \in Holders, Holding(r) => HeldNonce(r) = run[r].next - 1
    PROVE  \A i \in 1 .. Len(run[r].queue) :
              run[r].queue[i].nonce # NULL => run[r].queue[i].nonce = run[r].next - 1
  <1>1. run[r].queue \in Seq(QueueRows) /\ QueueFits(run[r], claims)
    BY FencedRun DEF Runs
  <1>2. DOMAIN run[r].queue = 1 .. Len(run[r].queue)
    BY <1>1, LenProperties
  <1> SUFFICES ASSUME NEW i \in 1 .. Len(run[r].queue), run[r].queue[i].nonce # NULL
               PROVE  run[r].queue[i].nonce = run[r].next - 1
    OBVIOUS
  <1>3. i = 1 /\ Holding(r)
    BY <1>1, <1>2 DEF QueueFits, Holding
  <1>4. Head(run[r].queue) = run[r].queue[1]
    BY <1>1, <1>3, LenProperties, HeadTailProperties
  <1> QED
    BY <1>3, <1>4 DEF HeldNonce

\* The idle nonce check: what it read of the account is so.
LEMMA CheckingFits ==
    ASSUME SpentInv, NEW r \in Holders, Reconciled(r) \/ Sanity(r) \/ Sanity2(r)
    PROVE  OwnFits(r) /\ NoneSigned
  <1> DEFINE m == run[r]
  <1>0. /\ m \in Runs /\ m.pc \in {"reconcile", "sanity", "sanity2"} /\ m.todo = <<>>
        /\ UNCHANGED outboxVars
    BY FencedRun DEF Reconciled, Sanity, Sanity2, Read, Fits, IdlePhases
  <1>1. ASSUME NEW pc \in {"sanity", "sanity2", "halt", "pay"}, NEW n, n = [m EXCEPT !.pc = pc]
        PROVE  /\ n.key = m.key /\ n.queue = m.queue /\ n.next = m.next
               /\ n.halted = m.halted /\ n.todo = m.todo /\ n.pc = pc
    BY <1>0, <1>1 DEF Runs
  <1>2. Become(r, Stopped) => OwnFits(r) /\ NoneSigned
    BY <1>0, OwnEnds, QuietCalm DEF outboxVars
  <1>3. ASSUME NEW n, Become(r, n), n.key = m.key, n.queue = m.queue, n.next = m.next,
               n.halted = m.halted, n.todo = <<>>,
               \/ n.pc \in {"init", "sanity"} /\ m.pc = "reconcile" /\ ~m.halted
                  /\ (n.pc = "sanity" => m.next \in Nat)
               \/ n.pc = "halt" /\ m.pc = "sanity2"
        PROVE  OwnFits(r) /\ NoneSigned
    <2>1. /\ QueueFits(n, claims)
          /\ Tenure(m, claims, nextNonce, halted) => Tenure(n, claims, nextNonce, halted)
      BY <1>0, <1>3, FencedRun, GoesOn DEF BeforeReading, PayPhases
    <2> QED
      BY <1>0, <1>3, <2>1, OwnReads
  <1>4. ASSUME NEW pc \in {"sanity2", "pay"}, m.pc \in {"sanity", "sanity2"},
               Become(r, [m EXCEPT !.pc = pc]),
               \A i \in 1 .. Len(m.queue) :
                  m.queue[i].nonce # NULL => m.queue[i].nonce = m.next - 1
        PROVE  OwnFits(r) /\ NoneSigned
    <2> DEFINE n == [m EXCEPT !.pc = pc]
    <2>1. /\ n.key = m.key /\ n.queue = m.queue /\ n.next = m.next
          /\ n.halted = m.halted /\ n.pc = pc
      BY <1>1
    <2> HIDE DEF n
    <2>2. /\ QueueFits(n, claims)
          /\ Tenure(m, claims, nextNonce, halted) => Tenure(n, claims, nextNonce, halted)
      BY <1>0, <1>4, <2>1, FencedRun, HeldChecked
    <2> QED
      BY <1>0, <1>4, <2>2, OwnReads DEF n
  <1>5. CASE Reconciled(r)
    <2> DEFINE n == [m EXCEPT !.pc = "init", !.nonce = LatestNonce(m.key)]
               k == [m EXCEPT !.pc = "sanity"]
    <2>1. /\ n.key = m.key /\ n.queue = m.queue /\ n.next = m.next
          /\ n.halted = m.halted /\ n.todo = m.todo /\ n.pc = "init"
      BY <1>0 DEF Runs
    <2>2. /\ k.key = m.key /\ k.queue = m.queue /\ k.next = m.next
          /\ k.halted = m.halted /\ k.todo = m.todo /\ k.pc = "sanity"
      BY <1>1
    <2> HIDE DEF n, k
    <2>3. /\ m.pc = "reconcile"
          /\ \/ Become(r, Stopped)
             \/ ~m.halted /\ (Become(r, n) \/ (m.next # NULL /\ Become(r, k)))
      <3>1. CASE m.halted \/ m.busy
        BY <1>5, <3>1 DEF Reconciled, Read
      <3>2. CASE ~(m.halted \/ m.busy) /\ m.next = NULL
        BY <1>5, <3>2 DEF Reconciled, Read, n
      <3>3. CASE ~(m.halted \/ m.busy) /\ m.next # NULL
        BY <1>5, <3>3 DEF Reconciled, Read, k
      <3> QED
        BY <3>1, <3>2, <3>3
    <2>4. m.next \in Nat \cup {NULL}
      BY <1>0 DEF Runs
    <2>5. ~m.halted /\ Become(r, n) => OwnFits(r) /\ NoneSigned
      BY <1>0, <1>3, <2>1, <2>3
    <2>6. ~m.halted /\ m.next # NULL /\ Become(r, k) => OwnFits(r) /\ NoneSigned
      BY <1>0, <1>3, <2>2, <2>3, <2>4
    <2> QED
      BY <1>2, <2>3, <2>5, <2>6
  <1>6. CASE Sanity(r)
    <2>1. /\ m.pc = "sanity"
          /\ \/ Become(r, Stopped)
             \/ /\ Holding(r) => HeldNonce(r) = m.next - 1
                /\ Become(r, [m EXCEPT !.pc = "sanity2"]) \/ Become(r, [m EXCEPT !.pc = "pay"])
      BY <1>6 DEF Sanity, Read, Checked
    <2> QED
      BY <1>2, <1>4, <2>1, HeldFirst
  <1>7. CASE Sanity2(r)
    <2> DEFINE k == [m EXCEPT !.pc = "halt"]
    <2>1. /\ k.key = m.key /\ k.queue = m.queue /\ k.next = m.next
          /\ k.halted = m.halted /\ k.todo = m.todo /\ k.pc = "halt"
      BY <1>1
    <2> HIDE DEF k
    <2>2. /\ m.pc = "sanity2"
          /\ Become(r, Stopped) \/ Become(r, k) \/ Become(r, [m EXCEPT !.pc = "pay"])
      BY <1>7 DEF Sanity2, Read, Checked, k
    <2>3. \A i \in 1 .. Len(m.queue) :
             m.queue[i].nonce # NULL => m.queue[i].nonce = m.next - 1
      BY <2>2, FencedRun DEF QueueFits
    <2>4. Become(r, k) => OwnFits(r) /\ NoneSigned
      BY <1>0, <1>3, <2>1, <2>2
    <2> QED
      BY <1>2, <1>4, <2>2, <2>3, <2>4
  <1> QED
    BY <1>5, <1>6, <1>7

\* A run that made the account knows where it starts.
LEMMA InitFits ==
    ASSUME SpentInv, NEW r \in Holders, InitAccount(r)
    PROVE  OwnFits(r) /\ NoneSigned
  <1> DEFINE m == run[r]
             s == m.key
             next == IF nextNonce[s] = NULL THEN m.nonce ELSE nextNonce[s]
             n == [m EXCEPT !.pc = "sanity", !.nonce = NULL, !.next = next]
  <1>0. /\ m \in Runs /\ m.pc = "init" /\ m.todo = <<>> /\ m.nonce \in Nat /\ s \in Signers
    BY FencedRun DEF InitAccount, Fits, IdlePhases
  <1>1. \/ UNCHANGED outboxVars /\ Become(r, Stopped)
        \/ InitTreasuryAccount(r, s, m.nonce) /\ (Become(r, n) \/ Become(r, Stopped))
    BY DEF InitAccount, Write
  <1>2. /\ claims' = claims /\ NoneSigned
    BY <1>1 DEF InitTreasuryAccount, outboxVars, NoneSigned
  <1>3. Become(r, Stopped) => OwnFits(r)
    BY OwnEnds
  <1>4. next \in Nat
    BY <1>0, FencedRun DEF IInv, OutboxTypeOK
  <1>5. InitTreasuryAccount(r, s, m.nonce) => nextNonce'[s] = next
    BY <1>0, FencedRun DEF InitTreasuryAccount, IInv, OutboxTypeOK
  <1> HIDE DEF next
  <1>6. /\ n.pc = "sanity" /\ n.key = s /\ n.queue = m.queue /\ n.next = next
        /\ n.halted = m.halted
    BY <1>0 DEF Runs
  <1> HIDE DEF n, s, m
  <1>7. ASSUME InitTreasuryAccount(r, s, m.nonce), Become(r, n)
        PROVE  OwnFits(r)
    <2>0. /\ QueueFits(m, claims)
          /\ LeaseHeld(r) => Tenure(m, claims, nextNonce, halted)
          /\ run'[r] = n
      BY <1>7, FencedRun DEF m, Become
    <2>1. QueueFits(n, claims)
      BY <1>4, <1>6, <2>0 DEF QueueFits, BeforeReading
    <2>2. ASSUME LeaseHeld(r)' PROVE Tenure(n, claims, nextNonce', halted')
      <3>1. Tenure(m, claims, nextNonce, halted) /\ halted' = halted
        BY <1>7, <2>0, <2>2 DEF InitTreasuryAccount, LeaseHeld
      <3>2. ~m.halted /\ ~halted[s]
        BY <1>0, <3>1 DEF Tenure, BeforeReading, s
      <3>3. ASSUME NEW i \in 1 .. Len(n.queue) PROVE EntryFits(n, i, claims, nextNonce')
        BY <1>0, <1>5, <1>6, <1>7, <3>1 DEF Tenure, EntryFits, PayPhases
      <3> QED
        BY <1>6, <3>1, <3>2, <3>3 DEF Tenure
    <2> QED
      BY <1>2, <2>0, <2>1, <2>2 DEF OwnFits
  <1> QED
    BY <1>1, <1>2, <1>3, <1>7

\* The claim that is paid is the first of the queue.
LEMMA HeadIsFirst ==
    ASSUME NEW r \in Holders, run[r] \in Runs, run[r].queue # <<>>, run[r].todo = <<>>
    PROVE  1 \in 1 .. Len(run[r].queue) /\ Claim(r) = run[r].queue[1].claim
  <1>1. run[r].queue \in Seq(QueueRows)
    BY DEF Runs
  <1> QED
    BY <1>1, HeadTailProperties, LenProperties DEF Claim

\* Reading the chain before the nonce is asked for.
LEMMA PreflightFits ==
    ASSUME SpentInv, NEW r \in Holders, Preflight(r)
    PROVE  OwnFits(r) /\ NoneSigned
  <1>a. PICK fee \in Fees : Read(r, [run[r] EXCEPT !.pc = "assign", !.fee = fee,
                                              !.nonce = LatestNonce(run[r].key)])
    BY DEF Preflight
  <1> DEFINE m == run[r]
             k == LatestNonce(m.key)
             n == [m EXCEPT !.pc = "assign", !.fee = fee, !.nonce = k]
  <1>0. m \in Runs /\ m.pc = "pay" /\ m.todo = <<>> /\ QueueFits(m, claims)
    BY FencedRun DEF Preflight, Fits, IdlePhases
  <1>1. Become(r, n) /\ UNCHANGED outboxVars
    BY <1>a DEF Read
  <1> HIDE DEF k
  <1>2. /\ n.pc = "assign" /\ n.key = m.key /\ n.queue = m.queue /\ n.next = m.next
        /\ n.halted = m.halted
    BY <1>0 DEF Runs
  <1> HIDE DEF n
  <1>3. QueueFits(n, claims)
    BY <1>0, <1>2 DEF QueueFits, BeforeReading
  <1>4. ASSUME Tenure(m, claims, nextNonce, halted) PROVE Tenure(n, claims, nextNonce, halted)
    <2>1. ~m.halted /\ ~halted[m.key]
      BY <1>0, <1>4 DEF Tenure, BeforeReading
    <2>2. ASSUME NEW i \in 1 .. Len(n.queue) PROVE EntryFits(n, i, claims, nextNonce)
      <3>1. EntryFits(m, i, claims, nextNonce)
        BY <1>2, <1>4, <2>2 DEF Tenure
      <3> QED
        BY <1>0, <1>2, <3>1 DEF EntryFits, PayPhases
    <2> QED
      BY <1>2, <2>1, <2>2 DEF Tenure
  <1> QED
    BY <1>1, <1>3, <1>4, OwnReads

\* The head of the queue takes the next nonce, or keeps the one it has.
LEMMA AssignFits ==
    ASSUME SpentInv, NoneVanishes, NEW r \in Holders, Assign(r)
    PROVE  OwnFits(r) /\ NoneSigned
  <1> DEFINE m == run[r]
             c == Claim(r)
             s == m.key
             n == [m EXCEPT !.pc = "record"]
             a == Advance(r, FALSE)
  <1>0. /\ m \in Runs /\ m.pc = "assign" /\ m.todo = <<>> /\ m.queue # <<>>
        /\ s \in Signers /\ c \in Claims
        /\ QueueFits(m, claims)
        /\ LeaseHeld(r) => Tenure(m, claims, nextNonce, halted)
        /\ run \in [Holders -> Runs]
    <2>1. m \in Runs /\ m.pc = "assign" /\ Fits(m, claims, Receipts)
      BY FencedRun DEF Assign
    <2>2. m.todo = <<>> /\ m.queue # <<>> /\ s \in Signers
      BY <2>1 DEF Fits, QueuePhases
    <2>3. c \in Claims
      BY <2>1, <2>2, FencedRun, RunType, ClaimOfType
    <2> QED
      BY <2>1, <2>2, <2>3, FencedRun
  <1>1. 1 \in 1 .. Len(m.queue) /\ c = m.queue[1].claim
    BY <1>0, HeadIsFirst
  <1>2. \/ UNCHANGED outboxVars /\ Become(r, Stopped)
        \/ CancelBlocked(r, c, s) /\ (Become(r, a) \/ Become(r, Stopped))
        \/ AssignClaimNonce(r, c, s) /\ (Become(r, n) \/ Become(r, Stopped))
    BY DEF Assign, Write
  <1>3. CASE UNCHANGED outboxVars /\ Become(r, Stopped)
    BY <1>3, OwnEnds, QuietCalm DEF outboxVars
  <1>4. CASE CancelBlocked(r, c, s) /\ (Become(r, a) \/ Become(r, Stopped))
    <2>1. Calm /\ NoneSigned
      BY <1>0, <1>4, FencedRun, CancelCalm DEF CancelBlocked, CancelBlockedOk
    <2>2. NoneHalts /\ lease' = lease
      BY <1>4 DEF CancelBlocked, NoneHalts
    <2>3. m.pc \notin BeforeReading /\ m.pc # "reconcile"
      BY <1>0 DEF BeforeReading
    <2> HIDE DEF a
    <2>4. QueueFits(m, claims') =>
             /\ QueueFits(a, claims')
             /\ Tenure(m, claims', nextNonce', halted') => Tenure(a, claims', nextNonce', halted')
      BY <1>0, <2>3, AdvanceGoesOn DEF a
    <2> QED
      BY <1>4, <2>1, <2>2, <2>4, OwnCalls
  <1>5. CASE AssignClaimNonce(r, c, s) /\ (Become(r, n) \/ Become(r, Stopped))
    <2>0. /\ n.pc = "record" /\ n.key = s /\ n.queue = m.queue /\ n.next = m.next
          /\ n.halted = m.halted
      BY <1>0 DEF Runs
    <2> HIDE DEF n, s, c
    <2>1. /\ claims[c].status = "queued" /\ nextNonce[s] \in Nat
          /\ halted' = halted /\ lease' = lease /\ claims \in [Claims -> ClaimRow]
          /\ nextNonce \in [Signers -> Nat \cup {NULL}]
      BY <1>0, <1>5, FencedRun
      DEF AssignClaimNonce, AssignOk, AssignGuard, IInv, OutboxTypeOK
    <2>2. \/ claims[c].nonce # NULL /\ UNCHANGED <<claims, nextNonce>>
          \/ /\ claims[c].nonce = NULL
             /\ claims' = [claims EXCEPT ![c] = [claims[c] EXCEPT !.nonce = nextNonce[s]]]
             /\ nextNonce' = [nextNonce EXCEPT ![s] = nextNonce[s] + 1]
      BY <1>5 DEF AssignClaimNonce, Update
    <2>3. /\ \A d \in Claims : d # c => claims'[d] = claims[d]
          /\ claims'[c].nonce = claims[c].nonce \/ claims'[c].nonce = nextNonce[s]
          /\ claims'[c].tx = claims[c].tx
          /\ claims[c].nonce = NULL =>
                claims'[c].nonce = nextNonce[s] /\ nextNonce'[s] = nextNonce[s] + 1
          /\ claims[c].nonce # NULL => claims' = claims /\ nextNonce' = nextNonce
      <3>1. claims[c] \in ClaimRow
        BY <1>0, <2>1
      <3> QED
        BY <1>0, <2>1, <2>2, <3>1 DEF ClaimRow
    <2>4. NoneSigned
      BY <2>3 DEF NoneSigned
    <2>5. CASE Become(r, Stopped)
      BY <2>4, <2>5, OwnEnds
    <2>6. CASE Become(r, n)
      <3>1. run'[r] = n
        BY <1>0, <2>6 DEF Become
      <3>2. QueueFits(m, claims')
        BY <1>0, StaysRead
      <3> HIDE DEF m
      <3>3. QueueFits(n, claims')
        BY <1>0, <2>0, <3>2 DEF QueueFits, BeforeReading
      <3>4. ASSUME LeaseHeld(r)' PROVE Tenure(n, claims', nextNonce', halted')
        <4>1. Tenure(m, claims, nextNonce, halted)
          BY <1>0, <2>1, <3>4 DEF LeaseHeld
        <4>2. ~m.halted /\ ~halted[s]
          BY <1>0, <4>1 DEF Tenure, BeforeReading, s
        <4>3. ASSUME NEW i \in 1 .. Len(n.queue), i # 1
              PROVE  EntryFits(n, i, claims', nextNonce')
          <5> DEFINE d == m.queue[i].claim
          <5>1. d \in Claims /\ d # c /\ m.queue[i].nonce = NULL
            BY <1>0, <1>1, <2>0, <4>3, EntryTypes DEF QueueFits
          <5>2. claims'[d].status = "queued" => claims'[d].nonce = NULL
            <6>1. EntryFits(m, i, claims, nextNonce)
              BY <2>0, <4>1, <4>3 DEF Tenure
            <6> QED
              BY <2>3, <4>3, <5>1, <6>1 DEF EntryFits
          <5> QED
            BY <2>0, <5>1, <5>2 DEF EntryFits
        <4>4. EntryFits(n, 1, claims', nextNonce')
          <5>1. EntryFits(m, 1, claims, nextNonce)
            BY <1>1, <4>1 DEF Tenure
          <5>2. claims[c].nonce # NULL => claims[c].nonce < nextNonce[s] /\ nextNonce[s] # NULL
            BY <1>0, <1>1, <2>1, <5>1 DEF EntryFits, PayPhases, s
          <5>3. nextNonce'[s] # NULL /\ claims'[c].nonce < nextNonce'[s]
            <6>1. NULL \notin Nat /\ nextNonce[s] + 1 \in Nat /\ nextNonce[s] < nextNonce[s] + 1
              BY <2>1, OutboxAssumption
            <6> QED
              BY <2>1, <2>3, <5>2, <6>1
          <5> QED
            BY <1>1, <2>0, <5>3 DEF EntryFits, PayPhases
        <4> QED
          BY <2>0, <2>1, <4>2, <4>3, <4>4 DEF Tenure
      <3> QED
        BY <2>4, <3>1, <3>3, <3>4 DEF OwnFits
    <2> QED
      BY <1>5, <2>5, <2>6
  <1> QED
    BY <1>2, <1>3, <1>4, <1>5

\* The claim that is signed holds a nonce its account is past.
LEMMA RecordFits ==
    ASSUME SpentInv, NoneVanishes, NEW r \in Holders, Record(r)
    PROVE  /\ OwnFits(r)
           /\ \A c \in Claims : \/ claims'[c].tx = claims[c].tx
                                \/ /\ claims'[c].signer \in Signers
                                   /\ nextNonce'[claims'[c].signer] # NULL
                                   /\ claims'[c].nonce < nextNonce'[claims'[c].signer]
  <1> DEFINE m == run[r]
             c == Claim(r)
             s == m.key
             t == Signing(r)
             n == [m EXCEPT !.pc = "broadcast", !.signed = t]
             row == [claims[c] EXCEPT !.status = "signed", !.tx = t, !.signer = s]
             Signs == \A d \in Claims : \/ claims'[d].tx = claims[d].tx
                                        \/ /\ claims'[d].signer \in Signers
                                           /\ nextNonce'[claims'[d].signer] # NULL
                                           /\ claims'[d].nonce < nextNonce'[claims'[d].signer]
  <1>0. /\ m \in Runs /\ m.pc = "record" /\ m.todo = <<>> /\ m.queue # <<>>
        /\ s \in Signers /\ c \in Claims
        /\ QueueFits(m, claims)
        /\ LeaseHeld(r) => Tenure(m, claims, nextNonce, halted)
        /\ run \in [Holders -> Runs]
    <2>1. m \in Runs /\ m.pc = "record" /\ Fits(m, claims, Receipts)
      BY FencedRun DEF Record
    <2>2. m.todo = <<>> /\ m.queue # <<>> /\ s \in Signers
      BY <2>1 DEF Fits, QueuePhases
    <2>3. c \in Claims
      BY <2>1, <2>2, FencedRun, RunType, ClaimOfType
    <2> QED
      BY <2>1, <2>2, <2>3, FencedRun
  <1>1. 1 \in 1 .. Len(m.queue) /\ c = m.queue[1].claim
    BY <1>0, HeadIsFirst
  <1>2. \/ UNCHANGED outboxVars /\ Become(r, Stopped)
        \/ RecordSignedClaim(r, c, m.nonce, t, s) /\ (Become(r, n) \/ Become(r, Stopped))
    BY DEF Record, Write
  <1>3. CASE UNCHANGED outboxVars /\ Become(r, Stopped)
    BY <1>3, OwnEnds DEF outboxVars
  <1>4. CASE RecordSignedClaim(r, c, m.nonce, t, s) /\ (Become(r, n) \/ Become(r, Stopped))
    <2>0. /\ n.pc = "broadcast" /\ n.key = s /\ n.queue = m.queue /\ n.next = m.next
          /\ n.halted = m.halted
      BY <1>0 DEF Runs
    <2> HIDE DEF n, s, c, t
    <2>1. /\ claims[c].status = "queued" /\ claims[c].nonce # NULL /\ LeaseHeld(r)
          /\ halted' = halted /\ lease' = lease /\ nextNonce' = nextNonce
          /\ claims' = [claims EXCEPT ![c] = row]
      BY <1>4
      DEF RecordSignedClaim, RecordSignedOk, Update, treasury
    <2>2. claims \in [Claims -> ClaimRow]
      BY FencedRun DEF IInv, OutboxTypeOK
    <2>3. row.status = "signed" /\ row.signer = s /\ row.nonce = claims[c].nonce
      BY <1>0, <2>2 DEF ClaimRow
    <2> HIDE DEF row
    <2>4. /\ \A d \in Claims : d # c => claims'[d] = claims[d]
          /\ claims'[c] = row
      BY <1>0, <2>1, <2>2
    <2>5. Tenure(m, claims, nextNonce, halted)
      BY <1>0, <2>1
    <2>6. Signs
      <3>1. EntryFits(m, 1, claims, nextNonce)
        BY <1>1, <2>5 DEF Tenure
      <3>2. nextNonce[s] # NULL /\ claims[c].nonce < nextNonce[s]
        BY <1>0, <1>1, <2>1, <3>1 DEF EntryFits, PayPhases, s
      <3> QED
        BY <1>0, <2>1, <2>3, <2>4, <3>2
    <2>7. CASE Become(r, Stopped)
      BY <2>6, <2>7, OwnEnds
    <2>8. CASE Become(r, n)
      <3>1. run'[r] = n
        BY <1>0, <2>8 DEF Become
      <3>2. QueueFits(m, claims')
        BY <1>0, StaysRead
      <3> HIDE DEF m
      <3>3. QueueFits(n, claims')
        BY <1>0, <2>0, <3>2 DEF QueueFits, BeforeReading
      <3>4. ~m.halted /\ ~halted[s]
        BY <1>0, <2>5 DEF Tenure, BeforeReading, s
      <3>5. ASSUME NEW i \in 1 .. Len(n.queue), i # 1
            PROVE  EntryFits(n, i, claims', nextNonce')
        <4> DEFINE d == m.queue[i].claim
        <4>1. d \in Claims /\ d # c /\ m.queue[i].nonce = NULL
          BY <1>0, <1>1, <2>0, <3>5, EntryTypes DEF QueueFits
        <4>2. claims'[d].status = "queued" => claims'[d].nonce = NULL
          <5>1. EntryFits(m, i, claims, nextNonce)
            BY <2>0, <2>5, <3>5 DEF Tenure
          <5> QED
            BY <2>4, <3>5, <4>1, <5>1 DEF EntryFits
        <4> QED
          BY <2>0, <4>1, <4>2 DEF EntryFits
      <3>6. EntryFits(n, 1, claims', nextNonce')
        BY <1>1, <2>0, <2>3, <2>4 DEF EntryFits
      <3>7. Tenure(n, claims', nextNonce', halted')
        BY <2>0, <2>1, <3>4, <3>5, <3>6 DEF Tenure
      <3> QED
        BY <2>6, <3>1, <3>3, <3>7 DEF OwnFits
    <2> QED
      BY <1>4, <2>7, <2>8
  <1> QED
    BY <1>2, <1>3, <1>4

-----------------------------------------------------------------------------
(* How the accounts move, and who signs                                    *)

\* An account is made, allocates, takes back the last nonce it gave to a claim
\* that waits, or is aligned past every nonce it signed.
Moves(s) ==
    \/ nextNonce'[s] = nextNonce[s]
    \/ nextNonce[s] = NULL
    \/ nextNonce[s] \in Nat /\ nextNonce'[s] = nextNonce[s] + 1
    \/ \E c \in Claims : /\ claims[c].status = "queued" /\ claims[c].nonce \in Nat
                         /\ nextNonce[s] = claims[c].nonce + 1
                         /\ nextNonce'[s] = claims[c].nonce
    \/ /\ nextNonce'[s] \in Nat
       /\ \A c \in Claims : claims[c].signer = s => claims[c].nonce < nextNonce'[s]

\* A cancelled claim hands back the last nonce given.
LEMMA CancelMoves ==
    ASSUME OutboxTypeOK, NEW c \in Claims, CancelOk(c), CancelBody(c), NEW s \in Signers
    PROVE  Moves(s)
  <1>1. claims[c] \in ClaimRow /\ claims[c].status = "queued"
    BY DEF OutboxTypeOK, CancelOk
  <1>2. claims[c].nonce \in Nat \cup {NULL}
    BY <1>1 DEF ClaimRow
  <1>3. CASE claims[c].nonce # NULL /\ s \in LastAllocatedTo(c)
    <2>1. nextNonce[s] = claims[c].nonce + 1 /\ claims[c].nonce \in Nat
      BY <1>2, <1>3 DEF LastAllocatedTo
    <2>2. nextNonce'[s] = nextNonce[s] - 1
      BY <1>3 DEF CancelBody
    <2>3. nextNonce'[s] = claims[c].nonce
      BY <2>1, <2>2
    <2> QED
      BY <1>1, <2>1, <2>3 DEF Moves
  <1>4. CASE claims[c].nonce = NULL \/ s \notin LastAllocatedTo(c)
    BY <1>4 DEF CancelBody, Moves
  <1> QED
    BY <1>3, <1>4

\* Every call moves an account in one of these ways.
LEMMA AccountsMove ==
    ASSUME OutboxTypeOK, [OutboxStep(Nat)]_outboxVars, NEW s \in Signers
    PROVE  Moves(s)
  <1>1. nextNonce' = nextNonce => Moves(s)
    BY DEF Moves
  <1>2. ASSUME NEW h \in Holders, WorkerCall(h, Nat)
        PROVE  Moves(s)
    <2>1. ASSUME NEW t \in Signers, NEW n \in Nat, InitTreasuryAccount(h, t, n)
          PROVE  Moves(s)
      BY <2>1 DEF InitTreasuryAccount, Moves, OutboxTypeOK
    <2>2. ASSUME NEW c \in Claims, NEW t \in Signers, CancelBlocked(h, c, t)
          PROVE  Moves(s)
      BY <2>2, CancelMoves DEF CancelBlocked, CancelBlockedOk
    <2>3. ASSUME NEW c \in Claims, NEW t \in Signers, AssignClaimNonce(h, c, t)
          PROVE  Moves(s)
      <3>1. nextNonce[t] \in Nat
        BY <2>3 DEF AssignClaimNonce, AssignOk, AssignGuard, OutboxTypeOK
      <3>2. nextNonce' = nextNonce \/ nextNonce' = [nextNonce EXCEPT ![t] = nextNonce[t] + 1]
        BY <2>3 DEF AssignClaimNonce
      <3> QED
        BY <3>1, <3>2 DEF Moves, OutboxTypeOK
    <2>4. ASSUME \/ AcquirePayoutLease(h) \/ ReleasePayoutLease(h)
                 \/ \E t \in Signers : HaltTreasury(h, t)
                 \/ \E c \in Claims :
                      \/ \E t \in Signers, x \in Hashes :
                            RecordSignedClaim(h, c, claims[c].nonce, x, t)
                      \/ MarkClaimBroadcast(h, c) \/ RecordClaimAttempt(h, c)
                      \/ FlagClaimReview(h, c)
                      \/ \E x \in Hashes : \/ ConfirmClaim(h, c, x)
                                           \/ \E p \in Proofs : FailClaim(h, c, p, x)
          PROVE  nextNonce' = nextNonce
      BY <2>4
      DEF AcquirePayoutLease, ReleasePayoutLease, HaltTreasury, RecordSignedClaim,
          MarkClaimBroadcast, RecordClaimAttempt, FlagClaimReview, ConfirmClaim, FailClaim, treasury
    <2> QED
      BY <1>1, <1>2, <2>1, <2>2, <2>3, <2>4 DEF WorkerCall
  <1>3. ASSUME OperatorCall(Nat)
        PROVE  Moves(s)
    <2>1. ASSUME NEW c \in Claims, CancelQueuedClaim(c)
          PROVE  Moves(s)
      BY <2>1, CancelMoves DEF CancelQueuedClaim
    <2>2. ASSUME NEW t \in Signers, NEW n \in Nat, AlignNonce(t, n)
          PROVE  Moves(s)
      BY <2>2 DEF AlignNonce, Moves, OutboxTypeOK
    <2>3. ASSUME \/ \E c \in Claims : \/ ResolveFailed(c)
                                      \/ \E t \in Hashes : \/ ResolveConfirmed(c, t)
                                                           \/ \E k \in Kinds :
                                                                 RecordClaimOverride(c, t, k)
                 \/ \E t \in Signers : ResumePayouts(t)
                 \/ SetPayouts(~payouts)
                 \/ \E w \in Wallets : SetBlocked(blocked \cup {w}) \/ SetBlocked(blocked \ {w})
          PROVE  nextNonce' = nextNonce
      BY <2>3
      DEF ResolveFailed, ResolveConfirmed, RecordClaimOverride, ResumePayouts, SetPayouts,
          SetBlocked, treasury
    <2> QED
      BY <1>1, <1>3, <2>1, <2>2, <2>3 DEF OperatorCall
  <1>4. ASSUME \/ \E w \in Wallets : CreateRewardClaim(w)
               \/ \E k \in Credits : InsertCredit(k)
               \/ ExpireLease
               \/ UNCHANGED outboxVars
        PROVE  nextNonce' = nextNonce
    BY <1>4 DEF CreateRewardClaim, InsertCredit, ExpireLease, treasury, outboxVars
  <1> QED
    BY <1>1, <1>2, <1>3, <1>4 DEF OutboxStep

\* A claim gets a nonce by an update, which the unique index sees.
LEMMA NoncesStayDifferent ==
    ASSUME OutboxTypeOK, NoncesDiffer, [OutboxStep(Nat)]_outboxVars
    PROVE  NoncesDiffer'
  <1>1. claims' = claims => NoncesDiffer'
    BY DEF NoncesDiffer
  <1>2. ASSUME NEW c \in Claims, NEW row, Update(c, row)
        PROVE  NoncesDiffer'
    <2>1. /\ claims' = [claims EXCEPT ![c] = row] /\ claims \in [Claims -> ClaimRow]
          /\ NonceUnique(c, row.nonce)
      BY <1>2 DEF Update, OutboxTypeOK
    <2> QED
      BY <2>1 DEF NoncesDiffer, NonceUnique
  <1>3. ASSUME NEW w \in Wallets, CreateRewardClaim(w)
        PROVE  NoncesDiffer'
    <2> DEFINE row == [NoRow EXCEPT !.status = "queued", !.wallet = w, !.credits = Prefix(w)]
    <2>1. PICK c \in Claims : claims' = [claims EXCEPT ![c] = row]
      BY <1>3 DEF CreateRewardClaim
    <2>2. row.nonce = NULL
      BY DEF NoRow
    <2> HIDE DEF row
    <2> QED
      BY <2>1, <2>2 DEF NoncesDiffer, OutboxTypeOK
  <1>4. \/ claims' = claims
        \/ \E c \in Claims : \E row : Update(c, row)
        \/ \E w \in Wallets : CreateRewardClaim(w)
    <2>1. ASSUME NEW h \in Holders, WorkerCall(h, Nat)
          PROVE  claims' = claims \/ \E c \in Claims : \E row : Update(c, row)
      BY <2>1
      DEF WorkerCall, AcquirePayoutLease, ReleasePayoutLease, InitTreasuryAccount, HaltTreasury,
          CancelBlocked, CancelBody, AssignClaimNonce, RecordSignedClaim, MarkClaimBroadcast,
          RecordClaimAttempt, ConfirmClaim, FailClaim, FlagClaimReview
    <2>2. ASSUME OperatorCall(Nat)
          PROVE  claims' = claims \/ \E c \in Claims : \E row : Update(c, row)
      BY <2>2
      DEF OperatorCall, ResolveFailed, CancelQueuedClaim, CancelBody, ResolveConfirmed,
          RecordClaimOverride, ResumePayouts, AlignNonce, SetPayouts, SetBlocked
    <2>3. ExpireLease \/ UNCHANGED outboxVars => claims' = claims
      BY DEF ExpireLease, outboxVars
    <2>4. \A k \in Credits : InsertCredit(k) => claims' = claims
      BY DEF InsertCredit
    <2> QED
      BY <2>1, <2>2, <2>3, <2>4 DEF OutboxStep
  <1> QED
    BY <1>1, <1>2, <1>3, <1>4

\* Whatever is signed now is signed below its account.
Signs ==
    \A c \in Claims : \/ claims'[c].tx = claims[c].tx
                      \/ /\ claims'[c].signer \in Signers
                         /\ nextNonce'[claims'[c].signer] # NULL
                         /\ claims'[c].nonce < nextNonce'[claims'[c].signer]

\* Every step of a run leaves it with what is so.
LEMMA OwnStep ==
    ASSUME SpentInv, NoneVanishes, NEW r \in Holders, RunStep(r) \/ Abort(r) \/ Crash(r)
    PROVE  OwnFits(r) /\ Signs
  <1>0. NoneSigned => Signs
    BY DEF NoneSigned, Signs
  <1>1. CASE \/ Start(r) \/ Acquire(r) \/ Halt(r) \/ QueueDone(r) \/ ReleaseLease(r)
             \/ PreflightRefuses(r) \/ Abort(r) \/ Crash(r)
    BY <1>0, <1>1, EdgesFit
  <1>2. CASE Snapshot(r)
    BY <1>0, <1>2, SnapshotFits
  <1>3. CASE ReconcileRow(r) \/ CheckNonce(r) \/ Recheck(r) \/ ReadSwitch(r)
    BY <1>0, <1>3, ReadingFits
  <1>4. CASE Settle(r) \/ Mark(r) \/ Attempt(r)
    BY <1>0, <1>4, WritingFits
  <1>5. CASE Flag(r)
    BY <1>0, <1>5, FlagFits
  <1>6. CASE Broadcast(r) \/ Poll(r)
    BY <1>0, <1>6, SendingFits
  <1>7. CASE Reconciled(r) \/ Sanity(r) \/ Sanity2(r)
    BY <1>0, <1>7, CheckingFits
  <1>8. CASE InitAccount(r)
    BY <1>0, <1>8, InitFits
  <1>9. CASE Preflight(r)
    BY <1>0, <1>9, PreflightFits
  <1>10. CASE Assign(r)
    BY <1>0, <1>10, AssignFits
  <1>11. CASE Record(r)
    BY <1>11, RecordFits DEF Signs
  <1> QED
    BY <1>1, <1>2, <1>3, <1>4, <1>5, <1>6, <1>7, <1>8, <1>9, <1>10, <1>11 DEF RunStep

\* A step of a run is of that run only.
LEMMA OnlyOwnRun ==
    ASSUME NEW r \in Holders, RunStep(r) \/ Abort(r) \/ Crash(r)
    PROVE  \E m : Become(r, m)
  <1>1. CASE \/ Start(r) \/ Acquire(r) \/ Snapshot(r) \/ ReconcileRow(r) \/ CheckNonce(r)
             \/ Recheck(r) \/ ReadSwitch(r) \/ Reconciled(r) \/ Sanity(r) \/ Sanity2(r)
             \/ QueueDone(r) \/ Preflight(r) \/ PreflightRefuses(r) \/ Poll(r)
    BY <1>1
    DEF Start, Acquire, Snapshot, ReconcileRow, CheckNonce, Recheck, ReadSwitch, Reconciled,
        Sanity, Sanity2, QueueDone, Preflight, PreflightRefuses, Poll, Read, Goto
  <1>2. CASE Settle(r) \/ Flag(r) \/ Mark(r) \/ Attempt(r) \/ InitAccount(r) \/ Halt(r)
             \/ Assign(r) \/ Record(r)
    BY <1>2 DEF Settle, Flag, Mark, Attempt, InitAccount, Halt, Assign, Record, Write
  <1>3. CASE Broadcast(r) \/ ReleaseLease(r) \/ Abort(r) \/ Crash(r)
    BY <1>3 DEF Broadcast, ReleaseLease, Abort, Crash, Goto
  <1> QED
    BY <1>1, <1>2, <1>3 DEF RunStep

\* A run that is not at this step keeps what it read.
LEMMA OtherFits ==
    ASSUME SpentInv, NoneVanishes, NEW q \in Holders, run'[q] = run[q],
           LeaseHeld(q)' => LeaseHeld(q) /\ Calm /\ NoneHalts
    PROVE  OwnFits(q)
  <1>1. QueueFits(run[q], claims')
    BY FencedRun, StaysRead
  <1>2. ASSUME LeaseHeld(q)' PROVE Tenure(run[q], claims', nextNonce', halted')
    <2>1. run[q].pc \notin BeforeReading => run[q].key \in Signers
      BY FencedRun DEF Fits, BeforeReading
    <2>2. run[q].pc \in PayPhases => run[q].todo = <<>>
      BY FencedRun DEF Fits, PayPhases, IdlePhases, QueuePhases
    <2> QED
      BY <1>2, <2>1, <2>2, FencedRun, StaysHeld
  <1> QED
    BY <1>1, <1>2 DEF OwnFits

\* Every step of the pipeline keeps every run fenced.
LEMMA NextFenced ==
    ASSUME SpentInv, NoneVanishes, [Next]_vars
    PROVE  Signs /\ \A r \in Holders : OwnFits(r)
  <1>0. NoneSigned => Signs
    BY DEF NoneSigned, Signs
  <1>1. ASSUME NEW r \in Holders, RunStep(r) \/ Abort(r) \/ Crash(r)
        PROVE  Signs /\ \A q \in Holders : OwnFits(q)
    <2>1. OwnFits(r) /\ Signs
      BY <1>1, OwnStep
    <2>2. ASSUME NEW q \in Holders, q # r PROVE OwnFits(q)
      <3>1. run'[q] = run[q]
        BY <1>1, <2>2, OnlyOwnRun, FencedRun DEF Become
      <3>2. LeaseHeld(q)' => LeaseHeld(q) /\ Calm /\ NoneHalts
        BY <1>1, <2>2, OthersRead, QuietCalm
      <3> QED
        BY <3>1, <3>2, OtherFits
    <2> QED
      BY <2>1, <2>2
  <1>2. CASE WorldNext
    <2>1. Calm /\ NoneHalts /\ NoneSigned /\ UNCHANGED <<run, lease>>
      BY <1>2, WorldCalm DEF SpentInv
    <2> QED
      BY <1>0, <2>1, OtherFits DEF LeaseHeld
  <1>3. CASE ChainNext \/ UNCHANGED vars
    <2>1. UNCHANGED <<claims, nextNonce, halted, run, lease>>
      BY <1>3 DEF ChainNext, Mine, outboxVars, vars
    <2> QED
      BY <1>0, <2>1, QuietCalm, OtherFits DEF LeaseHeld
  <1>4. CASE LeaseRunsOut
    <2>1. UNCHANGED <<claims, nextNonce, halted, run>> /\ lease' = [lease EXCEPT !.live = FALSE]
      BY <1>4 DEF LeaseRunsOut, ExpireLease, treasury
    <2>2. lease'.live = FALSE
      BY <2>1 DEF SpentInv, WorkerInv, IInv, OutboxTypeOK
    <2>3. \A q \in Holders : ~LeaseHeld(q)'
      BY <2>2 DEF LeaseHeld
    <2> QED
      BY <1>0, <2>1, <2>3, QuietCalm, OtherFits
  <1> QED
    BY <1>1, <1>2, <1>3, <1>4 DEF Next, WorkerNext

\* The invariant is inductive.
LEMMA NextSpent ==
    ASSUME AnyHash, SpentInv, [Next]_vars
    PROVE  SpentInv'
  <1>1. WorkerInv /\ WorkerInv' /\ [OutboxStep(Nat)]_outboxVars
    BY NextUpheld DEF SpentInv
  <1>2. NoneVanishes
    BY <1>1, NoneGoes
  <1>3. Signs /\ \A r \in Holders : OwnFits(r)
    BY <1>2, NextFenced
  <1>4. NoncesDiffer'
    BY <1>1, NoncesStayDifferent DEF SpentInv, WorkerInv, IInv
  <1>5. Fenced'
    BY <1>3 DEF Fenced, OwnFits
  <1>6. SignedNoncesSpent'
    <2> SUFFICES ASSUME NEW c \in Claims, claims'[c].tx # NULL
                 PROVE  /\ nextNonce'[claims'[c].signer] # NULL
                        /\ claims'[c].nonce < nextNonce'[claims'[c].signer]
      BY DEF SignedNoncesSpent
    <2>1. CASE claims'[c].tx # claims[c].tx
      BY <1>3, <2>1 DEF Signs
    <2>2. CASE claims'[c].tx = claims[c].tx
      <3> DEFINE s == claims[c].signer
                 n == claims[c].nonce
      <3>1. /\ s \in Signers /\ n \in Nat /\ claims[c].tx \in Transfers(c, s, n)
            /\ claims[c].status # "queued"
        BY <1>1, <2>2 DEF WorkerInv, Money, RowsOK
      <3>2. claims'[c].tx \in Transfers(c, claims'[c].signer, claims'[c].nonce)
        BY <1>1 DEF WorkerInv, Money, RowsOK
      <3>3. claims'[c].signer = s /\ claims'[c].nonce = n
        BY <2>2, <3>1, <3>2 DEF Transfers, SignTransfer
      <3>4. nextNonce[s] # NULL /\ n < nextNonce[s]
        BY <2>2 DEF SpentInv, SignedNoncesSpent
      <3>5. OutboxTypeOK /\ NULL \notin Nat
        BY <1>1, OutboxAssumption DEF WorkerInv, IInv
      <3>6. nextNonce[s] \in Nat
        BY <3>1, <3>4, <3>5 DEF OutboxTypeOK
      <3>7. Moves(s)
        BY <1>1, <3>1, <3>5, AccountsMove
      <3>8. ASSUME NEW d \in Claims, claims[d].status = "queued", claims[d].nonce \in Nat,
                   nextNonce[s] = claims[d].nonce + 1
            PROVE  n < claims[d].nonce
        <4>1. claims[d].nonce # n
          BY <3>1, <3>5, <3>8 DEF SpentInv, NoncesDiffer
        <4> QED
          BY <3>1, <3>4, <3>8, <4>1
      <3>9. nextNonce'[s] # NULL /\ n < nextNonce'[s]
        <4> HIDE DEF n
        <4>1. CASE nextNonce'[s] = nextNonce[s]
          BY <3>4, <4>1
        <4>2. CASE nextNonce'[s] = nextNonce[s] + 1
          <5>1. nextNonce[s] + 1 \in Nat /\ n < nextNonce[s] + 1
            BY <3>1, <3>4, <3>6
          <5> QED
            BY <3>5, <4>2, <5>1
        <4>3. CASE \E d \in Claims : /\ claims[d].status = "queued" /\ claims[d].nonce \in Nat
                                     /\ nextNonce[s] = claims[d].nonce + 1
                                     /\ nextNonce'[s] = claims[d].nonce
          BY <3>5, <3>8, <4>3
        <4>4. CASE /\ nextNonce'[s] \in Nat
                   /\ \A d \in Claims : claims[d].signer = s => claims[d].nonce < nextNonce'[s]
          BY <3>5, <4>4 DEF n
        <4> QED
          BY <3>4, <3>7, <4>1, <4>2, <4>3, <4>4 DEF Moves
      <3> QED
        BY <3>3, <3>9
    <2> QED
      BY <2>1, <2>2
  <1> QED
    BY <1>1, <1>4, <1>5, <1>6 DEF SpentInv

\* Nothing is signed and nothing is read at the start.
LEMMA InitSpent ==
    ASSUME WorkerInit
    PROVE  SpentInv
  <1>1. \A c \in Claims : claims[c].nonce = NULL /\ claims[c].tx = NULL
    BY DEF WorkerInit, OutboxInit, NoRow
  <1>2. ASSUME NEW r \in Holders
        PROVE  QueueFits(run[r], claims) /\ Tenure(run[r], claims, nextNonce, halted)
    <2>1. run[r] = Idle
      BY DEF WorkerInit
    <2>2. run[r].pc \in BeforeReading /\ run[r].todo = <<>> /\ run[r].queue = <<>>
      BY <2>1, RestingReads DEF BeforeReading
    <2> QED
      BY <2>2, NothingRead
  <1>3. WorkerInv
    BY InitUpheld
  <1> QED
    BY <1>1, <1>2, <1>3 DEF SpentInv, NoncesDiffer, SignedNoncesSpent, Fenced

LEMMA SpentInvariance == AnyHash => (Spec => []SpentInv)
  <1> SUFFICES ASSUME AnyHash PROVE Spec => []SpentInv
    OBVIOUS
  <1>1. WorkerInit => SpentInv
    BY InitSpent
  <1>2. SpentInv /\ [Next]_vars => SpentInv'
    BY NextSpent
  <1> QED
    BY <1>1, <1>2, PTL DEF Spec

\* No nonce that signed bytes exist for is ever allocated again, to any claim
\* of the same treasury: through cancellations that hand a nonce back, a key
\* that was rotated, and corrections by the operator.
THEOREM SignedNoncesStaySpent == AnyHash => (Spec => []SignedNoncesSpent)
  <1> SUFFICES ASSUME AnyHash PROVE Spec => []SignedNoncesSpent
    OBVIOUS
  <1>1. SpentInv => SignedNoncesSpent
    BY DEF SpentInv
  <1> QED
    BY <1>1, SpentInvariance, PTL

\* The lease fences: as long as a run holds it, what the run read of its
\* account and of its queue, however many awaits ago, is still so; and no two
\* claims share a nonce (assert_payout_lease).
THEOREM LeasesFence == AnyHash => (Spec => [](Fenced /\ NoncesDiffer))
  <1> SUFFICES ASSUME AnyHash PROVE Spec => [](Fenced /\ NoncesDiffer)
    OBVIOUS
  <1>1. SpentInv => Fenced /\ NoncesDiffer
    BY DEF SpentInv
  <1> QED
    BY <1>1, SpentInvariance, PTL

-----------------------------------------------------------------------------
(* No false alarm: what a run may conclude from the chain                  *)

\* Nobody overrides a transaction by hand or rotates the key.  Either looks to
\* a run like a use of the key by somebody else.
Unaided == World \cap {"override", "rotate", "rotate_idle"} = {}

\* One key signs, and it is of the account that gives the nonces.
OneKey ==
    /\ \A c \in Claims : claims[c].tx # NULL => claims[c].signer = key
    /\ \A c \in Claims :
          claims[c].status = "queued" /\ claims[c].nonce # NULL => nextNonce[key] # NULL
    /\ \A r \in Holders : run[r].pc \notin {"idle", "release"} => run[r].key = key

\* Nodes have seen transfers only.
OnlyTransfers == \A t \in sent : t.kind = "claim"

\* Nobody else has used the key of s.
Clean(s) == \A m \in Receipts : m.tx.kind = "foreign" => m.tx.from # s

\* What used the nonce of a signed row; and whether that was somebody else.
Used(row, receipts) ==
    {m \in receipts : m.tx.from = row.signer /\ m.tx.nonce = row.nonce}
UsedByOthers(row, receipts) == \E m \in Used(row, receipts) : m.tx.kind = "foreign"

\* A run looks again when the nonce of its claim is used, and flags the claim
\* when somebody else has used it.
Suspects(m, rows, receipts) ==
    /\ m.pc = "recheck" => Used(rows[ClaimOf(m)], receipts) # {}
    /\ m.pc = "flag" => UsedByOthers(rows[ClaimOf(m)], receipts)

\* From the snapshot to the nonce check.
Counting(m) == m.todo # <<>> \/ m.pc \in {"reconcile", "init", "sanity", "sanity2"}

\* The account is no further than run m read; and not as far, once the claim
\* that waited with the last nonce has given it back.
Ahead(m, rows, next) ==
    IF m.next = NULL
    THEN \A i \in 1 .. Len(m.queue) : m.queue[i].nonce = NULL
    ELSE /\ next[m.key] \in Nat /\ next[m.key] <= m.next
         /\ \A i \in 1 .. Len(m.queue) :
               /\ m.queue[i].nonce # NULL /\ m.queue[i].nonce + 1 = m.next
               /\ rows[m.queue[i].claim].status # "queued"
               => next[m.key] < m.next

\* A run that holds the lease finds no fault with an account only it has used.
Watches(m, rows, next) ==
    /\ Counting(m) => Ahead(m, rows, next)
    /\ m.pc = "init" => m.next = NULL
    /\ m.pc # "halt"

Watchful ==
    \A r \in Holders :
        /\ Suspects(run[r], claims, Receipts)
        /\ LeaseHeld(r) /\ Clean(key) => Watches(run[r], claims, nextNonce)

AlarmInv == SpentInv /\ OneKey /\ OnlyTransfers /\ NoFalseAlarm /\ Watchful

\* What the invariant says of one run.
LEMMA AlarmRun ==
    ASSUME AlarmInv, NEW r \in Holders
    PROVE  /\ SpentInv /\ WorkerInv /\ IInv /\ OutboxTypeOK
           /\ RowsOK /\ SentOK /\ ChainOK /\ key \in Signers
           /\ run \in [Holders -> Runs] /\ run[r] \in Runs
           /\ Fits(run[r], claims, Receipts) /\ QueueFits(run[r], claims)
           /\ LeaseHeld(r) => Tenure(run[r], claims, nextNonce, halted)
           /\ run[r].pc \notin {"idle", "release"} => run[r].key = key
           /\ Suspects(run[r], claims, Receipts)
           /\ LeaseHeld(r) /\ Clean(key) => Watches(run[r], claims, nextNonce)
  <1>1. SpentInv
    BY DEF AlarmInv
  <1> QED
    BY <1>1, FencedRun DEF AlarmInv, OneKey, Watchful, WorkerInv, IInv, Money

\* An account only the system has used is not halted.
LEMMA CleanRuns ==
    ASSUME AlarmInv, NEW s \in Signers, Clean(s)
    PROVE  ~halted[s]
  BY DEF AlarmInv, NoFalseAlarm, Foreign, Clean

\* What is not somebody else's is the transfer of a signed claim.
LEMMA OwnReceipts ==
    ASSUME AlarmInv, NEW m \in Receipts, m.tx.kind # "foreign"
    PROVE  \E c \in Claims : /\ claims[c].tx # NULL /\ claims[c].tx = m.tx
                             /\ claims[c].signer = m.tx.from /\ claims[c].nonce = m.tx.nonce
  <1>1. RowsOK /\ SentOK /\ ChainOK
    BY DEF AlarmInv, SpentInv, WorkerInv, Money
  <1>2. m.tx \in sent /\ m.tx.kind = "claim"
    BY <1>1, ReceiptFacts DEF AlarmInv, OnlyTransfers
  <1>3. m.tx.claim \in Claims /\ claims[m.tx.claim].tx # NULL /\ m.tx = claims[m.tx.claim].tx
    BY <1>1, <1>2 DEF SentOK
  <1> QED
    BY <1>1, <1>3, SignedRow

\* A nonce the chain counts is of a receipt.
LEMMA CountedReceipt ==
    ASSUME ChainOK, NEW s \in Signers, NEW n \in Nat, n < LatestNonce(s)
    PROVE  \E m \in Receipts : m.tx.from = s /\ m.tx.nonce = n
  <1>1. mined[s] \in Seq(MinedTxs) /\ Len(mined[s]) \in Nat
    BY LenProperties DEF ChainOK
  <1>2. n + 1 \in 1 .. Len(mined[s])
    BY <1>1 DEF LatestNonce
  <1>3. mined[s][n + 1].tx.from = s /\ mined[s][n + 1].tx.nonce = (n + 1) - 1
    BY <1>2 DEF ChainOK
  <1>4. mined[s][n + 1] \in Receipts
    BY <1>2, ReceiptAt
  <1> QED
    BY <1>3, <1>4

\* A nonce the chain counts, of an account only the system has used, is of a
\* claim that was signed.
LEMMA CountedSigned ==
    ASSUME AlarmInv, NEW s \in Signers, Clean(s), NEW n \in Nat, n < LatestNonce(s)
    PROVE  \E c \in Claims : claims[c].tx # NULL /\ claims[c].signer = s /\ claims[c].nonce = n
  <1>1. ChainOK
    BY DEF AlarmInv, SpentInv, WorkerInv, Money
  <1>2. PICK m \in Receipts : m.tx.from = s /\ m.tx.nonce = n
    BY <1>1, CountedReceipt
  <1>3. m.tx.kind # "foreign"
    BY <1>2 DEF Clean
  <1> QED
    BY <1>2, <1>3, OwnReceipts

\* So the chain counts no more than was given.
LEMMA CountedGiven ==
    ASSUME AlarmInv, NEW s \in Signers, Clean(s), nextNonce[s] \in Nat
    PROVE  LatestNonce(s) <= nextNonce[s]
  <1>1. LatestNonce(s) \in Nat
    BY LatestType DEF AlarmInv, SpentInv
  <1> SUFFICES ASSUME LatestNonce(s) > nextNonce[s] PROVE FALSE
    BY <1>1
  <1>2. LatestNonce(s) - 1 \in Nat /\ LatestNonce(s) - 1 < LatestNonce(s)
    BY <1>1
  <1>3. PICK c \in Claims : /\ claims[c].tx # NULL /\ claims[c].signer = s
                            /\ claims[c].nonce = LatestNonce(s) - 1
    BY <1>2, CountedSigned
  <1>4. LatestNonce(s) - 1 < nextNonce[s]
    BY <1>3 DEF AlarmInv, SpentInv, SignedNoncesSpent
  <1> QED
    BY <1>1, <1>4

-----------------------------------------------------------------------------
(* What a step may do to the alarms                                        *)

\* Whatever is raised is raised for a use of the key by somebody else.
Founded ==
    /\ \A s \in Signers : halted'[s] => halted[s] \/ ~Clean(s)
    /\ \A c \in Claims : claims'[c].status = "needs_review" =>
          \/ claims[c].status = "needs_review"
          \/ claims[c].tx # NULL /\ UsedByOthers(claims[c], Receipts)

\* Whatever is signed, and whatever is given, is of the one key.
Keyed ==
    /\ \A c \in Claims : claims'[c].tx # NULL =>
          claims'[c].tx = claims[c].tx \/ claims'[c].signer = key
    /\ \A c \in Claims : claims'[c].status = "queued" /\ claims'[c].nonce # NULL =>
          \/ claims[c].status = "queued" /\ claims[c].nonce # NULL
          \/ nextNonce'[key] # NULL

\* An account gives nothing; what is handed back makes it that much shorter.
Steady(s) ==
    /\ \/ nextNonce'[s] = nextNonce[s]
       \/ nextNonce[s] \in Nat /\ nextNonce'[s] \in Nat /\ nextNonce'[s] < nextNonce[s]
    /\ \A c \in Claims :
          /\ claims[c].status = "queued" /\ claims'[c].status # "queued"
          /\ claims[c].nonce # NULL /\ nextNonce[s] = claims[c].nonce + 1
          => nextNonce'[s] = claims[c].nonce

\* The run after a step, its own or another's.
Watched(r) ==
    /\ Suspects(run'[r], claims', Receipts')
    /\ run'[r].pc \notin {"idle", "release"} => run'[r].key = key
    /\ LeaseHeld(r)' /\ Clean(key) => Watches(run'[r], claims', nextNonce')

\* A step of neither claims nor accounts.
LEMMA QuietAlarms ==
    ASSUME UNCHANGED <<claims, nextNonce, halted>>
    PROVE  Founded /\ Keyed /\ \A s \in Signers : Steady(s)
  BY DEF Founded, Keyed, Steady

\* A step that halts nothing and only moves claims that were signed, or keeps
\* those that wait.
LEMMA CalmAlarms ==
    ASSUME NoneHalts, NoneSigned,
           \A c \in Claims : claims'[c].status = "needs_review" => claims[c].status = "needs_review",
           \A c \in Claims : claims'[c].status = "queued" /\ claims'[c].nonce # NULL =>
                                claims[c].status = "queued" /\ claims[c].nonce # NULL
    PROVE  Founded /\ Keyed
  BY DEF Founded, Keyed, NoneHalts, NoneSigned

\* A signed claim's nonce stays used by what used it.
LEMMA UsedKept ==
    ASSUME NEW old, NEW new, KeptRow(old, new), old.tx # NULL,
           NEW receipts, NEW receipts2, receipts \subseteq receipts2
    PROVE  /\ Used(old, receipts) # {} => Used(new, receipts2) # {}
           /\ UsedByOthers(old, receipts) => UsedByOthers(new, receipts2)
  BY DEF KeptRow, Used, UsedByOthers

\* What a run suspects stays so.
LEMMA SuspectsKept ==
    ASSUME NEW m \in Runs, Fits(m, claims, Receipts), Suspects(m, claims, Receipts),
           RowsKept, Receipts \subseteq Receipts'
    PROVE  Suspects(m, claims', Receipts')
  <1> SUFFICES ASSUME m.pc \in {"recheck", "flag"} PROVE Suspects(m, claims', Receipts')
    BY DEF Suspects
  <1>1. m.todo # <<>> /\ m.todo \in Seq(TodoRows)
    BY DEF Fits, InFlightPhases, Runs
  <1>2. Head(m.todo) = m.todo[1] /\ 1 \in 1 .. Len(m.todo)
    BY <1>1, HeadTailProperties, LenProperties
  <1>3. claims[ClaimOf(m)].tx # NULL
    BY <1>1, <1>2 DEF Fits, TodoFits, ClaimOf
  <1>4. ClaimOf(m) \in Claims
    BY <1>1, ClaimOfType
  <1>5. KeptRow(claims[ClaimOf(m)], claims'[ClaimOf(m)])
    BY <1>4 DEF RowsKept
  <1> QED
    BY <1>3, <1>5, UsedKept DEF Suspects

\* A run is as far ahead as its account and its queue make it.
LEMMA AheadFields ==
    ASSUME NEW m, NEW n, NEW rows, NEW next, Ahead(m, rows, next),
           n.key = m.key, n.queue = m.queue, n.next = m.next
    PROVE  Ahead(n, rows, next)
  BY DEF Ahead

\* While the lease is held, the account only gets shorter.
LEMMA AheadKept ==
    ASSUME AlarmInv, NEW r \in Holders, LeaseHeld(r), Counting(run[r]),
           Ahead(run[r], claims, nextNonce), Steady(run[r].key)
    PROVE  Ahead(run[r], claims', nextNonce')
  <1> DEFINE m == run[r]
             s == m.key
  <1>1. /\ m \in Runs /\ QueueFits(m, claims) /\ Fits(m, claims, Receipts)
        /\ Tenure(m, claims, nextNonce, halted) /\ NULL \notin Nat
    BY AlarmRun, OutboxAssumption
  <1>2. m.pc # "record"
    BY <1>1 DEF Counting, Fits, QueuePhases
  <1> SUFFICES ASSUME m.next # NULL PROVE Ahead(m, claims', nextNonce')
    BY DEF Ahead
  <1>3. m.next \in Nat /\ nextNonce[s] \in Nat /\ nextNonce[s] <= m.next
    BY <1>1 DEF Ahead, Runs
  <1>4. nextNonce'[s] \in Nat /\ nextNonce'[s] <= nextNonce[s]
    BY <1>3 DEF Steady
  <1>5. ASSUME NEW i \in 1 .. Len(m.queue), m.queue[i].nonce # NULL, m.queue[i].nonce + 1 = m.next,
               claims'[m.queue[i].claim].status # "queued"
        PROVE  nextNonce'[s] < m.next
    <2> DEFINE c == m.queue[i].claim
    <2>1. c \in Claims /\ m.queue[i].nonce \in Nat
      BY <1>1, <1>5, EntryTypes
    <2>2. CASE claims[c].status # "queued"
      <3>1. nextNonce[s] < m.next
        BY <1>3, <1>5, <2>2 DEF Ahead
      <3> QED
        BY <1>3, <1>4, <3>1
    <2>3. CASE claims[c].status = "queued" /\ nextNonce[s] < m.next
      BY <1>3, <1>4, <2>3
    <2>4. CASE claims[c].status = "queued" /\ nextNonce[s] = m.next
      <3>1. claims[c].nonce = m.queue[i].nonce
        BY <1>1, <1>2, <2>4 DEF Tenure, EntryFits
      <3>2. nextNonce'[s] = claims[c].nonce
        BY <1>5, <2>1, <2>4, <3>1 DEF Steady
      <3> QED
        BY <1>3, <1>5, <2>1, <3>1, <3>2
    <2> QED
      BY <1>3, <2>2, <2>3, <2>4
  <1> HIDE DEF m
  <1>6. m.key = s
    BY DEF m
  <1> QED
    BY <1>3, <1>4, <1>5 DEF Ahead, m

\* A run that rests, or is about to read, suspects and counts nothing.
LEMMA RestWatched ==
    ASSUME AlarmInv, NEW r \in Holders, run'[r].pc \in BeforeReading, run'[r].todo = <<>>,
           run'[r].pc \notin {"idle", "release"} => run'[r].key = key
    PROVE  Watched(r)
  BY DEF Watched, Suspects, Watches, Counting, BeforeReading

LEMMA EndWatched ==
    ASSUME AlarmInv, NEW r \in Holders, Become(r, Idle) \/ Become(r, Stopped)
    PROVE  Watched(r)
  <1>1. run'[r] = Idle \/ run'[r] = Stopped
    BY AlarmRun DEF Become
  <1> QED
    BY <1>1, RestingReads, RestWatched DEF BeforeReading

\* A run that goes on counts on.
LEMMA GoesWatched ==
    ASSUME AlarmInv, NEW r \in Holders, NEW n, Become(r, n),
           LeaseHeld(r)' => LeaseHeld(r),
           Suspects(n, claims', Receipts'),
           run[r].pc \notin {"idle", "release"}, n.key = run[r].key,
           n.pc # "halt", n.pc = "init" => n.next = NULL,
           Counting(n) => /\ Counting(run[r]) /\ n.queue = run[r].queue /\ n.next = run[r].next
                          /\ Steady(run[r].key)
    PROVE  Watched(r)
  <1>1. run'[r] = n /\ n.key = key
    BY AlarmRun DEF Become
  <1>2. ASSUME LeaseHeld(r)', Clean(key), Counting(n)
        PROVE  Ahead(n, claims', nextNonce')
    <2>1. Ahead(run[r], claims, nextNonce)
      BY <1>2, AlarmRun DEF Watches
    <2>2. Ahead(run[r], claims', nextNonce')
      BY <1>2, <2>1, AheadKept
    <2> QED
      BY <1>2, <2>2, AheadFields
  <1> QED
    BY <1>1, <1>2 DEF Watched, Watches

\* A run that is not at this step.
LEMMA OtherWatched ==
    ASSUME AlarmInv, NEW q \in Holders, run'[q] = run[q], RowsKept, Receipts \subseteq Receipts',
           LeaseHeld(q)' => LeaseHeld(q) /\ (Clean(key) => Steady(key))
    PROVE  Watched(q)
  <1>1. Suspects(run[q], claims', Receipts')
    BY AlarmRun, SuspectsKept
  <1>2. ASSUME LeaseHeld(q)', Clean(key)
        PROVE  Watches(run[q], claims', nextNonce')
    <2>1. Watches(run[q], claims, nextNonce) /\ LeaseHeld(q)
      BY <1>2, AlarmRun
    <2>2. ASSUME Counting(run[q]) PROVE Ahead(run[q], claims', nextNonce')
      <3>1. run[q].key = key
        <4>1. run[q].pc \notin {"idle", "release"}
          BY <2>2, AlarmRun DEF Counting, QueueFits, BeforeReading
        <4> QED
          BY <4>1, AlarmRun
      <3> QED
        BY <1>2, <2>1, <2>2, <3>1, AheadKept DEF Watches
    <2> QED
      BY <2>1, <2>2 DEF Watches
  <1> QED
    BY <1>1, <1>2, AlarmRun DEF Watched

-----------------------------------------------------------------------------
(* What a run finds, and what it makes of it                               *)

\* No override to be misled by: the claim's own transfer has a receipt, or not.
LEMMA FindsOwn ==
    ASSUME AlarmInv, NEW r \in Holders, run[r].todo # <<>>,
           NEW f, f = FindReceipt(Head(run[r].todo))
    PROVE  /\ Claim(r) \in Claims /\ Claim(r) = Head(run[r].todo).claim
           /\ claims[Claim(r)].tx # NULL
           /\ f.kind # "mismatch"
           /\ f.kind = "none" => ~HasReceipt(claims[Claim(r)].tx)
  <1> DEFINE row == Head(run[r].todo)
             c == row.claim
             t == row.override
  <1>1. run[r].todo \in Seq(TodoRows) /\ TodoFits(run[r].todo, claims)
    BY AlarmRun DEF Runs, Fits
  <1>2. row \in TodoRows /\ 1 \in 1 .. Len(run[r].todo) /\ row = run[r].todo[1]
    BY <1>1, HeadTailProperties, LenProperties
  <1>3. c \in Claims /\ Claim(r) = c
    BY <1>2 DEF TodoRows, Claim
  <1>4. /\ claims[c].tx # NULL /\ row.tx = claims[c].tx
        /\ t # NULL => t = claims[c].override
    BY <1>1, <1>2 DEF TodoFits
  <1>5. t = NULL
    <2> SUFFICES ASSUME t # NULL PROVE FALSE
      OBVIOUS
    <2>1. t \in sent /\ t.kind = claims[c].kind /\ claims[c].kind \in Kinds
      BY <1>3, <1>4, AlarmRun DEF RowsOK
    <2>2. t.kind = "claim"
      BY <2>1 DEF AlarmInv, OnlyTransfers
    <2> QED
      BY <2>1, <2>2 DEF Kinds
  <1>6. f = IF HasReceipt(claims[c].tx) THEN Found("tx", claims[c].tx) ELSE Found("none", NULL)
    BY <1>4, <1>5 DEF FindReceipt
  <1> HIDE DEF c
  <1>7. f.kind # "mismatch" /\ (f.kind = "none" => ~HasReceipt(claims[c].tx))
    BY <1>6 DEF Found
  <1> QED
    BY <1>3, <1>4, <1>7 DEF c

\* A nonce that is used, and not by its claim, is used by somebody else.
LEMMA UnfoundIsOthers ==
    ASSUME AlarmInv, NEW c \in Claims, claims[c].tx # NULL,
           Used(claims[c], Receipts) # {}, ~HasReceipt(claims[c].tx)
    PROVE  UsedByOthers(claims[c], Receipts)
  <1>1. PICK m \in Receipts : m.tx.from = claims[c].signer /\ m.tx.nonce = claims[c].nonce
    BY DEF Used
  <1>2. NoncesDiffer /\ RowsOK /\ NULL \notin Nat
    BY OutboxAssumption DEF AlarmInv, SpentInv, WorkerInv, Money
  <1>3. claims[c].nonce \in Nat
    BY <1>2, SignedRow
  <1>4. CASE m.tx.kind = "foreign"
    BY <1>1, <1>4 DEF Used, UsedByOthers
  <1>5. CASE m.tx.kind # "foreign"
    <2>1. PICK d \in Claims : claims[d].tx = m.tx /\ claims[d].nonce = claims[c].nonce
      BY <1>1, <1>5, OwnReceipts
    <2>2. d = c
      BY <1>2, <1>3, <2>1 DEF NoncesDiffer
    <2> QED
      BY <2>1, <2>2 DEF HasReceipt
  <1> QED
    BY <1>4, <1>5

\* A step that reads: the tables and the chain are as they were.
LEMMA ReadWatched ==
    ASSUME AlarmInv, NEW r \in Holders, NEW n, Become(r, n), UNCHANGED <<outboxVars, mined>>,
           Suspects(n, claims, Receipts),
           run[r].pc \notin {"idle", "release"}, n.key = run[r].key,
           n.pc # "halt", n.pc = "init" => n.next = NULL,
           Counting(n) => Counting(run[r]) /\ n.queue = run[r].queue /\ n.next = run[r].next
    PROVE  Watched(r) /\ Founded /\ Keyed
  <1>1. UNCHANGED <<claims, nextNonce, halted, lease, mined>>
    BY DEF outboxVars
  <1>2. Receipts' = Receipts
    BY <1>1 DEF Receipts
  <1>3. run[r].key \in Signers
    BY AlarmRun
  <1>4. Suspects(n, claims', Receipts')
    BY <1>1, <1>2
  <1>5. Founded /\ Keyed /\ Steady(run[r].key)
    BY <1>1, <1>3, QuietAlarms
  <1>6. LeaseHeld(r)' => LeaseHeld(r)
    BY <1>1 DEF LeaseHeld
  <1> QED
    BY <1>4, <1>5, <1>6, GoesWatched

\* Reading, for a row in flight.
LEMMA ReadingWatched ==
    ASSUME AlarmInv, NEW r \in Holders,
           ReconcileRow(r) \/ CheckNonce(r) \/ Recheck(r) \/ ReadSwitch(r)
    PROVE  Watched(r) /\ Founded /\ Keyed
  <1> DEFINE m == run[r]
             c == Claim(r)
             f == FindReceipt(Head(m.todo))
  <1>0. /\ m \in Runs /\ m.todo # <<>> /\ m.pc \in {"reconcile", "nonce", "recheck", "switch"}
        /\ m.key = key /\ key \in Signers /\ ChainOK /\ RowsOK
        /\ Suspects(m, claims, Receipts)
    BY AlarmRun DEF ReconcileRow, CheckNonce, Recheck, ReadSwitch, Fits, InFlightPhases
  <1>1. /\ c \in Claims /\ claims[c].tx # NULL /\ c = Head(m.todo).claim
        /\ f.kind # "mismatch" /\ (f.kind = "none" => ~HasReceipt(claims[c].tx))
    BY <1>0, FindsOwn
  <1>2. claims[c].signer = key /\ claims[c].nonce \in Nat
    BY <1>0, <1>1, SignedRow DEF AlarmInv, OneKey
  <1>3. UNCHANGED <<outboxVars, mined>>
    BY DEF ReconcileRow, CheckNonce, Recheck, ReadSwitch, Read, chainVars
  <1> HIDE DEF f
  <1>4. ASSUME NEW n, Become(r, n), n.key = m.key, n.queue = m.queue, n.next = m.next,
               \/ n.pc \in {"flag", "nonce", "settle", "switch", "recheck", "broadcast"}
                  /\ n.todo = m.todo
               \/ n.pc = "reconcile",
               n.pc = "recheck" => Used(claims[c], Receipts) # {},
               n.pc = "flag" => UsedByOthers(claims[c], Receipts)
        PROVE  Watched(r) /\ Founded /\ Keyed
    <2>1. n.pc \in {"recheck", "flag"} => ClaimOf(n) = c
      BY <1>0, <1>1, <1>4 DEF ClaimOf
    <2>2. Suspects(n, claims, Receipts)
      BY <1>4, <2>1 DEF Suspects
    <2>3. Counting(m)
      BY <1>0 DEF Counting
    <2> QED
      BY <1>0, <1>3, <1>4, <2>2, <2>3, ReadWatched
  <1>5. ASSUME NEW pc \in {"flag", "nonce", "switch", "recheck", "broadcast"},
               Become(r, [m EXCEPT !.pc = pc]),
               pc = "recheck" => Used(claims[c], Receipts) # {},
               pc = "flag" => UsedByOthers(claims[c], Receipts)
        PROVE  Watched(r) /\ Founded /\ Keyed
    <2> DEFINE n == [m EXCEPT !.pc = pc]
    <2>1. /\ n.key = m.key /\ n.queue = m.queue /\ n.next = m.next
          /\ n.todo = m.todo /\ n.pc = pc
      BY <1>0 DEF Runs
    <2> HIDE DEF n
    <2> QED
      BY <1>4, <1>5, <2>1 DEF n
  <1>6. ASSUME Become(r, [m EXCEPT !.pc = "settle", !.found = f])
        PROVE  Watched(r) /\ Founded /\ Keyed
    <2> DEFINE n == [m EXCEPT !.pc = "settle", !.found = f]
    <2>1. /\ n.key = m.key /\ n.queue = m.queue /\ n.next = m.next
          /\ n.todo = m.todo /\ n.pc = "settle"
      BY <1>0 DEF Runs
    <2> HIDE DEF n
    <2> QED
      BY <1>4, <1>6, <2>1 DEF n
  <1>7. CASE ReconcileRow(r)
    <2>1. Row(r).signer = m.key
      BY <1>0, <1>2 DEF Row
    <2>2. \/ Become(r, Decide(r, f, "nonce")) \/ Become(r, [m EXCEPT !.pc = "nonce"])
      BY <1>7, <2>1 DEF ReconcileRow, Goto, f
    <2>3. \/ Become(r, [m EXCEPT !.pc = "nonce"])
          \/ Become(r, [m EXCEPT !.pc = "settle", !.found = f])
      BY <1>1, <2>2 DEF Decide
    <2> QED
      BY <1>5, <1>6, <2>3
  <1>8. CASE CheckNonce(r)
    <2>1. LatestNonce(m.key) \in Nat
      BY <1>0, AlarmRun, LatestType
    <2>2. CASE LatestNonce(m.key) <= Row(r).nonce
      BY <1>5, <1>8, <2>2 DEF CheckNonce, Read
    <2>3. CASE ~(LatestNonce(m.key) <= Row(r).nonce)
      <3>1. claims[c].nonce < LatestNonce(key)
        BY <1>0, <1>2, <2>1, <2>3 DEF Row
      <3>2. Used(claims[c], Receipts) # {}
        BY <1>0, <1>2, <3>1, CountedReceipt DEF Used
      <3> QED
        BY <1>5, <1>8, <2>3, <3>2 DEF CheckNonce, Read
    <2> QED
      BY <2>2, <2>3
  <1>9. CASE Recheck(r)
    <2>1. Become(r, Decide(r, f, "flag")) /\ m.pc = "recheck"
      BY <1>9 DEF Recheck, Read, f
    <2>2. \/ f.kind = "none" /\ Become(r, [m EXCEPT !.pc = "flag"])
          \/ Become(r, [m EXCEPT !.pc = "settle", !.found = f])
      BY <1>1, <2>1 DEF Decide
    <2>3. ClaimOf(m) = c
      BY <1>0, <1>1 DEF ClaimOf
    <2>4. Used(claims[c], Receipts) # {}
      BY <1>0, <2>1, <2>3 DEF Suspects
    <2>5. f.kind = "none" => UsedByOthers(claims[c], Receipts)
      BY <1>1, <2>4, UnfoundIsOthers
    <2> QED
      BY <1>5, <1>6, <2>2, <2>5
  <1>10. CASE ReadSwitch(r)
    <2> DEFINE b == [m EXCEPT !.pc = "broadcast", !.enabled = payouts]
               a == Advance(r, TRUE)
               n == [a EXCEPT !.enabled = payouts]
    <2>1. /\ b.key = m.key /\ b.queue = m.queue /\ b.next = m.next
          /\ b.todo = m.todo /\ b.pc = "broadcast"
      BY <1>0 DEF Runs
    <2>2. /\ a.key = m.key /\ a.queue = m.queue /\ a.next = m.next /\ a.pc = "reconcile"
      BY <1>0, AdvanceFields
    <2>3. m.todo # <<>> /\ m.pc \notin {"idle", "release"}
      BY <1>0
    <2>4. a \in Runs
      BY <2>3, AlarmRun, AdvanceFits
    <2> HIDE DEF a, b
    <2>5. /\ n.key = m.key /\ n.queue = m.queue /\ n.next = m.next /\ n.pc = "reconcile"
      BY <2>2, <2>4 DEF Runs
    <2> HIDE DEF n
    <2>6. Become(r, b) \/ Become(r, n)
      BY <1>10 DEF ReadSwitch, Read, a, b, n
    <2> QED
      BY <1>4, <2>1, <2>5, <2>6
  <1> QED
    BY <1>7, <1>8, <1>9, <1>10

\* Starting, up to the lease; and ending.
LEMMA EdgesWatched ==
    ASSUME AlarmInv, NEW r \in Holders,
           \/ Start(r) \/ Acquire(r) \/ Halt(r) \/ QueueDone(r) \/ ReleaseLease(r)
           \/ PreflightRefuses(r) \/ Abort(r) \/ Crash(r)
    PROVE  Watched(r) /\ Founded /\ Keyed
  <1> DEFINE m == run[r]
  <1>0. m \in Runs
    BY AlarmRun
  <1>1. CASE Start(r)
    <2> DEFINE n == [Idle EXCEPT !.pc = "acquire", !.key = key, !.enabled = payouts]
    <2>1. n.pc = "acquire" /\ n.key = key /\ n.todo = <<>>
      BY DEF Idle
    <2>2. Become(r, n) /\ UNCHANGED <<claims, nextNonce, halted>>
      BY <1>1 DEF Start, Read, outboxVars
    <2> HIDE DEF n
    <2>3. run'[r] = n
      BY <2>2, AlarmRun DEF Become
    <2> QED
      BY <2>1, <2>2, <2>3, RestWatched, QuietAlarms DEF BeforeReading
  <1>2. CASE Acquire(r)
    <2> DEFINE n == [m EXCEPT !.pc = "snapshot"]
    <2>1. /\ m.pc = "acquire" /\ UNCHANGED <<claims, nextNonce, halted>>
          /\ Become(r, n) \/ Become(r, Idle)
      BY <1>2 DEF Acquire, AcquirePayoutLease, Goto, outboxVars, treasury
    <2>2. m.todo = <<>> /\ m.key = key
      BY <2>1, AlarmRun DEF QueueFits, BeforeReading
    <2>3. n.pc = "snapshot" /\ n.key = m.key /\ n.todo = m.todo
      BY <1>0 DEF Runs
    <2> HIDE DEF n
    <2>4. Become(r, n) => run'[r] = n
      BY AlarmRun DEF Become
    <2>5. Become(r, n) => Watched(r)
      BY <2>2, <2>3, <2>4, RestWatched DEF BeforeReading
    <2> QED
      BY <2>1, <2>5, EndWatched, QuietAlarms
  <1>3. CASE Halt(r)
    <2>1. m.pc = "halt" /\ Become(r, Stopped) /\ claims' = claims
      BY <1>3 DEF Halt, Write, HaltTreasury, outboxVars
    <2>2. m.key = key
      BY <2>1, AlarmRun
    <2>3. halted' = halted \/ (LeaseHeld(r) /\ halted' = [halted EXCEPT ![key] = TRUE])
      BY <1>3, <2>2 DEF Halt, Write, HaltTreasury, HaltOk, outboxVars
    <2>4. LeaseHeld(r) => ~Clean(key)
      BY <2>1, AlarmRun DEF Watches
    <2>5. halted \in [Signers -> BOOLEAN]
      BY AlarmRun DEF OutboxTypeOK
    <2>6. Founded /\ Keyed
      BY <2>1, <2>3, <2>4, <2>5 DEF Founded, Keyed
    <2> QED
      BY <2>1, <2>6, EndWatched
  <1>4. CASE QueueDone(r) \/ PreflightRefuses(r) \/ ReleaseLease(r) \/ Abort(r) \/ Crash(r)
    <2>1. UNCHANGED <<claims, nextNonce, halted>> /\ (Become(r, Stopped) \/ Become(r, Idle))
      BY <1>4 DEF QueueDone, PreflightRefuses, ReleaseLease, Abort, Crash, Read,
                  ReleasePayoutLease, treasury,
                  outboxVars
    <2> QED
      BY <2>1, EndWatched, QuietAlarms
  <1> QED
    BY <1>1, <1>2, <1>3, <1>4

\* What the snapshot says of the account is so when it is taken.
LEMMA SnapshotWatched ==
    ASSUME AlarmInv, NEW r \in Holders, Snapshot(r)
    PROVE  Watched(r) /\ Founded /\ Keyed
  <1>1. PICK todo \in SnapInFlight, queue \in SnapQueued :
          Read(r, [run[r] EXCEPT
              !.pc = "reconcile",
              !.todo = todo,
              !.queue = queue,
              !.next = nextNonce[run[r].key],
              !.halted = halted[run[r].key],
              !.review = \E c \in Claims : claims[c].status = "needs_review"])
    BY DEF Snapshot
  <1> DEFINE next == nextNonce[run[r].key]
             on == halted[run[r].key]
             review == \E c \in Claims : claims[c].status = "needs_review"
             n == [run[r] EXCEPT !.pc = "reconcile", !.todo = todo, !.queue = queue,
                                 !.next = next, !.halted = on, !.review = review]
  <1>2. Become(r, n) /\ UNCHANGED <<claims, nextNonce, halted>>
    BY <1>1 DEF Read, outboxVars
  <1>3. run[r].key = key /\ key \in Signers
    BY AlarmRun DEF Snapshot
  <1>4. next = nextNonce[key]
    BY <1>3
  <1> HIDE DEF next, on, review
  <1>5. n.pc = "reconcile" /\ n.queue = queue /\ n.next = next /\ n.key = key
    BY <1>3, AlarmRun DEF Runs
  <1> HIDE DEF n
  <1>6. \A i \in 1 .. Len(queue) :
           /\ queue[i].claim \in Claims /\ claims[queue[i].claim].status = "queued"
           /\ queue[i].nonce = claims[queue[i].claim].nonce
    BY SnapshotQueue DEF AlarmInv
  <1>7. Ahead(n, claims, nextNonce)
    <2>1. CASE next = NULL
      BY <1>4, <1>5, <1>6, <2>1 DEF Ahead, AlarmInv, OneKey
    <2>2. CASE next # NULL
      <3>1. next \in Nat
        BY <1>3, <1>4, <2>2, AlarmRun DEF OutboxTypeOK
      <3> QED
        BY <1>4, <1>5, <1>6, <2>2, <3>1 DEF Ahead
    <2> QED
      BY <2>1, <2>2
  <1>8. run'[r] = n
    BY <1>2, AlarmRun DEF Become
  <1>9. Watched(r)
    BY <1>2, <1>5, <1>7, <1>8 DEF Watched, Suspects, Watches
  <1> QED
    BY <1>2, <1>9, QuietAlarms

-----------------------------------------------------------------------------
(* Writing, and paying                                                     *)

\* The calls on a claim in flight leave alone whatever waits.
LEMMA CallsSteady ==
    ASSUME IInv, NEW c \in Claims, NEW r \in Holders, NEW t, NEW p \in Proofs,
           \/ MarkClaimBroadcast(r, c) \/ RecordClaimAttempt(r, c) \/ FlagClaimReview(r, c)
           \/ ConfirmClaim(r, c, t) \/ FailClaim(r, c, p, t)
    PROVE  /\ \A s \in Signers : Steady(s)
           /\ \A d \in Claims : claims[d].status = "queued" \/ claims'[d].status = "queued"
                                   => claims'[d] = claims[d]
           /\ lease' = lease
  <1>1. claims[c] \in ClaimRow /\ claims \in [Claims -> ClaimRow]
    BY RowType DEF IInv, OutboxTypeOK
  <1>2. UNCHANGED <<nextNonce, lease>>
    BY DEF MarkClaimBroadcast, RecordClaimAttempt, ConfirmClaim, FailClaim, FlagClaimReview, treasury
  <1>3. \E row : /\ Update(c, row)
                 /\ row # claims[c] => claims[c].status # "queued" /\ row.status # "queued"
    <2>1. CASE MarkClaimBroadcast(r, c)
      BY <1>1, <2>1 DEF MarkClaimBroadcast, MarkOk, ClaimRow, InFlight
    <2>2. CASE RecordClaimAttempt(r, c)
      BY <2>2 DEF RecordClaimAttempt
    <2>3. CASE ConfirmClaim(r, c, t)
      BY <1>1, <2>3 DEF ConfirmClaim, ConfirmOk, ClaimRow, InFlight
    <2>4. CASE FailClaim(r, c, p, t)
      <3> DEFINE row == [claims[c] EXCEPT !.status = "failed", !.proof = p]
      <3>1. row.status = "failed"
        BY <1>1 DEF ClaimRow
      <3>2. Update(c, row) /\ claims[c].status # "queued"
        BY <2>4 DEF FailClaim, FailOk, InFlight
      <3> HIDE DEF row
      <3> QED
        BY <3>1, <3>2
    <2>5. CASE FlagClaimReview(r, c)
      BY <1>1, <2>5 DEF FlagClaimReview, FlagOk, ClaimRow, InFlight
    <2> QED
      BY <2>1, <2>2, <2>3, <2>4, <2>5
  <1>4. PICK row : /\ claims' = [claims EXCEPT ![c] = row]
                   /\ row # claims[c] => claims[c].status # "queued" /\ row.status # "queued"
    BY <1>3 DEF Update
  <1>5. claims'[c] = row /\ \A d \in Claims : d # c => claims'[d] = claims[d]
    BY <1>1, <1>4
  <1>6. \A d \in Claims : claims[d].status = "queued" \/ claims'[d].status = "queued"
                             => claims'[d] = claims[d]
    BY <1>4, <1>5
  <1>7. ASSUME NEW s \in Signers PROVE Steady(s)
    BY <1>2, <1>6 DEF Steady
  <1> QED
    BY <1>2, <1>6, <1>7

\* Only one of the calls flags a claim.
LEMMA NoneFlagged ==
    ASSUME IInv, NEW c \in Claims, NEW r \in Holders, NEW t, NEW p \in Proofs,
           \/ MarkClaimBroadcast(r, c) \/ RecordClaimAttempt(r, c)
           \/ ConfirmClaim(r, c, t) \/ FailClaim(r, c, p, t)
    PROVE  \A d \in Claims : claims'[d].status = "needs_review" => claims[d].status = "needs_review"
  <1>1. claims[c] \in ClaimRow /\ claims \in [Claims -> ClaimRow]
    BY RowType DEF IInv, OutboxTypeOK
  <1>2. \E row : /\ Update(c, row)
                 /\ row.status = "needs_review" => claims[c].status = "needs_review"
    <2>1. CASE MarkClaimBroadcast(r, c)
      BY <1>1, <2>1 DEF MarkClaimBroadcast, ClaimRow
    <2>2. CASE RecordClaimAttempt(r, c)
      BY <2>2 DEF RecordClaimAttempt
    <2>3. CASE ConfirmClaim(r, c, t)
      BY <1>1, <2>3 DEF ConfirmClaim, ClaimRow
    <2>4. CASE FailClaim(r, c, p, t)
      <3> DEFINE row == [claims[c] EXCEPT !.status = "failed", !.proof = p]
      <3>1. row.status = "failed"
        BY <1>1 DEF ClaimRow
      <3>2. Update(c, row)
        BY <2>4 DEF FailClaim
      <3> HIDE DEF row
      <3> QED
        BY <3>1, <3>2
    <2> QED
      BY <2>1, <2>2, <2>3, <2>4
  <1> QED
    BY <1>1, <1>2 DEF Update

\* After a call: on to the next row, or the next of the queue.
LEMMA AdvanceWatched ==
    ASSUME AlarmInv, NEW r \in Holders, NEW b \in BOOLEAN, NEW n, Become(r, n),
           n.pc = Advance(r, b).pc, n.key = run[r].key, n.queue = Advance(r, b).queue,
           n.todo = Advance(r, b).todo, n.next = run[r].next,
           run[r].pc \notin {"idle", "release"},
           LeaseHeld(r)' => LeaseHeld(r), Steady(run[r].key)
    PROVE  Watched(r)
  <1> DEFINE m == run[r]
             a == Advance(r, b)
  <1>0. m \in Runs
    BY AlarmRun
  <1>1. /\ m.todo # <<>> => a.pc = "reconcile" /\ a.queue = m.queue
        /\ m.todo = <<>> => a.pc = "pay" /\ a.todo = <<>>
    <2>1. /\ m.todo # <<>> => a.pc = "reconcile" /\ a.queue = m.queue
          /\ m.todo = <<>> => a.pc = "pay"
      BY <1>0, AdvanceFields
    <2>2. m.todo = <<>> => a.todo = <<>>
      BY <1>0 DEF Advance, Runs
    <2> QED
      BY <2>1, <2>2
  <1> HIDE DEF a
  <1>2. Suspects(n, claims', Receipts')
    BY <1>1 DEF Suspects, a
  <1>3. Counting(n) => Counting(m) /\ n.queue = m.queue /\ n.next = m.next
    BY <1>1 DEF Counting, a
  <1>4. n.pc # "halt" /\ n.pc # "init"
    BY <1>1 DEF a
  <1> HIDE DEF m
  <1> QED
    BY <1>2, <1>3, <1>4, GoesWatched DEF m

\* Writing what was found, and sending.
LEMMA WritingWatched ==
    ASSUME AlarmInv, NEW r \in Holders, Settle(r) \/ Mark(r) \/ Attempt(r)
    PROVE  Watched(r) /\ Founded /\ Keyed
  <1> DEFINE m == run[r]
             c == Claim(r)
             k == [m EXCEPT !.pc = "poll"]
  <1>0. /\ m \in Runs /\ m.pc \in {"settle", "mark", "attempt"} /\ m.key \in Signers
        /\ m.todo # <<>> \/ m.queue # <<>>
        /\ c \in Claims /\ IInv
    <2>1. /\ m \in Runs /\ m.pc \in {"settle", "mark", "attempt"} /\ Fits(m, claims, Receipts)
          /\ WorkerInv /\ IInv
      BY AlarmRun DEF Settle, Mark, Attempt
    <2>2. (m.todo # <<>> \/ m.queue # <<>>) /\ m.key \in Signers
      BY <2>1 DEF Fits, SendPhases
    <2>3. c \in Claims
      BY <2>1, <2>2, RunType, ClaimOfType
    <2> QED
      BY <2>1, <2>2, <2>3
  <1>1. \/ UNCHANGED outboxVars /\ Become(r, Stopped)
        \/ /\ \/ Become(r, Stopped)
              \/ \E b \in BOOLEAN : Become(r, Advance(r, b))
              \/ m.pc = "mark" /\ m.todo = <<>> /\ Become(r, k)
           /\ \/ MarkClaimBroadcast(r, c) \/ RecordClaimAttempt(r, c)
              \/ \E t : ConfirmClaim(r, c, t) \/ \E p \in Proofs : FailClaim(r, c, p, t)
    <2>1. CASE Settle(r)
      BY <2>1 DEF Settle, Write, Proofs
    <2>2. CASE Mark(r)
      BY <2>2 DEF Mark, Write
    <2>3. CASE Attempt(r)
      BY <2>3 DEF Attempt, Write
    <2> QED
      BY <2>1, <2>2, <2>3
  <1>2. ASSUME UNCHANGED outboxVars, Become(r, Stopped)
        PROVE  Watched(r) /\ Founded /\ Keyed
    BY <1>2, EndWatched, QuietAlarms DEF outboxVars
  <1>3. k.pc = "poll" /\ k.key = m.key /\ k.todo = m.todo
    BY <1>0 DEF Runs
  <1> HIDE DEF k, c
  <1>4. ASSUME NEW t, NEW p \in Proofs,
               \/ Become(r, Stopped)
               \/ \E b \in BOOLEAN : Become(r, Advance(r, b))
               \/ m.pc = "mark" /\ m.todo = <<>> /\ Become(r, k),
               \/ MarkClaimBroadcast(r, c) \/ RecordClaimAttempt(r, c)
               \/ ConfirmClaim(r, c, t) \/ FailClaim(r, c, p, t)
        PROVE  Watched(r) /\ Founded /\ Keyed
    <2>1. /\ \A s \in Signers : Steady(s)
          /\ \A d \in Claims : claims'[d].status = "queued" => claims'[d] = claims[d]
          /\ lease' = lease
      BY <1>0, <1>4, CallsSteady
    <2>2. NoneHalts /\ NoneSigned
      BY <1>0, <1>4, FollowCalm
    <2>3. \A d \in Claims : claims'[d].status = "needs_review" => claims[d].status = "needs_review"
      BY <1>0, <1>4, NoneFlagged
    <2>4. Founded /\ Keyed
      BY <2>1, <2>2, <2>3, CalmAlarms
    <2>5. Steady(m.key) /\ (LeaseHeld(r)' => LeaseHeld(r))
      BY <1>0, <2>1 DEF LeaseHeld
    <2>6. m.pc \notin {"idle", "release"}
      BY <1>0
    <2>7. ASSUME NEW b \in BOOLEAN, Become(r, Advance(r, b)) PROVE Watched(r)
      <3> DEFINE a == Advance(r, b)
      <3>1. a.key = m.key /\ a.next = m.next
        BY <1>0, AdvanceFields
      <3> HIDE DEF a
      <3> QED
        BY <2>5, <2>6, <2>7, <3>1, AdvanceWatched DEF a
    <2>8. ASSUME m.todo = <<>>, Become(r, k) PROVE Watched(r)
      <3>1. Suspects(k, claims', Receipts') /\ ~Counting(k)
        BY <1>3, <2>8 DEF Suspects, Counting
      <3> QED
        BY <1>3, <2>5, <2>6, <2>8, <3>1, GoesWatched
    <2> QED
      BY <1>4, <2>4, <2>7, <2>8, EndWatched
  <1>5. "receipt_reverted" \in Proofs
    BY DEF Proofs
  <1> QED
    BY <1>1, <1>2, <1>4, <1>5

\* A claim is flagged for what a run has found out.
LEMMA FlagWatched ==
    ASSUME AlarmInv, NEW r \in Holders, Flag(r)
    PROVE  Watched(r) /\ Founded /\ Keyed
  <1> DEFINE m == run[r]
             c == Claim(r)
             a == Advance(r, FALSE)
             n == [a EXCEPT !.halted = TRUE]
  <1>0. /\ m \in Runs /\ m.pc = "flag" /\ m.todo # <<>> /\ c \in Claims /\ c = ClaimOf(m)
        /\ m.key = key /\ key \in Signers /\ IInv /\ WorkerInv
        /\ UsedByOthers(claims[c], Receipts)
    <2>1. /\ m \in Runs /\ m.pc = "flag" /\ Fits(m, claims, Receipts) /\ WorkerInv /\ IInv
          /\ Suspects(m, claims, Receipts) /\ m.key = key /\ key \in Signers
      BY AlarmRun DEF Flag
    <2>2. m.todo # <<>>
      BY <2>1 DEF Fits, InFlightPhases
    <2>3. c = ClaimOf(m) /\ c \in Claims
      BY <2>1, <2>2, RunType, ClaimOfType
    <2> QED
      BY <2>1, <2>2, <2>3 DEF Suspects
  <1>1. \/ UNCHANGED outboxVars /\ Become(r, Stopped)
        \/ FlagClaimReview(r, c) /\ (Become(r, n) \/ Become(r, Stopped))
    BY DEF Flag, Write
  <1>2. ASSUME UNCHANGED outboxVars, Become(r, Stopped)
        PROVE  Watched(r) /\ Founded /\ Keyed
    BY <1>2, EndWatched, QuietAlarms DEF outboxVars
  <1>3. ASSUME FlagClaimReview(r, c), Become(r, n) \/ Become(r, Stopped)
        PROVE  Watched(r) /\ Founded /\ Keyed
    <2>1. NoneSigned /\ UNCHANGED <<nextNonce, lease>>
      BY <1>0, <1>3, FlagCalm
    <2>2. "receipt_reverted" \in Proofs
      BY DEF Proofs
    <2>3. /\ \A s \in Signers : Steady(s)
          /\ \A d \in Claims : claims'[d].status = "queued" => claims'[d] = claims[d]
      BY <1>0, <1>3, <2>2, CallsSteady
    <2>4. Keyed
      BY <2>1, <2>3 DEF Keyed, NoneSigned
    <2>5. claims[c].tx # NULL /\ claims[c].signer \in Signers
      <3>1. claims[c].tx # NULL
        BY <1>0, FindsOwn
      <3> QED
        BY <1>0, <3>1, AlarmRun DEF RowsOK
    <2>6. nextNonce[claims[c].signer] # NULL
      BY <1>0, <2>5 DEF AlarmInv, SpentInv, SignedNoncesSpent
    <2>7. ~Clean(claims[c].signer)
      BY <1>0 DEF UsedByOthers, Used, Clean
    <2>8. \A s \in Signers : halted'[s] => halted[s] \/ s = claims[c].signer
      BY <1>3, <2>5, <2>6 DEF FlagClaimReview
    <2>9. \A d \in Claims : d # c => claims'[d] = claims[d]
      BY <1>0, <1>3 DEF FlagClaimReview, Update, IInv, OutboxTypeOK
    <2>10. Founded
      BY <1>0, <2>5, <2>7, <2>8, <2>9 DEF Founded
    <2>11. m.pc \notin {"idle", "release"}
      BY <1>0
    <2>12. ASSUME Become(r, n) PROVE Watched(r)
      <3>1. a.key = m.key /\ a.next = m.next
        BY <1>0, AdvanceFields
      <3>2. a \in Runs
        BY <1>0, <2>11, AdvanceFits
      <3> HIDE DEF a
      <3>3. /\ n.pc = a.pc /\ n.key = a.key /\ n.queue = a.queue /\ n.todo = a.todo
            /\ n.next = a.next
        BY <3>2 DEF Runs
      <3> HIDE DEF n, m
      <3>4. Steady(run[r].key) /\ (LeaseHeld(r)' => LeaseHeld(r))
        BY <1>0, <2>1, <2>3 DEF LeaseHeld, m
      <3> QED
        BY <2>11, <2>12, <3>1, <3>3, <3>4, AdvanceWatched DEF a, m
    <2> QED
      BY <1>3, <2>4, <2>10, <2>12, EndWatched
  <1> QED
    BY <1>1, <1>2, <1>3

\* Sending and polling touch no table.
LEMMA SendingWatched ==
    ASSUME AlarmInv, NEW r \in Holders, Broadcast(r) \/ Poll(r)
    PROVE  Watched(r) /\ Founded /\ Keyed
  <1> DEFINE m == run[r]
             f == Found("tx", m.signed)
  <1>0. m \in Runs /\ m.pc \in {"broadcast", "poll"}
    BY AlarmRun DEF Broadcast, Poll
  <1>1. PICK n : /\ Become(r, n) \/ Become(r, Stopped)
                 /\ UNCHANGED <<outboxVars, mined>>
                 /\ \/ n = [m EXCEPT !.pc = "mark"] \/ n = [m EXCEPT !.pc = "attempt"]
                    \/ n = [m EXCEPT !.pc = "settle", !.found = f]
    BY DEF Broadcast, Poll, Goto, Read, chainVars
  <1> HIDE DEF f
  <1>2. /\ n.key = m.key /\ n.queue = m.queue /\ n.next = m.next
        /\ n.todo = m.todo /\ n.pc \in {"mark", "attempt", "settle"}
    BY <1>0, <1>1 DEF Runs
  <1>3. Suspects(n, claims, Receipts) /\ (Counting(n) => Counting(m))
    BY <1>2 DEF Suspects, Counting
  <1>4. Become(r, n) => Watched(r) /\ Founded /\ Keyed
    <2>1. m.pc \notin {"idle", "release"} /\ n.pc # "halt" /\ n.pc # "init"
      BY <1>0, <1>2
    <2> QED
      BY <1>1, <1>2, <1>3, <2>1, ReadWatched
  <1>5. Become(r, Stopped) => Watched(r) /\ Founded /\ Keyed
    BY <1>1, EndWatched, QuietAlarms DEF outboxVars
  <1> QED
    BY <1>1, <1>4, <1>5

-----------------------------------------------------------------------------
(* The idle nonce check, and paying                                        *)

\* An account that only the system has used is never past what a run that
\* holds the lease expects: the claim that waits has not been signed.
LEMMA CheckedFair ==
    ASSUME AlarmInv, NEW r \in Holders, run[r].pc = "sanity2", LeaseHeld(r), Clean(key)
    PROVE  LatestNonce(run[r].key) <= Expected(r)
  <1> DEFINE m == run[r]
             s == m.key
  <1>1. /\ s = key /\ s \in Signers /\ m \in Runs /\ m.next \in Nat /\ NULL \notin Nat
        /\ QueueFits(m, claims) /\ Tenure(m, claims, nextNonce, halted)
        /\ Ahead(m, claims, nextNonce)
    BY AlarmRun, OutboxAssumption DEF QueueFits, Watches, Counting
  <1>2. nextNonce[s] \in Nat /\ nextNonce[s] <= m.next
    BY <1>1 DEF Ahead
  <1>3. LatestNonce(s) \in Nat /\ LatestNonce(s) <= nextNonce[s]
    BY <1>1, <1>2, CountedGiven, LatestType DEF AlarmInv, SpentInv
  <1>4. CASE ~Holding(r)
    BY <1>1, <1>2, <1>3, <1>4 DEF Expected
  <1>5. CASE Holding(r)
    <2>1. m.queue \in Seq(QueueRows) /\ DOMAIN m.queue = 1 .. Len(m.queue)
      BY <1>1, LenProperties DEF Runs
    <2>2. 1 \in 1 .. Len(m.queue) /\ m.queue[1].nonce # NULL
      BY <1>1, <1>5, <2>1 DEF Holding, QueueFits
    <2>3. Head(m.queue) = m.queue[1]
      BY <2>1, <2>2, LenProperties, HeadTailProperties
    <2> DEFINE c == m.queue[1].claim
               n == m.queue[1].nonce
    <2>4. n = m.next - 1 /\ Expected(r) = n
      BY <1>1, <1>5, <2>2, <2>3 DEF QueueFits, Expected, HeldNonce
    <2>5. c \in Claims /\ n \in Nat
      BY <1>1, <2>2, EntryTypes
    <2> SUFFICES ASSUME LatestNonce(s) > n PROVE FALSE
      BY <1>3, <2>4, <2>5
    <2>6. n + 1 = m.next /\ ~(nextNonce[s] < m.next) /\ n < LatestNonce(s)
      BY <1>1, <1>2, <1>3, <2>4, <2>5
    <2>7. claims[c].status = "queued"
      BY <1>1, <2>2, <2>6 DEF Ahead
    <2>8. claims[c].nonce = n
      BY <1>1, <2>2, <2>7 DEF Tenure, EntryFits
    <2>9. PICK d \in Claims : claims[d].tx # NULL /\ claims[d].nonce = n
      BY <1>1, <2>5, <2>6, CountedSigned
    <2>10. d = c
      BY <1>1, <2>5, <2>8, <2>9 DEF AlarmInv, SpentInv, NoncesDiffer
    <2> QED
      BY <2>5, <2>7, <2>9, <2>10, AlarmRun DEF RowsOK
  <1> QED
    BY <1>4, <1>5

\* The idle nonce check.
LEMMA CheckingWatched ==
    ASSUME AlarmInv, NEW r \in Holders, Reconciled(r) \/ Sanity(r) \/ Sanity2(r)
    PROVE  Watched(r) /\ Founded /\ Keyed
  <1> DEFINE m == run[r]
             i == [m EXCEPT !.pc = "init", !.nonce = LatestNonce(m.key)]
             h == [m EXCEPT !.pc = "halt"]
  <1>0. /\ m \in Runs /\ m.pc \in {"reconcile", "sanity", "sanity2"} /\ m.todo = <<>>
        /\ UNCHANGED <<outboxVars, mined>>
        /\ m.key = key
    BY AlarmRun DEF Reconciled, Sanity, Sanity2, Read, Fits, IdlePhases, chainVars
  <1>1. ASSUME NEW n, Become(r, n), n.key = m.key, n.queue = m.queue, n.next = m.next,
               n.pc \in {"init", "sanity", "sanity2", "pay"}, n.todo = m.todo,
               n.pc = "init" => n.next = NULL
        PROVE  Watched(r) /\ Founded /\ Keyed
    <2>1. m.pc \notin {"idle", "release"} /\ n.pc # "halt" /\ Counting(m)
      BY <1>0, <1>1 DEF Counting
    <2>2. Suspects(n, claims, Receipts)
      BY <1>1 DEF Suspects
    <2> QED
      BY <1>0, <1>1, <2>1, <2>2, ReadWatched
  <1>2. ASSUME NEW pc \in {"sanity", "sanity2", "pay"}, Become(r, [m EXCEPT !.pc = pc])
        PROVE  Watched(r) /\ Founded /\ Keyed
    <2> DEFINE n == [m EXCEPT !.pc = pc]
    <2>1. n.key = m.key /\ n.queue = m.queue /\ n.next = m.next /\ n.todo = m.todo /\ n.pc = pc
      BY <1>0 DEF Runs
    <2> HIDE DEF n
    <2> QED
      BY <1>1, <1>2, <2>1 DEF n
  <1>3. Become(r, Stopped) => Watched(r) /\ Founded /\ Keyed
    BY <1>0, EndWatched, QuietAlarms DEF outboxVars
  <1>4. CASE Reconciled(r)
    <2>1. /\ i.key = m.key /\ i.queue = m.queue /\ i.next = m.next
          /\ i.todo = m.todo /\ i.pc = "init"
      BY <1>0 DEF Runs
    <2> HIDE DEF i
    <2>2. \/ Become(r, Stopped)
          \/ m.next = NULL /\ Become(r, i)
          \/ Become(r, [m EXCEPT !.pc = "sanity"])
      BY <1>4 DEF Reconciled, Read, i
    <2>3. m.next = NULL /\ Become(r, i) => Watched(r) /\ Founded /\ Keyed
      BY <1>1, <2>1
    <2> QED
      BY <1>2, <1>3, <2>2, <2>3
  <1>5. CASE Sanity(r)
    <2>1. \/ Become(r, Stopped)
          \/ Become(r, [m EXCEPT !.pc = "sanity2"]) \/ Become(r, [m EXCEPT !.pc = "pay"])
      BY <1>5 DEF Sanity, Read, Checked
    <2> QED
      BY <1>2, <1>3, <2>1
  <1>6. CASE Sanity2(r)
    <2>1. h.key = m.key /\ h.pc = "halt"
      BY <1>0 DEF Runs
    <2> HIDE DEF h
    <2>2. /\ m.pc = "sanity2"
          /\ \/ Become(r, Stopped) \/ Become(r, [m EXCEPT !.pc = "pay"])
             \/ LatestNonce(m.key) > Expected(r) /\ Become(r, h)
      BY <1>6 DEF Sanity2, Read, Checked, h
    <2>3. ASSUME LatestNonce(m.key) > Expected(r), Become(r, h)
          PROVE  Watched(r) /\ Founded /\ Keyed
      <3>1. run'[r] = h /\ Founded /\ Keyed
        BY <1>0, <2>3, AlarmRun, QuietAlarms DEF Become, outboxVars
      <3>2. ~(LeaseHeld(r) /\ Clean(key))
        <4> SUFFICES ASSUME LeaseHeld(r), Clean(key) PROVE FALSE
          OBVIOUS
        <4>1. m.key \in Signers /\ WorkerInv
          BY <1>0, AlarmRun
        <4>2. LatestNonce(m.key) <= Expected(r)
          BY <2>2, CheckedFair
        <4>3. LatestNonce(m.key) \in Nat /\ Expected(r) \in Int
          <5>1. m.next \in Nat /\ QueueFits(m, claims) /\ m.queue \in Seq(QueueRows)
            BY <1>0, <2>2, AlarmRun DEF QueueFits, Runs
          <5>2. LatestNonce(m.key) \in Nat
            BY <4>1, LatestType
          <5>3. CASE Holding(r)
            <6>1. DOMAIN m.queue = 1 .. Len(m.queue)
              BY <5>1, LenProperties
            <6>2. 1 \in 1 .. Len(m.queue) /\ m.queue[1].nonce = m.next - 1
              BY <2>2, <5>1, <5>3, <6>1 DEF Holding, QueueFits
            <6>3. Head(m.queue) = m.queue[1]
              BY <5>1, <6>2, LenProperties, HeadTailProperties
            <6> QED
              BY <5>1, <5>2, <5>3, <6>2, <6>3 DEF Expected, HeldNonce
          <5>4. CASE ~Holding(r)
            BY <5>1, <5>2, <5>4 DEF Expected
          <5> QED
            BY <5>3, <5>4
        <4> QED
          BY <2>3, <4>2, <4>3
      <3>3. LeaseHeld(r)' => LeaseHeld(r)
        BY <1>0 DEF LeaseHeld, outboxVars
      <3> QED
        BY <1>0, <2>1, <3>1, <3>2, <3>3 DEF Watched, Suspects
    <2> QED
      BY <1>2, <1>3, <2>2, <2>3
  <1> QED
    BY <1>4, <1>5, <1>6

\* The account starts where the run expects it, and no claim waited with a
\* nonce of it.
LEMMA InitWatched ==
    ASSUME AlarmInv, NEW r \in Holders, InitAccount(r)
    PROVE  Watched(r) /\ Founded /\ Keyed
  <1> DEFINE m == run[r]
             s == m.key
             next == IF nextNonce[s] = NULL THEN m.nonce ELSE nextNonce[s]
             n == [m EXCEPT !.pc = "sanity", !.nonce = NULL, !.next = next]
  <1>0. /\ m \in Runs /\ m.pc = "init" /\ m.nonce \in Nat /\ s = key /\ s \in Signers
        /\ OutboxTypeOK /\ NULL \notin Nat
    BY AlarmRun, OutboxAssumption DEF InitAccount, Fits
  <1>1. \/ UNCHANGED outboxVars /\ Become(r, Stopped)
        \/ InitTreasuryAccount(r, s, m.nonce) /\ (Become(r, n) \/ Become(r, Stopped))
    BY DEF InitAccount, Write
  <1>2. ASSUME UNCHANGED outboxVars, Become(r, Stopped)
        PROVE  Watched(r) /\ Founded /\ Keyed
    BY <1>2, EndWatched, QuietAlarms DEF outboxVars
  <1>3. ASSUME InitTreasuryAccount(r, s, m.nonce), Become(r, n) \/ Become(r, Stopped)
        PROVE  Watched(r) /\ Founded /\ Keyed
    <2>1. UNCHANGED <<claims, halted, lease>>
      BY <1>3 DEF InitTreasuryAccount
    <2>2. Founded /\ Keyed
      BY <2>1, CalmAlarms DEF NoneHalts, NoneSigned
    <2>3. next \in Nat /\ nextNonce'[s] = next
      BY <1>0, <1>3 DEF InitTreasuryAccount, OutboxTypeOK
    <2> HIDE DEF next
    <2>4. n.pc = "sanity" /\ n.key = s /\ n.queue = m.queue /\ n.next = next
      BY <1>0 DEF Runs
    <2> HIDE DEF n
    <2>5. ASSUME Become(r, n) PROVE Watched(r)
      <3>1. run'[r] = n
        BY <2>5, AlarmRun DEF Become
      <3>2. ASSUME LeaseHeld(r)', Clean(key) PROVE Watches(n, claims', nextNonce')
        <4>1. Watches(m, claims, nextNonce)
          BY <2>1, <3>2, AlarmRun DEF LeaseHeld
        <4>2. \A i \in 1 .. Len(m.queue) : m.queue[i].nonce = NULL
          BY <1>0, <4>1 DEF Watches, Counting, Ahead
        <4>3. Ahead(n, claims', nextNonce')
          BY <1>0, <2>3, <2>4, <4>2 DEF Ahead
        <4> QED
          BY <2>4, <4>3 DEF Watches
      <3> QED
        BY <1>0, <2>4, <3>1, <3>2 DEF Watched, Suspects
    <2> QED
      BY <1>3, <2>2, <2>5, EndWatched
  <1> QED
    BY <1>1, <1>2, <1>3

\* A cancellation hands a nonce back, or leaves the accounts alone.
LEMMA CancelSteady ==
    ASSUME IInv, NEW c \in Claims, CancelOk(c), CancelBody(c)
    PROVE  /\ \A s \in Signers : Steady(s)
           /\ \A d \in Claims : claims'[d].status = "needs_review" => claims[d].status = "needs_review"
           /\ \A d \in Claims : claims'[d].status = "queued" => claims'[d] = claims[d]
  <1> DEFINE row == [claims[c] EXCEPT !.status = "failed",
                                      !.proof = "never_signed", !.nonce = NULL]
  <1>1. claims \in [Claims -> ClaimRow] /\ claims[c] \in ClaimRow
    BY DEF IInv, OutboxTypeOK
  <1>2. row.status = "failed"
    BY <1>1 DEF ClaimRow
  <1>3. claims' = [claims EXCEPT ![c] = row]
    BY DEF CancelBody, Update
  <1> HIDE DEF row
  <1>4. claims'[c] = row /\ \A d \in Claims : d # c => claims'[d] = claims[d]
    BY <1>1, <1>3
  <1>5. ASSUME NEW s \in Signers PROVE Steady(s)
    <2>1. CASE claims[c].nonce # NULL /\ s \in LastAllocatedTo(c)
      <3>1. nextNonce[s] = claims[c].nonce + 1 /\ claims[c].nonce \in Nat
        BY <1>1, <2>1 DEF LastAllocatedTo, ClaimRow
      <3>2. nextNonce'[s] = nextNonce[s] - 1
        BY <2>1 DEF CancelBody
      <3>3. nextNonce'[s] = claims[c].nonce /\ nextNonce[s] \in Nat /\ nextNonce'[s] < nextNonce[s]
        BY <3>1, <3>2
      <3> QED
        BY <1>4, <3>1, <3>3 DEF Steady
    <2>2. CASE claims[c].nonce = NULL \/ s \notin LastAllocatedTo(c)
      <3>1. nextNonce'[s] = nextNonce[s]
        BY <2>2 DEF CancelBody
      <3>2. claims[c].nonce # NULL => nextNonce[s] # claims[c].nonce + 1
        BY <2>2 DEF LastAllocatedTo
      <3> QED
        BY <1>4, <3>1, <3>2 DEF Steady
    <2> QED
      BY <2>1, <2>2
  <1> QED
    BY <1>2, <1>4, <1>5

\* Reading the chain, taking a nonce, signing.
LEMMA PayingWatched ==
    ASSUME AlarmInv, NEW r \in Holders, Preflight(r) \/ Assign(r) \/ Record(r)
    PROVE  Watched(r) /\ Founded /\ Keyed
  <1> DEFINE m == run[r]
             c == Claim(r)
             s == m.key
             f(fee) == [m EXCEPT !.pc = "assign", !.fee = fee, !.nonce = LatestNonce(m.key)]
             n == [m EXCEPT !.pc = "record"]
             t == Signing(r)
             b == [m EXCEPT !.pc = "broadcast", !.signed = t]
             a == Advance(r, FALSE)
  <1>0. /\ m \in Runs /\ m.pc \in {"pay", "assign", "record"} /\ m.todo = <<>> /\ m.queue # <<>>
        /\ s = key /\ s \in Signers /\ c \in Claims /\ IInv
        /\ claims \in [Claims -> ClaimRow] /\ nextNonce \in [Signers -> Nat \cup {NULL}]
        /\ NULL \notin Nat
    <2>1. /\ m \in Runs /\ m.pc \in {"pay", "assign", "record"} /\ Fits(m, claims, Receipts)
          /\ WorkerInv /\ IInv /\ m.key = key /\ key \in Signers /\ OutboxTypeOK
      BY AlarmRun DEF Preflight, Assign, Record
    <2>2. m.todo = <<>> /\ m.queue # <<>>
      BY <2>1 DEF Fits, IdlePhases, QueuePhases, Preflight, Assign, Record
    <2>3. c \in Claims
      BY <2>1, <2>2, RunType, ClaimOfType
    <2> QED
      BY <2>1, <2>2, <2>3, OutboxAssumption DEF OutboxTypeOK
  <1>1. m.pc \notin {"idle", "release"}
    BY <1>0
  <1>2. ASSUME NEW k, k.pc \in {"assign", "record", "broadcast"}, k.todo = <<>>, k.key = s,
               Become(r, k), lease' = lease
        PROVE  Watched(r)
    <2>1. ~Counting(k) /\ Suspects(k, claims', Receipts')
      BY <1>2 DEF Counting, Suspects
    <2>2. k.pc # "halt" /\ k.pc # "init" /\ (LeaseHeld(r)' => LeaseHeld(r))
      BY <1>2 DEF LeaseHeld
    <2> QED
      BY <1>1, <1>2, <2>1, <2>2, GoesWatched
  <1>3. /\ \A fee : f(fee).pc = "assign" /\ f(fee).todo = <<>> /\ f(fee).key = s
        /\ n.pc = "record" /\ n.todo = <<>> /\ n.key = s
        /\ b.pc = "broadcast" /\ b.todo = <<>> /\ b.key = s
    BY <1>0 DEF Runs
  <1> HIDE DEF f, n, b
  <1>4. CASE Preflight(r)
    <2>1. PICK fee \in Fees : /\ Become(r, f(fee))
                              /\ UNCHANGED <<claims, nextNonce, halted, lease>>
      BY <1>4 DEF Preflight, Read, outboxVars, f
    <2> QED
      BY <1>2, <1>3, <2>1, QuietAlarms
  <1>5. ASSUME UNCHANGED outboxVars, Become(r, Stopped)
        PROVE  Watched(r) /\ Founded /\ Keyed
    BY <1>5, EndWatched, QuietAlarms DEF outboxVars
  <1>6. CASE Assign(r)
    <2>1. \/ UNCHANGED outboxVars /\ Become(r, Stopped)
          \/ CancelBlocked(r, c, s) /\ (Become(r, a) \/ Become(r, Stopped))
          \/ AssignClaimNonce(r, c, s) /\ (Become(r, n) \/ Become(r, Stopped))
      BY <1>6 DEF Assign, Write, n
    <2>2. ASSUME CancelBlocked(r, c, s), Become(r, a) \/ Become(r, Stopped)
          PROVE  Watched(r) /\ Founded /\ Keyed
      <3>1. CancelOk(c) /\ CancelBody(c) /\ UNCHANGED <<halted, lease>>
        BY <2>2 DEF CancelBlocked, CancelBlockedOk
      <3>2. /\ \A x \in Signers : Steady(x)
            /\ \A d \in Claims : claims'[d].status = "needs_review" => claims[d].status = "needs_review"
            /\ \A d \in Claims : claims'[d].status = "queued" => claims'[d] = claims[d]
        BY <1>0, <3>1, CancelSteady
      <3>3. NoneSigned /\ NoneHalts
        BY <1>0, <3>1, CancelCalm DEF NoneHalts
      <3>4. Founded /\ Keyed
        BY <3>2, <3>3, CalmAlarms
      <3>5. Steady(s) /\ (LeaseHeld(r)' => LeaseHeld(r))
        BY <1>0, <3>1, <3>2 DEF LeaseHeld
      <3>6. a.key = m.key /\ a.next = m.next
        BY <1>0, AdvanceFields
      <3> HIDE DEF a
      <3>7. Become(r, a) => Watched(r)
        BY <1>1, <3>5, <3>6, AdvanceWatched DEF a
      <3> QED
        BY <2>2, <3>4, <3>7, EndWatched
    <2>3. ASSUME AssignClaimNonce(r, c, s), Become(r, n) \/ Become(r, Stopped)
          PROVE  Watched(r) /\ Founded /\ Keyed
      <3>1. /\ nextNonce[s] \in Nat /\ UNCHANGED <<halted, lease>>
            /\ \/ UNCHANGED <<claims, nextNonce>>
               \/ /\ claims' = [claims EXCEPT ![c] = [claims[c] EXCEPT !.nonce = nextNonce[s]]]
                  /\ nextNonce' = [nextNonce EXCEPT ![s] = nextNonce[s] + 1]
        BY <1>0, <2>3 DEF AssignClaimNonce, AssignOk, AssignGuard, Update
      <3>2. nextNonce'[s] # NULL
        <4>1. nextNonce[s] + 1 \in Nat
          BY <3>1
        <4> QED
          BY <1>0, <3>1, <4>1
      <3>3. \A d \in Claims : claims'[d].status = claims[d].status /\ claims'[d].tx = claims[d].tx
        BY <1>0, <3>1 DEF ClaimRow
      <3>4. Founded /\ Keyed
        BY <1>0, <3>1, <3>2, <3>3 DEF Founded, Keyed
      <3>5. Become(r, n) => Watched(r)
        BY <1>2, <1>3, <3>1
      <3> QED
        BY <2>3, <3>4, <3>5, EndWatched
    <2> QED
      BY <1>5, <2>1, <2>2, <2>3
  <1>7. CASE Record(r)
    <2>1. \/ UNCHANGED outboxVars /\ Become(r, Stopped)
          \/ RecordSignedClaim(r, c, m.nonce, t, s) /\ (Become(r, b) \/ Become(r, Stopped))
      BY <1>7 DEF Record, Write, b
    <2>2. ASSUME RecordSignedClaim(r, c, m.nonce, t, s), Become(r, b) \/ Become(r, Stopped)
          PROVE  Watched(r) /\ Founded /\ Keyed
      <3> DEFINE row == [claims[c] EXCEPT !.status = "signed", !.tx = t, !.signer = s]
      <3>1. UNCHANGED <<nextNonce, halted, lease>> /\ claims' = [claims EXCEPT ![c] = row]
        BY <2>2 DEF RecordSignedClaim, Update, treasury
      <3>2. row.status = "signed" /\ row.signer = s
        BY <1>0 DEF ClaimRow
      <3> HIDE DEF row
      <3>3. claims'[c] = row /\ \A d \in Claims : d # c => claims'[d] = claims[d]
        BY <1>0, <3>1
      <3>4. Founded /\ Keyed
        BY <1>0, <3>1, <3>2, <3>3 DEF Founded, Keyed
      <3>5. Become(r, b) => Watched(r)
        BY <1>2, <1>3, <3>1
      <3> QED
        BY <2>2, <3>4, <3>5, EndWatched
    <2> QED
      BY <1>5, <2>1, <2>2
  <1> QED
    BY <1>4, <1>6, <1>7

\* Whatever a run does, it raises no alarm that is not founded.
LEMMA OwnWatched ==
    ASSUME AlarmInv, NEW r \in Holders, RunStep(r) \/ Abort(r) \/ Crash(r)
    PROVE  Watched(r) /\ Founded /\ Keyed
  <1>1. CASE \/ Start(r) \/ Acquire(r) \/ Halt(r) \/ QueueDone(r) \/ ReleaseLease(r)
             \/ PreflightRefuses(r) \/ Abort(r) \/ Crash(r)
    BY <1>1, EdgesWatched
  <1>2. CASE Snapshot(r)
    BY <1>2, SnapshotWatched
  <1>3. CASE ReconcileRow(r) \/ CheckNonce(r) \/ Recheck(r) \/ ReadSwitch(r)
    BY <1>3, ReadingWatched
  <1>4. CASE Settle(r) \/ Mark(r) \/ Attempt(r)
    BY <1>4, WritingWatched
  <1>5. CASE Flag(r)
    BY <1>5, FlagWatched
  <1>6. CASE Broadcast(r) \/ Poll(r)
    BY <1>6, SendingWatched
  <1>7. CASE Reconciled(r) \/ Sanity(r) \/ Sanity2(r)
    BY <1>7, CheckingWatched
  <1>8. CASE InitAccount(r)
    BY <1>8, InitWatched
  <1>9. CASE Preflight(r) \/ Assign(r) \/ Record(r)
    BY <1>9, PayingWatched
  <1> QED
    BY <1>1, <1>2, <1>3, <1>4, <1>5, <1>6, <1>7, <1>8, <1>9 DEF RunStep

\* A run keeps the key, and what it sends is the transfer of a claim it signed.
LEMMA OwnSends ==
    ASSUME AlarmInv, NEW r \in Holders, RunStep(r) \/ Abort(r) \/ Crash(r)
    PROVE  key' = key /\ OnlyTransfers'
  <1>1. CASE ~Broadcast(r)
    <2>1. UNCHANGED <<key, sent>>
      BY <1>1
      DEF RunStep, Start, Acquire, Snapshot, ReconcileRow, CheckNonce, Recheck, ReadSwitch,
          Settle, Flag, Mark, Attempt, Reconciled, InitAccount, Sanity, Sanity2, Halt, QueueDone,
          Preflight, PreflightRefuses, Assign, Record, Poll, ReleaseLease, Abort, Crash, Read,
          Write, chainVars
    <2> QED
      BY <2>1 DEF AlarmInv, OnlyTransfers
  <1>2. CASE Broadcast(r)
    <2>1. /\ run[r].pc = "broadcast" /\ key' = key
          /\ sent' = sent \/ sent' = sent \cup {Bytes(r)}
      BY <1>2 DEF Broadcast
    <2>2. /\ run[r] \in Runs /\ Fits(run[r], claims, Receipts) /\ RowsOK /\ WorkerInv
      BY AlarmRun
    <2>3. /\ run[r].todo # <<>> \/ run[r].queue # <<>>
          /\ claims[ClaimOf(run[r])].tx # NULL
      BY <2>1, <2>2 DEF Fits, SendPhases
    <2>4. Claim(r) = ClaimOf(run[r]) /\ Claim(r) \in Claims
      BY <2>2, <2>3, RunType, ClaimOfType
    <2>5. Bytes(r) = claims[Claim(r)].tx
      <3>1. run[r].todo = <<>> => run[r].signed = claims[Claim(r)].tx
        BY <2>1, <2>2, <2>4 DEF Fits, SendPhases
      <3> QED
        BY <2>2, <3>1, HeadBytes DEF Bytes
    <2>6. Bytes(r).kind = "claim"
      BY <2>2, <2>3, <2>4, <2>5, SignedRow
    <2> QED
      BY <2>1, <2>6 DEF AlarmInv, OnlyTransfers
  <1> QED
    BY <1>1, <1>2

-----------------------------------------------------------------------------
(* The world, and every step                                               *)

\* People raise no alarm, and move no account that is not halted but by a
\* cancellation.
LEMMA WorldWatched ==
    ASSUME AlarmInv, Unaided, WorldNext
    PROVE  /\ Founded /\ Keyed /\ UNCHANGED <<run, lease, key, sent>>
           /\ \A s \in Signers : ~halted[s] => Steady(s)
  <1>0. IInv /\ Money /\ WorkerInv /\ RowsOK
    BY DEF AlarmInv, SpentInv, WorkerInv, Money
  <1>1. NoneHalts /\ NoneSigned /\ UNCHANGED <<run, lease>>
    BY <1>0, WorldCalm
  <1>2. ASSUME UNCHANGED <<claims, nextNonce, halted, key, sent>>
        PROVE  /\ Founded /\ Keyed /\ UNCHANGED <<run, lease, key, sent>>
               /\ \A s \in Signers : Steady(s)
    BY <1>1, <1>2, QuietAlarms
  <1>3. ASSUME UNCHANGED <<key, sent>>,
               \A d \in Claims : claims'[d].status = "needs_review" => claims[d].status = "needs_review",
               \A d \in Claims : claims'[d].status = "queued" /\ claims'[d].nonce # NULL =>
                                    claims[d].status = "queued" /\ claims[d].nonce # NULL
        PROVE  Founded /\ Keyed /\ UNCHANGED <<run, lease, key, sent>>
    BY <1>1, <1>3, CalmAlarms
  <1>4. ASSUME NEW w \in Wallets, Operates(CreateRewardClaim(w))
        PROVE  /\ Founded /\ Keyed /\ UNCHANGED <<run, lease, key, sent>>
               /\ \A s \in Signers : Steady(s)
    <2> DEFINE row == [NoRow EXCEPT !.status = "queued", !.wallet = w, !.credits = Prefix(w)]
    <2>1. PICK c \in Claims : NextRow(c) /\ claims' = [claims EXCEPT ![c] = row]
      BY <1>4 DEF Operates, CreateRewardClaim
    <2>2. row.nonce = NULL /\ row.status = "queued"
      BY DEF NoRow
    <2> HIDE DEF row
    <2>3. claims \in [Claims -> ClaimRow] /\ claims[c].status = "absent"
      BY <1>0, <2>1 DEF IInv, OutboxTypeOK, NextRow
    <2>4. claims'[c] = row /\ \A d \in Claims : d # c => claims'[d] = claims[d]
      BY <2>1, <2>3
    <2>5. UNCHANGED <<nextNonce, key, sent>>
      BY <1>4 DEF Operates, CreateRewardClaim, treasury, chainVars
    <2>6. \A s \in Signers : Steady(s)
      BY <2>3, <2>4, <2>5 DEF Steady
    <2> QED
      BY <1>3, <2>2, <2>4, <2>5, <2>6
  <1>5. ASSUME \/ \E k \in Credits : Operates(InsertCredit(k))
               \/ Operates(SetPayouts(~payouts))
               \/ \E w \in Wallets : Operates(SetBlocked(blocked \cup {w}))
               \/ \E s \in Signers : ForeignTx(s)
        PROVE  UNCHANGED <<claims, nextNonce, halted, key, sent>>
    BY <1>5 DEF Operates, InsertCredit, SetPayouts, SetBlocked, ForeignTx, treasury, outboxVars,
                chainVars
  <1>6. ASSUME NEW c \in Claims, Rule(c)
        PROVE  /\ Founded /\ Keyed /\ UNCHANGED <<run, lease, key, sent>>
               /\ \A s \in Signers : Steady(s)
    <2>1. UNCHANGED <<nextNonce, key, sent>>
      BY <1>6 DEF Rule, Operates, ResolveConfirmed, ResolveFailed, treasury, chainVars
    <2>2. claims[c] \in ClaimRow /\ claims \in [Claims -> ClaimRow]
      BY <1>0, RowType DEF IInv, OutboxTypeOK
    <2>3. /\ claims[c].status = "needs_review"
          /\ \E row : Update(c, row) /\ row.status \in {"confirmed", "failed"}
      <3>1. ASSUME NEW t, ResolveConfirmed(c, t)
            PROVE  /\ claims[c].status = "needs_review"
                   /\ \E row : Update(c, row) /\ row.status \in {"confirmed", "failed"}
        BY <2>2, <3>1 DEF ResolveConfirmed, ClaimRow
      <3>2. ASSUME ResolveFailed(c)
            PROVE  /\ claims[c].status = "needs_review"
                   /\ \E row : Update(c, row) /\ row.status \in {"confirmed", "failed"}
        <4> DEFINE row == [claims[c] EXCEPT !.status = "failed", !.proof = "operator_review"]
        <4>1. row.status = "failed"
          BY <2>2 DEF ClaimRow
        <4>2. Update(c, row) /\ claims[c].status = "needs_review"
          BY <3>2 DEF ResolveFailed
        <4> HIDE DEF row
        <4> QED
          BY <4>1, <4>2
      <3> QED
        BY <1>6, <3>1, <3>2 DEF Rule, Operates
    <2>4. PICK row : claims' = [claims EXCEPT ![c] = row] /\ row.status \in {"confirmed", "failed"}
      BY <2>3 DEF Update
    <2>5. claims'[c] = row /\ \A d \in Claims : d # c => claims'[d] = claims[d]
      BY <2>2, <2>4
    <2>6. \A s \in Signers : Steady(s)
      BY <2>1, <2>3, <2>5 DEF Steady
    <2> QED
      BY <1>3, <2>1, <2>4, <2>5, <2>6
  <1>7. ASSUME NEW c \in Claims, Operates(CancelQueuedClaim(c))
        PROVE  /\ Founded /\ Keyed /\ UNCHANGED <<run, lease, key, sent>>
               /\ \A s \in Signers : Steady(s)
    <2>1. CancelOk(c) /\ CancelBody(c) /\ UNCHANGED <<key, sent>>
      BY <1>7 DEF Operates, CancelQueuedClaim, chainVars
    <2>2. /\ \A s \in Signers : Steady(s)
          /\ \A d \in Claims : claims'[d].status = "needs_review" => claims[d].status = "needs_review"
          /\ \A d \in Claims : claims'[d].status = "queued" => claims'[d] = claims[d]
      BY <1>0, <2>1, CancelSteady
    <2> QED
      BY <1>3, <2>1, <2>2
  <1>8. ASSUME NEW s \in Signers, Align(s) \/ Resume(s)
        PROVE  /\ Founded /\ Keyed /\ UNCHANGED <<run, lease, key, sent>>
               /\ \A x \in Signers : ~halted[x] => Steady(x)
    <2>1. UNCHANGED <<claims, key, sent>>
      BY <1>8 DEF Align, Resume, Operates, AlignNonce, ResumePayouts, chainVars
    <2>2. \A x \in Signers : ~halted[x] => nextNonce'[x] = nextNonce[x]
      BY <1>0, <1>8 DEF Align, Resume, Operates, AlignNonce, ResumePayouts, IInv, OutboxTypeOK
    <2>3. \A x \in Signers : ~halted[x] => Steady(x)
      BY <2>1, <2>2 DEF Steady
    <2> QED
      BY <1>3, <2>1, <2>3
  <1>9. ASSUME NEW c \in Claims, RecordOverride(c) PROVE FALSE
    BY <1>9 DEF RecordOverride, Sent, Kinds, AlarmInv, OnlyTransfers
  <1>10. ASSUME NEW s \in Signers, RotateKey(s) PROVE FALSE
    BY <1>10 DEF RotateKey, Unaided
  <1>11. ASSUME NEW c \in Claims, NEW kind, NEW s, SendOverride(c, kind, s) PROVE FALSE
    BY <1>11 DEF SendOverride, Unaided
  <1> QED
    BY <1>2, <1>4, <1>5, <1>6, <1>7, <1>8, <1>9, <1>10, <1>11 DEF WorldNext, Blockable

\* Every step keeps every run watched.
LEMMA NextWatched ==
    ASSUME AnyHash, Unaided, AlarmInv, [Next]_vars
    PROVE  /\ Founded /\ Keyed /\ key' = key /\ OnlyTransfers'
           /\ \A r \in Holders : Watched(r)
  <1>0. RowsKept /\ Receipts \subseteq Receipts'
    <2>1. WorkerInv
      BY DEF AlarmInv, SpentInv
    <2> QED
      BY <2>1, NextUpheld
  <1>1. ASSUME NEW r \in Holders, RunStep(r) \/ Abort(r) \/ Crash(r)
        PROVE  /\ Founded /\ Keyed /\ key' = key /\ OnlyTransfers'
               /\ \A q \in Holders : Watched(q)
    <2>1. Watched(r) /\ Founded /\ Keyed /\ key' = key /\ OnlyTransfers'
      BY <1>1, OwnWatched, OwnSends
    <2>2. ASSUME NEW q \in Holders, q # r PROVE Watched(q)
      <3>1. run'[q] = run[q]
        BY <1>1, <2>2, OnlyOwnRun, AlarmRun DEF Become
      <3>2. key \in Signers
        BY AlarmRun
      <3>3. CASE LeaseHeld(q)'
        <4>1. LeaseHeld(q) /\ UNCHANGED <<claims, nextNonce, halted>>
          BY <1>1, <2>2, <3>3, OthersRead
        <4>2. Steady(key)
          BY <3>2, <4>1, QuietAlarms
        <4> QED
          BY <1>0, <3>1, <4>1, <4>2, OtherWatched
      <3>4. CASE ~LeaseHeld(q)'
        BY <1>0, <3>1, <3>4, OtherWatched
      <3> QED
        BY <3>3, <3>4
    <2> QED
      BY <2>1, <2>2
  <1>2. CASE WorldNext
    <2>1. /\ Founded /\ Keyed /\ UNCHANGED <<run, lease, key, sent>>
          /\ \A s \in Signers : ~halted[s] => Steady(s)
      BY <1>2, WorldWatched
    <2>2. Clean(key) => Steady(key)
      <3>1. key \in Signers
        BY DEF AlarmInv, SpentInv, WorkerInv
      <3> QED
        BY <2>1, <3>1, CleanRuns
    <2>3. \A q \in Holders : Watched(q)
      BY <1>0, <2>1, <2>2, OtherWatched DEF LeaseHeld
    <2> QED
      BY <2>1, <2>3 DEF AlarmInv, OnlyTransfers
  <1>3. CASE ChainNext \/ UNCHANGED vars
    <2>1. UNCHANGED <<claims, nextNonce, halted, run, lease, key, sent>>
      BY <1>3 DEF ChainNext, Mine, outboxVars, vars, chainVars
    <2>2. key \in Signers
      BY DEF AlarmInv, SpentInv, WorkerInv
    <2>3. Founded /\ Keyed /\ Steady(key)
      BY <2>1, <2>2, QuietAlarms
    <2>4. \A q \in Holders : Watched(q)
      BY <1>0, <2>1, <2>3, OtherWatched DEF LeaseHeld
    <2> QED
      BY <2>1, <2>3, <2>4 DEF AlarmInv, OnlyTransfers
  <1>4. CASE LeaseRunsOut
    <2>1. /\ UNCHANGED <<claims, nextNonce, halted, run, key, sent>>
          /\ lease' = [lease EXCEPT !.live = FALSE]
      BY <1>4 DEF LeaseRunsOut, ExpireLease, treasury, chainVars
    <2>2. lease'.live = FALSE
      BY <2>1 DEF AlarmInv, SpentInv, WorkerInv, IInv, OutboxTypeOK
    <2>3. \A q \in Holders : ~LeaseHeld(q)'
      BY <2>2 DEF LeaseHeld
    <2>4. \A q \in Holders : Watched(q)
      BY <1>0, <2>1, <2>3, OtherWatched
    <2> QED
      BY <2>1, <2>4, QuietAlarms DEF AlarmInv, OnlyTransfers
  <1> QED
    BY <1>1, <1>2, <1>3, <1>4 DEF Next, WorkerNext

\* An account that gives nonces goes on giving them.
LEMMA AccountStays ==
    ASSUME SpentInv, [OutboxStep(Nat)]_outboxVars, NEW s \in Signers, nextNonce[s] # NULL
    PROVE  nextNonce'[s] # NULL
  <1>1. OutboxTypeOK /\ NULL \notin Nat
    BY OutboxAssumption DEF SpentInv, WorkerInv, IInv
  <1>2. nextNonce[s] \in Nat /\ nextNonce[s] + 1 \in Nat
    BY <1>1 DEF OutboxTypeOK
  <1>3. Moves(s)
    BY <1>1, AccountsMove
  <1> QED
    BY <1>1, <1>2, <1>3 DEF Moves

\* The invariant is inductive.
LEMMA NextAlarm ==
    ASSUME AnyHash, Unaided, AlarmInv, [Next]_vars
    PROVE  AlarmInv'
  <1>1. SpentInv /\ SpentInv' /\ WorkerInv
    BY NextSpent DEF AlarmInv, SpentInv
  <1>2. RowsKept /\ Receipts \subseteq Receipts' /\ [OutboxStep(Nat)]_outboxVars
    BY <1>1, NextUpheld
  <1>3. /\ Founded /\ Keyed /\ key' = key /\ OnlyTransfers'
        /\ \A r \in Holders : Watched(r)
    BY NextWatched
  <1>4. key \in Signers /\ RowsOK
    BY <1>1 DEF WorkerInv, Money
  <1>5. OneKey'
    <2>1. ASSUME NEW c \in Claims, claims'[c].tx # NULL PROVE claims'[c].signer = key
      BY <1>2, <1>3, <2>1 DEF Keyed, RowsKept, KeptRow, AlarmInv, OneKey
    <2>2. ASSUME NEW c \in Claims, claims'[c].status = "queued", claims'[c].nonce # NULL
          PROVE  nextNonce'[key] # NULL
      <3>1. nextNonce[key] # NULL \/ nextNonce'[key] # NULL
        BY <1>3, <2>2 DEF Keyed, AlarmInv, OneKey
      <3> QED
        BY <1>1, <1>2, <1>4, <3>1, AccountStays
    <2>3. \A r \in Holders : run'[r].pc \notin {"idle", "release"} => run'[r].key = key
      BY <1>3 DEF Watched
    <2> QED
      BY <1>3, <2>1, <2>2, <2>3 DEF OneKey
  <1>6. NoFalseAlarm'
    <2>1. ASSUME NEW s \in Signers, halted'[s] PROVE \E m \in Foreign' : m.tx.from = s
      <3>1. \E m \in Receipts : m.tx.kind = "foreign" /\ m.tx.from = s
        BY <1>3, <2>1 DEF Founded, Clean, AlarmInv, NoFalseAlarm, Foreign
      <3> QED
        BY <1>2, <3>1 DEF Foreign
    <2>2. ASSUME NEW c \in Claims, claims'[c].status = "needs_review"
          PROVE  \E m \in UsedBy(c)' : m.tx.kind = "foreign"
      <3>1. claims[c].tx # NULL /\ UsedByOthers(claims[c], Receipts)
        <4>1. CASE claims[c].status = "needs_review"
          <5>1. claims[c].tx # NULL
            BY <1>4, <4>1 DEF RowsOK, PastSigning
          <5>2. \E m \in UsedBy(c) : m.tx.kind = "foreign"
            BY <4>1 DEF AlarmInv, NoFalseAlarm
          <5> QED
            BY <5>1, <5>2 DEF UsedBy, UsedByOthers, Used
        <4>2. CASE claims[c].status # "needs_review"
          BY <1>3, <2>2, <4>2 DEF Founded
        <4> QED
          BY <4>1, <4>2
      <3>2. KeptRow(claims[c], claims'[c])
        BY <1>2 DEF RowsKept
      <3>3. UsedByOthers(claims'[c], Receipts')
        BY <1>2, <3>1, <3>2, UsedKept
      <3> QED
        BY <3>3 DEF UsedByOthers, Used, UsedBy
    <2> QED
      BY <2>1, <2>2 DEF NoFalseAlarm
  <1>7. Watchful'
    <2>1. Clean(key)' => Clean(key)
      BY <1>2, <1>3 DEF Clean
    <2> QED
      BY <1>3, <2>1 DEF Watchful, Watched
  <1> QED
    BY <1>1, <1>3, <1>5, <1>6, <1>7 DEF AlarmInv

\* Nothing is raised, signed or counted at the start.
LEMMA InitAlarm ==
    ASSUME WorkerInit
    PROVE  AlarmInv
  <1>1. SpentInv
    BY InitSpent
  <1>2. /\ \A c \in Claims : claims[c].status = "absent" /\ claims[c].tx = NULL
        /\ \A s \in Signers : ~halted[s]
        /\ sent = {}
    BY DEF WorkerInit, OutboxInit, NoRow
  <1>3. \A r \in Holders : run[r].pc = "idle" /\ run[r].todo = <<>>
    BY RestingReads DEF WorkerInit
  <1>4. Watchful
    BY <1>3 DEF Watchful, Watches, Suspects, Counting
  <1> QED
    BY <1>1, <1>2, <1>3, <1>4 DEF AlarmInv, OneKey, OnlyTransfers, NoFalseAlarm

\* The treasury halts, and a claim waits for a human, only when somebody else
\* has really used the key; where nobody overrides a transaction by hand or
\* rotates the key, which look the same to a run.  Through any number of runs
\* that overlap, die or read a node that lags, through cancellations that hand
\* a nonce back between a run's snapshot and its nonce check, through switches
\* turned, wallets blocked and a treasury resumed too early.
THEOREM AlarmsAreReal == AnyHash /\ Unaided => (Spec => []NoFalseAlarm)
  <1> SUFFICES ASSUME AnyHash, Unaided PROVE Spec => []NoFalseAlarm
    OBVIOUS
  <1>1. WorkerInit => AlarmInv
    BY InitAlarm
  <1>2. AlarmInv /\ [Next]_vars => AlarmInv'
    BY NextAlarm
  <1>3. AlarmInv => NoFalseAlarm
    BY DEF AlarmInv
  <1> QED
    BY <1>1, <1>2, <1>3, PTL DEF Spec
=============================================================================
