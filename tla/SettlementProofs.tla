--------------------------- MODULE SettlementProofs --------------------------
(* Proofs about Settlement: for every number of predictions, wallets and   *)
(* drivers, every telemetry, and every bound on time, aborts and changes.  *)
EXTENDS Settlement, SumProofs, SequenceTheorems

-----------------------------------------------------------------------------
(* The inductive invariant                                                 *)

\* The harness records one thing at a time, the rows land in that order, and a
\* heartbeat after what is older.  Nothing comes after the end.
TelemetryOK ==
    /\ \A i \in 1 .. Len(made) :
          /\ made[i].ts <= now
          /\ \A j \in 1 .. Len(made) : i < j => made[i].ts < made[j].ts
          /\ made[i].ts <= heartbeat => made[i] \in events
          /\ over # NULL => made[i].ts <= over
    /\ \E n \in 0 .. Len(made) : events = {made[i] : i \in 1 .. n}
    /\ heartbeat <= now
    /\ over # NULL => heartbeat <= over

\* An entry in flight is the first of its wallet, and the window still runs.
PendingOK ==
    \A e \in pending :
        /\ now < ResolvesAt[e.p]
        /\ entries[e.p][e.w] = NULL
        /\ \A f \in pending : f.p = e.p /\ f.w = e.w => f = e

\* Everything that will ever have happened in the window of p has landed.
Complete(p) ==
    /\ ResolvesAt[p] <= now
    /\ \A i \in 1 .. Len(made) : made[i].ts <= ResolvesAt[p] => made[i] \in events
    /\ over # NULL => over >= ResolvesAt[p]

\* The results p may be settled with: the verdict on all that happened, once
\* that is known.
Truth(p) == {r \in Outcomes : /\ Complete(p)
                              /\ ~BridgeOverlap(p, Happened)
                              /\ r = Verdict(p, Happened)}

\* Only those whose entry was right are paid.
Earned(paid, entry, st, r) ==
    \A w \in Wallets : paid[w] > 0 => st = "settled" /\ entry[w] = r

RoundsOK ==
    \A p \in Predictions :
        /\ status[p] \in {"resolving", "settled", "void"} => ResolvesAt[p] <= now
        /\ status[p] = "settled" => result[p] \in Truth(p)
        /\ Earned(credit[p], entries[p], status[p], result[p])
        /\ Total(credit[p], Wallets) <= Base(p)

RowTypes == [status : {"resolving", "settled", "void"}, result : Outcomes \cup {NULL}]

Undecided(t, p) == t.rows[p].status = "resolving"

\* The round a settlement is at: AtHand of its record.
Hand(t) == CHOOSE p \in t.todo : \A q \in t.todo : ResolvesAt[p] <= ResolvesAt[q]

\* What a settlement holds it may commit.
ClaimFits(t) ==
    /\ t.todo \subseteq t.claimed
    /\ t.rows \in [t.claimed -> RowTypes]
    /\ \A p \in t.claimed :
          /\ status[p] \in {"locked", "resolving"} /\ ResolvesAt[p] <= now
          /\ t.rows[p].status = "settled" => t.rows[p].result \in Truth(p)
    /\ \A p \in Predictions :
          /\ p \in t.claimed =>
                Earned(t.credit[p], entries[p], t.rows[p].status, t.rows[p].result)
          /\ p \notin t.claimed => \A w \in Wallets : t.credit[p][w] = 0
          /\ Total(t.credit[p], Wallets) <= Base(p)

\* It decides one round at a time.
RowsFit(t) ==
    /\ ClaimFits(t)
    /\ \A p \in t.todo : Undecided(t, p) \/ (t.pc = "credit" /\ p = Hand(t))

\* Where it is with the round at hand: those still to be credited have a share.
HandFits(t) ==
    /\ t.pc # "gate" => t.todo # {} /\ Complete(Hand(t))
    /\ t.pc = "judge" => Undecided(t, Hand(t))
    /\ t.pc = "credit" =>
          /\ t.rows[Hand(t)].status = "settled"
          /\ \A w \in t.right : /\ entries[Hand(t)][w] = t.rows[Hand(t)].result
                                /\ t.credit[Hand(t)][w] = 0
          /\ Total(t.credit[Hand(t)], Wallets) + Cardinality(t.right) * t.share
                <= Base(Hand(t))

\* What it credits fits into the caps together with what is there.
CapsFit(t) ==
    /\ Spent(credit, Wallets) + Spent(t.credit, Wallets) <= Max(DailyCaps)
    /\ \A w \in Wallets : Spent(credit, {w}) + Spent(t.credit, {w}) <= WalletCap

\* The rounds a settlement has decided, by how w entered them.
TxRight(t, w) == {p \in t.claimed : t.rows[p].status = "settled"
                                    /\ entries[p][w] = t.rows[p].result}
TxWrong(t, w) == {p \in t.claimed : t.rows[p].status = "settled"
                                    /\ entries[p][w] \notin {NULL, t.rows[p].result}}

\* A streak s of wallet w that counts no round of these twice.
Counted(s, right, wrong) ==
    s <= Cardinality(right) /\ (wrong = {} => s = Cardinality(right))

StreaksFit(t) ==
    \A w \in Wallets : Counted(t.streak[w], Right(w) \cup TxRight(t, w),
                               Wrong(w) \cup TxWrong(t, w))

Fits(t) == RowsFit(t) /\ HandFits(t) /\ CapsFit(t) /\ StreaksFit(t)

TxOK ==
    /\ \A c, d \in Callers : tx[c] # NULL /\ tx[d] # NULL => c = d
    /\ \A c \in Callers : tx[c] # NULL => Fits(tx[c])

SettleInv ==
    TypeOK /\ TelemetryOK /\ PendingOK /\ RoundsOK /\ TxOK /\ CapsHold /\ StreaksEarned

-----------------------------------------------------------------------------
(* Least and greatest                                                      *)

\* The candidate a settlement is at is one of those it has still to do.
LEMMA HandIn ==
    ASSUME NEW t, t.todo \subseteq Predictions, t.todo # {}
    PROVE  Hand(t) \in t.todo /\ Hand(t) \in Predictions
  <1> DEFINE times == {ResolvesAt[p] : p \in t.todo}
             order == OpToRel(<, Nat)
  <1>0. \A p \in Predictions : ResolvesAt[p] \in Nat
    BY RoundAssumption, CapAssumption
  <1>1. times \subseteq Nat /\ times # {}
    BY <1>0
  <1>2. \E n \in times : \A m \in times : ~ (<<m, n>> \in order)
    <2>1. IsWellFoundedOn(order, Nat)
      BY NatLessThanWellFounded
    <2> HIDE DEF times, order
    <2> QED
      BY <1>1, <2>1, WFMin
  <1>3. PICK n \in times : \A m \in times : ~ (<<m, n>> \in order)
    BY <1>2
  <1>4. \A m \in times : n <= m
    <2>1. order = {ss \in Nat \X Nat : ss[1] < ss[2]}
      BY DEF OpToRel
    <2> HIDE DEF order
    <2>2. \A m \in times : <<m, n>> \in order <=> m < n
      BY <1>1, <2>1
    <2>3. \A m \in times : ~ (m < n)
      BY <1>3, <2>2
    <2> QED
      BY <1>1, <2>3
  <1>5. \E p \in t.todo : \A q \in t.todo : ResolvesAt[p] <= ResolvesAt[q]
    BY <1>3, <1>4
  <1> QED
    BY <1>5 DEF Hand

\* The greatest daily cap is one of them.
LEMMA MaxCap ==
    /\ Max(DailyCaps) \in DailyCaps /\ Max(DailyCaps) \in Nat
    /\ \A cap \in DailyCaps : cap <= Max(DailyCaps)
  <1> DEFINE Good == {T \in SUBSET DailyCaps :
                         T # {} => \E m \in T : \A x \in T : m >= x}
  <1>1. ASSUME NEW T \in SUBSET DailyCaps,
               \A U \in SUBSET T : U # T => U \in Good, NEW y \in T
        PROVE  \E m \in T : \A x \in T : m >= x
    <2>1. T \ {y} \in Good /\ T \subseteq Nat
      BY <1>1, CapAssumption
    <2>2. CASE T = {y}
      BY <2>1, <2>2
    <2>3. CASE T # {y}
      <3>1. PICK m \in T \ {y} : \A x \in T \ {y} : m >= x
        BY <2>1, <2>3
      <3> QED
        BY <2>1, <3>1
    <2> QED
      BY <2>2, <2>3
  <1>2. SUBSET DailyCaps \subseteq Good
    <2>1. \A T \in SUBSET DailyCaps :
              (\A U \in SUBSET T : U # T => U \in Good) => T \in Good
      BY <1>1
    <2> HIDE DEF Good
    <2> QED
      BY <2>1, SubsetInduction, CapAssumption
  <1>3. \E m \in DailyCaps : \A x \in DailyCaps : m >= x
    BY <1>2, CapAssumption
  <1>4. Max(DailyCaps) \in DailyCaps /\ \A x \in DailyCaps : Max(DailyCaps) >= x
    BY <1>3 DEF Max
  <1> QED
    BY <1>4, CapAssumption

-----------------------------------------------------------------------------
(* Telemetry                                                               *)

LEMMA MadeType ==
    ASSUME TypeOK
    PROVE  /\ Len(made) \in Nat /\ now \in Nat /\ heartbeat \in Nat
           /\ \A i \in 1 .. Len(made) : made[i] \in EventRows /\ made[i].ts \in Nat
           /\ \A e \in events : e.ts \in Nat
           /\ \A p \in Predictions : ResolvesAt[p] \in Nat /\ LocksAt[p] \in Nat
                                     /\ LocksAt[p] < ResolvesAt[p]
           /\ over # NULL => over \in Nat
           /\ Happened = {made[i] : i \in 1 .. Len(made)}
  <1>1. made \in Seq(EventRows)
    BY DEF TypeOK
  <1>2. Len(made) \in Nat /\ DOMAIN made = 1 .. Len(made)
        /\ \A i \in 1 .. Len(made) : made[i] \in EventRows
    BY <1>1, LenProperties, ElementOfSeq
  <1>3. \A e \in EventRows : e.ts \in Nat
    BY DEF EventRows
  <1> QED
    BY <1>2, <1>3, CapAssumption, RoundAssumption DEF TypeOK, Happened

\* The gate: an event or a heartbeat past the window proves it complete.
LEMMA ReadyIsComplete ==
    ASSUME TypeOK, TelemetryOK, NEW p \in Predictions, ResolvesAt[p] <= now, Ready(p)
    PROVE  Complete(p)
  <1>1. CASE heartbeat >= ResolvesAt[p]
    BY <1>1, MadeType DEF TelemetryOK, Complete
  <1>2. ASSUME NEW e \in events, e.ts >= ResolvesAt[p]
        PROVE  Complete(p)
    <2>1. PICK n \in 0 .. Len(made) : events = {made[i] : i \in 1 .. n}
      BY DEF TelemetryOK
    <2>2. PICK k \in 1 .. n : e = made[k]
      BY <1>2, <2>1
    <2>3. k \in 1 .. Len(made)
      BY <2>1, <2>2, MadeType
    <2>4. ASSUME NEW i \in 1 .. Len(made), made[i].ts <= ResolvesAt[p]
          PROVE  made[i] \in events
      <3>1. ~ (k < i)
        <4> SUFFICES ASSUME k < i PROVE FALSE
          OBVIOUS
        <4>1. made[k].ts < made[i].ts
          BY <2>3 DEF TelemetryOK
        <4> QED
          BY <1>2, <2>2, <2>3, <2>4, <4>1, MadeType
      <3>2. i \in 1 .. n
        BY <2>1, <2>2, <3>1, MadeType
      <3> QED
        BY <2>1, <3>2
    <2>5. over # NULL => over >= ResolvesAt[p]
      BY <1>2, <2>2, <2>3, MadeType DEF TelemetryOK
    <2> QED
      BY <2>4, <2>5 DEF Complete
  <1> QED
    BY <1>1, <1>2 DEF Ready

\* What has landed did happen.
LEMMA LandedHappened ==
    ASSUME TypeOK, TelemetryOK
    PROVE  events \subseteq Happened
  <1>1. PICK n \in 0 .. Len(made) : events = {made[i] : i \in 1 .. n}
    BY DEF TelemetryOK
  <1> QED
    BY <1>1, MadeType

\* On a complete window the database says what really happened.
LEMMA CompleteSays ==
    ASSUME TypeOK, TelemetryOK, NEW p \in Predictions, Complete(p)
    PROVE  /\ Verdict(p, events) = Verdict(p, Happened)
           /\ BridgeOverlap(p, events) = BridgeOverlap(p, Happened)
  <1>1. ASSUME NEW e \in Happened, e.ts <= ResolvesAt[p] PROVE e \in events
    BY <1>1, MadeType DEF Complete
  <1>2. Window(p, events) = Window(p, Happened)
    BY <1>1, LandedHappened DEF Window
  <1>3. Verdict(p, events) = Verdict(p, Happened)
    BY <1>2 DEF Verdict, Deciding, FirstHits, Hit
  <1>4. BridgeOverlap(p, events) = BridgeOverlap(p, Happened)
    <2>1. ASSUME NEW u \in Happened, u.ts < LocksAt[p] PROVE u \in events
      BY <1>1, <2>1, MadeType
    <2>2. events \subseteq Happened
      BY LandedHappened
    <2> QED
      BY <1>1, <2>1, <2>2 DEF BridgeOverlap
  <1> QED
    BY <1>3, <1>4

\* A verdict is an outcome or none.
LEMMA VerdictType ==
    ASSUME NEW p, NEW evs
    PROVE  Verdict(p, evs) \in Outcomes \cup {NULL}
  BY DEF Verdict, Answer, Outcomes

-----------------------------------------------------------------------------
(* The clock runs and telemetry arrives                                    *)

\* What it may do to a window: nothing that is recorded belongs to the past.
Moves ==
    /\ now' \in Nat /\ now <= now'
    /\ events \subseteq events'
    /\ over # NULL => over' = over
    /\ over = NULL /\ over' # NULL => over' \in Nat /\ over' >= now
    /\ \/ made' = made
       \/ \E e \in EventRows : e.ts > now /\ made' = Append(made, e)

LEMMA TruthStays ==
    ASSUME TypeOK, Moves, UNCHANGED kind, NEW p \in Predictions
    PROVE  /\ Complete(p) => Complete(p)'
           /\ Truth(p) \subseteq Truth(p)'
  <1>1. CASE made' = made
    <2>1. Complete(p) => Complete(p)'
      BY <1>1, MadeType DEF Moves, Complete
    <2>2. Happened' = Happened /\ Verdict(p, Happened)' = Verdict(p, Happened)
      BY <1>1 DEF Happened, Verdict, Window, Deciding, FirstHits, Hit
    <2>3. BridgeOverlap(p, Happened)' = BridgeOverlap(p, Happened)
      BY <2>2 DEF BridgeOverlap
    <2> QED
      BY <2>1, <2>2, <2>3 DEF Truth
  <1>2. ASSUME NEW e \in EventRows, e.ts > now, made' = Append(made, e)
        PROVE  /\ Complete(p) => Complete(p)'
               /\ Truth(p) \subseteq Truth(p)'
    <2>1. /\ Len(made') = Len(made) + 1
          /\ made'[Len(made) + 1] = e
          /\ \A i \in 1 .. Len(made) : made'[i] = made[i]
          /\ Len(made) \in Nat /\ DOMAIN made' = 1 .. Len(made) + 1
      BY <1>2, MadeType, AppendProperties DEF TypeOK
    <2>2. e.ts \in Nat
      BY DEF EventRows
    <2> SUFFICES ASSUME Complete(p)
                 PROVE  /\ Complete(p)'
                        /\ Verdict(p, Happened)' = Verdict(p, Happened)
                        /\ BridgeOverlap(p, Happened)' = BridgeOverlap(p, Happened)
      BY DEF Truth
    <2>3. e.ts > ResolvesAt[p] /\ e.ts > LocksAt[p]
      BY <1>2, <2>2, MadeType DEF Complete
    <2>4. Complete(p)'
      <3>1. ASSUME NEW i \in 1 .. Len(made'), made'[i].ts <= ResolvesAt[p]
            PROVE  made'[i] \in events'
        <4>1. i # Len(made) + 1
          BY <2>1, <2>2, <2>3, <3>1, MadeType
        <4>2. i \in 1 .. Len(made) /\ made'[i] = made[i]
          BY <2>1, <4>1
        <4> QED
          BY <3>1, <4>2 DEF Complete, Moves
      <3>2. ResolvesAt[p] <= now'
        BY MadeType DEF Complete, Moves
      <3>3. over' # NULL => over' >= ResolvesAt[p]
        BY MadeType DEF Complete, Moves
      <3> QED
        BY <3>1, <3>2, <3>3 DEF Complete
    <2>5. Happened' = Happened \cup {e}
      <3>1. Happened' = {made'[i] : i \in 1 .. Len(made) + 1}
        BY <2>1 DEF Happened
      <3>2. Happened = {made[i] : i \in 1 .. Len(made)}
        BY MadeType
      <3>3. 1 .. Len(made) + 1 = (1 .. Len(made)) \cup {Len(made) + 1}
        BY <2>1
      <3> QED
        BY <2>1, <3>1, <3>2, <3>3
    <2>6. Window(p, Happened)' = Window(p, Happened)
      BY <2>2, <2>3, <2>5, MadeType DEF Window
    <2>7. Verdict(p, Happened)' = Verdict(p, Happened)
      BY <2>6 DEF Verdict, Deciding, FirstHits, Hit
    <2>8. BridgeOverlap(p, Happened)' = BridgeOverlap(p, Happened)
      <3>1. ~ (e.ts <= ResolvesAt[p]) /\ ~ (e.ts < LocksAt[p])
        BY <2>2, <2>3, MadeType
      <3> QED
        BY <2>5, <3>1 DEF BridgeOverlap
    <2> QED
      BY <2>4, <2>7, <2>8
  <1> QED
    BY <1>1, <1>2 DEF Moves

\* Rows that landed are counted by the last of them.
LEMMA LandedCount ==
    ASSUME TypeOK, TelemetryOK, NEW n \in 0 .. Len(made),
           events = {made[i] : i \in 1 .. n}
    PROVE  Cardinality(events) = n
  <1> DEFINE f == [i \in 1 .. n |-> made[i]]
  <1>0. n \in Nat /\ 1 .. n \subseteq 1 .. Len(made)
    BY MadeType
  <1>1. ASSUME NEW i \in 1 .. n, NEW j \in 1 .. n, i # j PROVE made[i] # made[j]
    <2>1. i \in 1 .. Len(made) /\ j \in 1 .. Len(made) /\ (i < j \/ j < i)
      BY <1>0, <1>1
    <2>2. made[i].ts < made[j].ts \/ made[j].ts < made[i].ts
      BY <2>1 DEF TelemetryOK
    <2>3. made[i].ts \in Nat /\ made[j].ts \in Nat
      BY <2>1, MadeType
    <2> QED
      BY <2>2, <2>3
  <1>2. f \in Bijection(1 .. n, events)
    <2>1. f \in [1 .. n -> events]
      OBVIOUS
    <2>2. \A i, j \in 1 .. n : f[i] = f[j] => i = j
      BY <1>1
    <2>3. \A e \in events : \E i \in 1 .. n : f[i] = e
      OBVIOUS
    <2> QED
      BY <2>1, <2>2, <2>3 DEF Bijection, Injection, IsInjective, Surjection
  <1>3. IsFiniteSet(1 .. n) /\ Cardinality(1 .. n) = n
    BY <1>0, FS_Interval
  <1> QED
    BY <1>2, <1>3, FS_Bijection DEF ExistsBijection

\* The variables the rounds are kept in.
Rest == <<rounds, pending, policy, tx, aborts>>

LEMMA RestType ==
    ASSUME TypeOK, UNCHANGED Rest,
           now' \in 0 .. MaxTime, heartbeat' \in 0 .. MaxTime,
           made' \in Seq(EventRows), events' \subseteq EventRows,
           ended' \in 1 .. MaxTime \cup {NULL}, over' \in 0 .. MaxTime \cup {NULL}
    PROVE  TypeOK'
  BY DEF TypeOK, Rest, rounds, policy

LEMMA TelemetryKept ==
    ASSUME TypeOK, TelemetryOK, made' = made,
           now' \in Nat, now <= now',
           heartbeat' \in Nat, heartbeat' <= now',
           over' = over \/ over' = now, over' # NULL => heartbeat' <= over',
           \A i \in 1 .. Len(made) : made[i].ts <= heartbeat' => made[i] \in events',
           \E n \in 0 .. Len(made) : events' = {made[i] : i \in 1 .. n}
    PROVE  TelemetryOK'
  <1>1. ASSUME NEW i \in 1 .. Len(made)
        PROVE  /\ made[i].ts <= now'
               /\ \A j \in 1 .. Len(made) : i < j => made[i].ts < made[j].ts
               /\ over' # NULL => made[i].ts <= over'
    BY MadeType DEF TelemetryOK
  <1>2. \A i \in 1 .. Len(made') :
          /\ made'[i].ts <= now'
          /\ \A j \in 1 .. Len(made') : i < j => made'[i].ts < made'[j].ts
          /\ made'[i].ts <= heartbeat' => made'[i] \in events'
          /\ over' # NULL => made'[i].ts <= over'
    BY <1>1
  <1>3. \E n \in 0 .. Len(made') : events' = {made'[i] : i \in 1 .. n}
    OBVIOUS
  <1> QED
    BY <1>2, <1>3, Zenon DEF TelemetryOK

LEMMA TelemetryNow ==
    ASSUME TelemetryOK
    PROVE  /\ \A i \in 1 .. Len(made) : made[i].ts <= heartbeat => made[i] \in events
           /\ \E n \in 0 .. Len(made) : events = {made[i] : i \in 1 .. n}
           /\ heartbeat <= now /\ (over # NULL => heartbeat <= over)
  BY DEF TelemetryOK

LEMMA TickMoves ==
    ASSUME TypeOK, TelemetryOK, Tick, UNCHANGED Rest
    PROVE  TypeOK' /\ TelemetryOK' /\ Moves
  <1>1. now' = now + 1 /\ now' <= MaxTime /\ now \in Nat /\ MaxTime \in Nat
    BY MadeType, CapAssumption DEF Tick, ClockTo
  <1>2. UNCHANGED <<made, events, heartbeat, ended, over>>
    BY DEF Tick
  <1>3. TypeOK'
    <2>1. now' \in 0 .. MaxTime
      BY <1>1
    <2> QED
      BY <1>2, <2>1, RestType DEF TypeOK
  <1>4. TelemetryOK'
    <2>1. /\ made' = made /\ now' \in Nat /\ now <= now' /\ heartbeat' \in Nat /\ heartbeat' <= now'
          /\ over' = over
          /\ over' # NULL => heartbeat' <= over'
      BY <1>1, <1>2, MadeType, TelemetryNow
    <2>2. /\ \A i \in 1 .. Len(made) : made[i].ts <= heartbeat' => made[i] \in events'
          /\ \E n \in 0 .. Len(made) : events' = {made[i] : i \in 1 .. n}
      BY <1>2, TelemetryNow
    <2> QED
      BY <2>1, <2>2, TelemetryKept, Zenon
  <1> QED
    BY <1>1, <1>2, <1>3, <1>4 DEF Moves

LEMMA CrashMoves ==
    ASSUME TypeOK, TelemetryOK, Crash, UNCHANGED Rest
    PROVE  TypeOK' /\ TelemetryOK' /\ Moves
  <1>1. over = NULL /\ over' = now /\ UNCHANGED <<now, made, events, heartbeat, ended>>
    BY DEF Crash
  <1>2. TypeOK'
    BY <1>1, RestType DEF TypeOK
  <1>3. TelemetryOK'
    <2>1. /\ made' = made /\ now' \in Nat /\ now <= now' /\ heartbeat' \in Nat /\ heartbeat' <= now'
          /\ over' = now /\ heartbeat' <= over'
      BY <1>1, MadeType, TelemetryNow
    <2>2. /\ \A i \in 1 .. Len(made) : made[i].ts <= heartbeat' => made[i] \in events'
          /\ \E n \in 0 .. Len(made) : events' = {made[i] : i \in 1 .. n}
      BY <1>1, TelemetryNow
    <2> QED
      BY <2>1, <2>2, TelemetryKept, Zenon
  <1> QED
    BY <1>1, <1>2, <1>3, MadeType DEF Moves

LEMMA LandMoves ==
    ASSUME TypeOK, TelemetryOK, Land, UNCHANGED Rest
    PROVE  TypeOK' /\ TelemetryOK' /\ Moves
  <1>1. PICK n \in 0 .. Len(made) : events = {made[i] : i \in 1 .. n}
    BY DEF TelemetryOK
  <1>2. Cardinality(events) = n /\ n \in Nat
    BY <1>1, LandedCount
  <1>3. /\ n + 1 \in 1 .. Len(made) /\ n + 1 \in 0 .. Len(made)
        /\ events' = events \cup {made[n + 1]}
        /\ ended' = IF made[n + 1].type = "end" THEN made[n + 1].ts ELSE ended
        /\ UNCHANGED <<now, made, heartbeat, over>>
    BY <1>2, MadeType DEF Land
  <1>4. events' = {made[i] : i \in 1 .. n + 1}
    <2>1. 1 .. n + 1 = (1 .. n) \cup {n + 1}
      BY <1>2
    <2> QED
      BY <1>1, <1>3, <2>1
  <1>5. TypeOK'
    <2>1. made[n + 1] \in EventRows /\ made[n + 1].ts \in 1 .. MaxTime
      BY <1>3, MadeType DEF EventRows
    <2> QED
      BY <1>3, <2>1, RestType DEF TypeOK
  <1>6. TelemetryOK'
    <2>1. \A i \in 1 .. Len(made) : made[i].ts <= heartbeat => made[i] \in events'
      BY <1>3 DEF TelemetryOK
    <2>2. \E k \in 0 .. Len(made) : events' = {made[i] : i \in 1 .. k}
      BY <1>3, <1>4
    <2>3. /\ made' = made /\ now' \in Nat /\ now <= now' /\ heartbeat' \in Nat
          /\ heartbeat' = heartbeat /\ heartbeat' <= now' /\ over' = over
          /\ over' # NULL => heartbeat' <= over'
      BY <1>3, MadeType, TelemetryNow
    <2> QED
      BY <2>1, <2>2, <2>3, TelemetryKept, Zenon
  <1> QED
    BY <1>3, <1>5, <1>6, MadeType DEF Moves

LEMMA BeatMoves ==
    ASSUME TypeOK, TelemetryOK, Beat, UNCHANGED Rest
    PROVE  TypeOK' /\ TelemetryOK' /\ Moves
  <1>1. PICK n \in 0 .. Len(made) : events = {made[i] : i \in 1 .. n}
    BY DEF TelemetryOK
  <1>2. n = Len(made)
    BY <1>1, LandedCount DEF Beat
  <1>3. over = NULL /\ heartbeat' = now /\ UNCHANGED <<now, made, events, ended, over>>
    BY DEF Beat
  <1>4. TypeOK'
    BY <1>3, RestType DEF TypeOK
  <1>5. TelemetryOK'
    <2>1. events' = {made[i] : i \in 1 .. Len(made)}
      BY <1>1, <1>2, <1>3
    <2>2. \A i \in 1 .. Len(made) : made[i] \in events'
      BY <2>1
    <2>3. \E k \in 0 .. Len(made) : events' = {made[i] : i \in 1 .. k}
      BY <1>1, <1>3
    <2>4. /\ made' = made /\ now' \in Nat /\ now <= now' /\ heartbeat' \in Nat /\ heartbeat' <= now'
          /\ over' = over /\ over' = NULL
      BY <1>3, MadeType, SMTT(60)
    <2>5. \A i \in 1 .. Len(made) : made[i].ts <= heartbeat' => made[i] \in events'
      BY <2>2
    <2> QED
      BY <2>3, <2>4, <2>5, TelemetryKept, Zenon
  <1> QED
    BY <1>3, <1>4, <1>5, MadeType DEF Moves

LEMMA RecordMoves ==
    ASSUME TypeOK, TelemetryOK, NEW type \in Types, Record(type), UNCHANGED Rest
    PROVE  TypeOK' /\ TelemetryOK' /\ Moves
  <1> DEFINE e == [ts |-> now + 1, type |-> type]
  <1>1. now' = now + 1 /\ now' <= MaxTime /\ now \in Nat /\ MaxTime \in Nat
    BY MadeType, CapAssumption DEF Record, ClockTo
  <1>2. /\ over = NULL /\ made' = Append(made, e)
        /\ over' = (IF type = "end" THEN now + 1 ELSE over)
        /\ UNCHANGED <<events, heartbeat, ended>>
    BY DEF Record
  <1>3. e \in EventRows /\ e.ts = now + 1
    BY <1>1 DEF EventRows
  <1> HIDE DEF e
  <1>4. /\ made' \in Seq(EventRows)
        /\ Len(made') = Len(made) + 1 /\ made'[Len(made) + 1] = e
        /\ \A i \in 1 .. Len(made) : made'[i] = made[i]
        /\ Len(made) \in Nat
    BY <1>2, <1>3, MadeType, AppendProperties DEF TypeOK
  <1>5. TypeOK'
    <2>1. now' \in 0 .. MaxTime /\ over' \in 0 .. MaxTime \cup {NULL}
      BY <1>1, <1>2
    <2> QED
      BY <1>2, <1>4, <2>1, RestType DEF TypeOK
  <1>6. TelemetryOK'
    <2>1. ASSUME NEW i \in 1 .. Len(made')
          PROVE  /\ made'[i].ts <= now'
                 /\ \A j \in 1 .. Len(made') : i < j => made'[i].ts < made'[j].ts
                 /\ made'[i].ts <= heartbeat' => made'[i] \in events'
                 /\ over' # NULL => made'[i].ts <= over'
      <3>1. CASE i = Len(made) + 1
        BY <1>1, <1>2, <1>3, <1>4, <3>1, MadeType DEF TelemetryOK
      <3>2. CASE i \in 1 .. Len(made)
        <4>1. made'[i] = made[i] /\ made[i].ts <= now /\ made[i].ts \in Nat
          BY <1>4, <3>2, MadeType DEF TelemetryOK
        <4>2. ASSUME NEW j \in 1 .. Len(made'), i < j
              PROVE  made'[i].ts < made'[j].ts
          <5>1. CASE j = Len(made) + 1
            BY <1>1, <1>3, <1>4, <4>1, <5>1
          <5>2. CASE j \in 1 .. Len(made)
            BY <1>4, <3>2, <4>2, <5>2 DEF TelemetryOK
          <5> QED
            BY <1>4, <5>1, <5>2
        <4>3. made[i].ts <= heartbeat => made[i] \in events
          BY <3>2 DEF TelemetryOK
        <4> QED
          BY <1>1, <1>2, <4>1, <4>2, <4>3
      <3> QED
        BY <1>4, <3>1, <3>2
    <2>2. \E n \in 0 .. Len(made') : events' = {made'[i] : i \in 1 .. n}
      <3>1. PICK n \in 0 .. Len(made) : events = {made[i] : i \in 1 .. n}
        BY DEF TelemetryOK
      <3>2. n \in 0 .. Len(made') /\ \A i \in 1 .. n : made'[i] = made[i]
        BY <1>4
      <3>3. events' = {made'[i] : i \in 1 .. n}
        BY <1>2, <3>1, <3>2
      <3> QED
        BY <3>2, <3>3
    <2>3. heartbeat' <= now' /\ (over' # NULL => heartbeat' <= over')
      BY <1>1, <1>2, MadeType DEF TelemetryOK
    <2> QED
      BY <2>1, <2>2, <2>3 DEF TelemetryOK
  <1>7. Moves
    <2>1. \E x \in EventRows : x.ts > now /\ made' = Append(made, x)
      BY <1>1, <1>2, <1>3
    <2> QED
      BY <1>1, <1>2, <2>1 DEF Moves
  <1> QED
    BY <1>5, <1>6, <1>7

LEMMA InOrderMoves ==
    ASSUME TypeOK, TelemetryOK, InOrder
    PROVE  TypeOK' /\ TelemetryOK' /\ Moves /\ UNCHANGED Rest
  <1>1. UNCHANGED Rest
    BY DEF InOrder, Rest
  <1> QED
    BY <1>1, TickMoves, CrashMoves, LandMoves, BeatMoves, RecordMoves DEF InOrder

-----------------------------------------------------------------------------
(* Steps that leave the settlements alone                                  *)

\* Nothing that a settlement read or wrote changes: a window that is over has
\* its entries, and what is known of it stays known.
Quiet ==
    /\ tx' = tx /\ credit' = credit /\ streak' = streak /\ result' = result
    /\ now' \in Nat /\ now <= now'
    /\ \A p \in Predictions :
          /\ Complete(p) => Complete(p)'
          /\ Truth(p) \subseteq Truth(p)'
          /\ ResolvesAt[p] <= now => entries'[p] = entries[p]
          /\ status[p] # "open" => status'[p] = status[p]
          /\ status'[p] # "locked" => status'[p] = status[p]

\* The rounds a wallet was right or wrong about stay the same.
LEMMA QuietScores ==
    ASSUME TypeOK, RoundsOK, Quiet, NEW w \in Wallets
    PROVE  Right(w)' = Right(w) /\ Wrong(w)' = Wrong(w)
  <1>1. ASSUME NEW p \in Predictions
        PROVE  /\ (status'[p] = "settled") <=> (status[p] = "settled")
               /\ result'[p] = result[p]
               /\ status[p] = "settled" => entries'[p][w] = entries[p][w]
    BY DEF Quiet, RoundsOK
  <1> QED
    BY <1>1 DEF Right, Wrong

LEMMA QuietRounds ==
    ASSUME TypeOK, RoundsOK, CapsHold, StreaksEarned, Quiet
    PROVE  RoundsOK' /\ CapsHold' /\ StreaksEarned'
  <1>1. RoundsOK'
    <2> SUFFICES ASSUME NEW p \in Predictions
        PROVE  /\ status'[p] \in {"resolving", "settled", "void"} => ResolvesAt[p] <= now'
               /\ status'[p] = "settled" => result'[p] \in Truth(p)'
               /\ Earned(credit'[p], entries'[p], status'[p], result'[p])
               /\ Total(credit'[p], Wallets) <= Base(p)
      BY DEF RoundsOK
    <2>1. status'[p] \in {"resolving", "settled", "void"} =>
              status[p] = status'[p] /\ ResolvesAt[p] <= now
      BY DEF Quiet, RoundsOK
    <2>2. status[p] = "settled" =>
              status'[p] = "settled" /\ entries'[p] = entries[p] /\ ResolvesAt[p] <= now
      BY DEF Quiet, RoundsOK
    <2>3. ResolvesAt[p] <= now => ResolvesAt[p] <= now'
      BY MadeType DEF Quiet
    <2>4. status'[p] = "settled" => result'[p] \in Truth(p)'
      BY <2>1 DEF Quiet, RoundsOK
    <2>5. Earned(credit'[p], entries'[p], status'[p], result'[p])
      <3>1. \A w \in Wallets : credit[p][w] > 0 =>
                status[p] = "settled" /\ entries[p][w] = result[p]
        BY DEF RoundsOK, Earned
      <3> QED
        BY <2>2, <3>1 DEF Quiet, Earned
    <2>6. Total(credit'[p], Wallets) <= Base(p)
      BY DEF RoundsOK, Quiet
    <2> QED
      BY <2>1, <2>3, <2>4, <2>5, <2>6
  <1>2. CapsHold'
    BY DEF CapsHold, Quiet
  <1>3. StreaksEarned'
    BY QuietScores DEF StreaksEarned, Quiet
  <1> QED
    BY <1>1, <1>2, <1>3

LEMMA QuietTx ==
    ASSUME TypeOK, RoundsOK, TxOK, Quiet
    PROVE  TxOK'
  <1>1. \A c, d \in Callers : tx'[c] # NULL /\ tx'[d] # NULL => c = d
    BY DEF TxOK, Quiet
  <1>2. ASSUME NEW c \in Callers, tx'[c] # NULL
        PROVE  Fits(tx[c])'
    <2> DEFINE t == tx[c]
    <2>0. t' = t /\ t # NULL /\ RowsFit(t) /\ HandFits(t) /\ CapsFit(t) /\ StreaksFit(t)
      BY <1>2 DEF TxOK, Quiet, Fits
    <2>1. \A p \in t.claimed : /\ p \in Predictions /\ ResolvesAt[p] <= now
                               /\ status'[p] = status[p] /\ entries'[p] = entries[p]
      <3>1. t.claimed \subseteq Predictions
        BY <2>0 DEF TypeOK, Transactions
      <3> QED
        BY <2>0, <3>1 DEF RowsFit, ClaimFits, Quiet
    <2>2. RowsFit(t)'
      <3>1. \A p \in t.claimed :
               /\ status'[p] \in {"locked", "resolving"} /\ ResolvesAt[p] <= now'
               /\ t.rows[p].status = "settled" => t.rows[p].result \in Truth(p)'
        <4> SUFFICES ASSUME NEW p \in t.claimed
            PROVE /\ status'[p] \in {"locked", "resolving"} /\ ResolvesAt[p] <= now'
                  /\ t.rows[p].status = "settled" => t.rows[p].result \in Truth(p)'
          OBVIOUS
        <4>1. status[p] \in {"locked", "resolving"} /\ ResolvesAt[p] <= now'
          BY <2>0, <2>1, MadeType DEF RowsFit, ClaimFits, Quiet
        <4>2. t.rows[p].status = "settled" => t.rows[p].result \in Truth(p)
          BY <2>0 DEF RowsFit, ClaimFits
        <4> QED
          BY <2>1, <4>1, <4>2 DEF Quiet
      <3>2. \A p \in Predictions : p \in t.claimed =>
               Earned(t.credit[p], entries'[p], t.rows[p].status, t.rows[p].result)
        BY <2>0, <2>1 DEF RowsFit, ClaimFits
      <3> HIDE DEF t
      <3> QED
        BY <2>0, <3>1, <3>2 DEF RowsFit, ClaimFits, Undecided
    <2>3. HandFits(t)'
      <3>1. t.pc # "gate" => Hand(t) \in t.claimed
        <4>1. t.todo \subseteq Predictions /\ t.todo \subseteq t.claimed
          BY <2>0 DEF TypeOK, Transactions, RowsFit, ClaimFits
        <4>2. t.pc # "gate" => t.todo # {}
          BY <2>0 DEF HandFits
        <4> QED
          BY <4>1, <4>2, HandIn
      <3>2. t.pc # "gate" => Complete(Hand(t))'
        BY <2>0, <2>1, <3>1 DEF HandFits, Quiet, Complete
      <3> HIDE DEF t
      <3> QED
        BY <2>0, <2>1, <3>1, <3>2, ZenonT(60) DEF HandFits, Undecided, Hand
    <2>4. CapsFit(t)'
      BY <2>0 DEF CapsFit, Quiet
    <2>5. StreaksFit(t)'
      <3>1. ASSUME NEW w \in Wallets
            PROVE  /\ TxRight(t, w)' = TxRight(t, w)
                   /\ TxWrong(t, w)' = TxWrong(t, w)
        BY <2>0, <2>1 DEF TxRight, TxWrong
      <3> QED
        BY <2>0, <3>1, QuietScores DEF StreaksFit
    <2> QED
      BY <2>2, <2>3, <2>4, <2>5 DEF Fits
  <1> QED
    BY <1>1, <1>2 DEF TxOK

\* What is known of a window changes with the telemetry alone.
LEMMA SameTruth ==
    ASSUME UNCHANGED telemetry, UNCHANGED kind, NEW p \in Predictions
    PROVE  Complete(p)' = Complete(p) /\ Truth(p)' = Truth(p)
  <1>1. Complete(p)' = Complete(p)
    BY DEF Complete, telemetry
  <1>2. Happened' = Happened
    BY DEF Happened, telemetry
  <1>3. Verdict(p, Happened)' = Verdict(p, Happened)
    BY <1>2 DEF Verdict, Window, Deciding, FirstHits, Hit
  <1>4. BridgeOverlap(p, Happened)' = BridgeOverlap(p, Happened)
    BY <1>2 DEF BridgeOverlap
  <1> QED
    BY <1>1, <1>3, <1>4 DEF Truth

LEMMA SameTelemetry ==
    ASSUME TelemetryOK, UNCHANGED telemetry
    PROVE  TelemetryOK'
  BY DEF TelemetryOK, telemetry

\* The clock waits for the entries in flight.
LEMMA ClockWaits ==
    ASSUME TypeOK, PendingOK, InOrder
    PROVE  PendingOK'
  <1>1. \A e \in pending : now' < ResolvesAt[e.p]
    BY DEF InOrder, Tick, Record, ClockTo, ClockFree, Crash, Land, Beat, PendingOK
  <1>2. pending' = pending /\ entries' = entries
    BY DEF InOrder, rounds
  <1> QED
    BY <1>1, <1>2 DEF PendingOK

\* Settlements in progress stay sound under telemetry that arrives in order,
\* whoever delivers it.
LEMMA TelemetryStep ==
    ASSUME SettleInv, TypeOK', TelemetryOK', PendingOK', Moves, UNCHANGED Rest
    PROVE  SettleInv'
  <1>1. UNCHANGED kind /\ UNCHANGED <<status, result, entries, credit, streak, tx>>
    BY DEF Rest, rounds
  <1>2. \A p \in Predictions : /\ Complete(p) => Complete(p)'
                               /\ Truth(p) \subseteq Truth(p)'
    BY <1>1, TruthStays DEF SettleInv
  <1>3. Quiet
    BY <1>1, <1>2 DEF Quiet, Moves
  <1> QED
    BY <1>3, QuietRounds, QuietTx DEF SettleInv

LEMMA InOrderStep ==
    ASSUME SettleInv, InOrder
    PROVE  SettleInv'
  <1>1. TypeOK' /\ TelemetryOK' /\ Moves /\ UNCHANGED Rest
    BY InOrderMoves DEF SettleInv
  <1>2. PendingOK'
    BY ClockWaits DEF SettleInv
  <1> QED
    BY <1>1, <1>2, TelemetryStep

LEMMA EnterBeginStep ==
    ASSUME SettleInv, NEW p \in Predictions, NEW w \in Wallets, NEW o \in Outcomes,
           EnterBegin(p, w, o)
    PROVE  SettleInv'
  <1>1. /\ status[p] = "open" /\ now < LocksAt[p] /\ entries[p][w] = NULL
        /\ \A e \in pending : ~ (e.p = p /\ e.w = w)
        /\ pending' = pending \cup {[p |-> p, w |-> w, o |-> o]}
        /\ UNCHANGED <<telemetry, rounds, policy, tx, aborts>>
    BY DEF EnterBegin
  <1>2. TypeOK' /\ TelemetryOK'
    BY <1>1, SameTelemetry DEF SettleInv, TypeOK, telemetry, rounds, policy
  <1>3. PendingOK'
    <2>1. now < ResolvesAt[p] /\ now' = now /\ entries' = entries
      BY <1>1, MadeType DEF SettleInv, telemetry, rounds
    <2> QED
      BY <1>1, <2>1 DEF SettleInv, PendingOK
  <1>4. UNCHANGED kind /\ UNCHANGED <<status, result, entries, credit, streak, tx, now>>
    BY <1>1 DEF rounds, telemetry
  <1>5. Quiet
    BY <1>1, <1>4, SameTruth, MadeType DEF Quiet, SettleInv
  <1> QED
    BY <1>2, <1>3, <1>5, QuietRounds, QuietTx DEF SettleInv

LEMMA EnterFinishStep ==
    ASSUME SettleInv, NEW e \in pending, EnterFinish(e)
    PROVE  SettleInv'
  <1>1. /\ entries' = [entries EXCEPT ![e.p][e.w] = e.o]
        /\ pending' = pending \ {e}
        /\ UNCHANGED <<telemetry, kind, status, result, credit, streak, policy, tx, aborts>>
    BY DEF EnterFinish
  <1>2. e \in [p : Predictions, w : Wallets, o : Outcomes]
    BY DEF SettleInv, TypeOK
  <1>3. TypeOK' /\ TelemetryOK'
    <2>1. entries' \in [Predictions -> [Wallets -> Outcomes \cup {NULL}]]
      BY <1>1, <1>2 DEF SettleInv, TypeOK
    <2> QED
      BY <1>1, <2>1, SameTelemetry DEF SettleInv, TypeOK, telemetry, policy
  <1>4. PendingOK'
    <2>1. now' = now
      BY <1>1 DEF telemetry
    <2>2. \A f \in pending : f \in [p : Predictions, w : Wallets, o : Outcomes]
      BY DEF SettleInv, TypeOK
    <2>3. ASSUME NEW f \in pending, f # e PROVE entries'[f.p][f.w] = NULL
      <3>1. ~ (f.p = e.p /\ f.w = e.w) /\ entries[f.p][f.w] = NULL
        BY <2>3 DEF SettleInv, PendingOK
      <3> QED
        BY <1>1, <1>2, <2>2, <3>1 DEF SettleInv, TypeOK
    <2> QED
      BY <1>1, <2>1, <2>3 DEF SettleInv, PendingOK
  <1>5. Quiet
    <2>1. UNCHANGED <<status, result, credit, streak, tx, now>>
      BY <1>1 DEF telemetry
    <2>2. ASSUME NEW p \in Predictions, ResolvesAt[p] <= now
          PROVE  entries'[p] = entries[p]
      <3>1. p # e.p
        BY <1>2, <2>2, MadeType DEF SettleInv, PendingOK
      <3> QED
        BY <1>1, <3>1 DEF SettleInv, TypeOK
    <2> QED
      BY <1>1, <2>1, <2>2, SameTruth, MadeType DEF Quiet, SettleInv
  <1> QED
    BY <1>3, <1>4, <1>5, QuietRounds, QuietTx DEF SettleInv

\* An operator changes what is to be credited, and nothing that was.
LEMMA PolicyStep ==
    ASSUME SettleInv,
           UNCHANGED <<telemetry, rounds, pending, tx, aborts>>,
           blocked' \subseteq Wallets, rewards' \in BOOLEAN,
           dailyCap' \in DailyCaps, flips' \in 0 .. MaxFlips
    PROVE  SettleInv'
  <1>1. TypeOK' /\ TelemetryOK'
    BY SameTelemetry DEF SettleInv, TypeOK, telemetry, rounds
  <1>2. PendingOK'
    BY DEF SettleInv, PendingOK, telemetry, rounds
  <1>3. UNCHANGED kind /\ UNCHANGED <<status, result, entries, credit, streak, tx, now>>
    BY DEF rounds, telemetry
  <1>4. Quiet
    BY <1>3, SameTruth, MadeType DEF Quiet, SettleInv
  <1> QED
    BY <1>1, <1>2, <1>4, QuietRounds, QuietTx DEF SettleInv

LEMMA OperatorStep ==
    ASSUME SettleInv,
           \/ \E w \in Wallets : Block(w)
           \/ SwitchRewards
           \/ \E cap \in DailyCaps : SetDailyCap(cap)
    PROVE  SettleInv'
  <1>1. flips \in 0 .. MaxFlips /\ blocked \subseteq Wallets
        /\ rewards \in BOOLEAN /\ dailyCap \in DailyCaps /\ MaxFlips \in Nat
    BY CapAssumption DEF SettleInv, TypeOK
  <1>2. Flip => flips' \in 0 .. MaxFlips
    BY <1>1 DEF Flip
  <1>3. ASSUME NEW w \in Wallets, Block(w) PROVE SettleInv'
    BY <1>1, <1>2, <1>3, PolicyStep DEF Block
  <1>4. ASSUME SwitchRewards PROVE SettleInv'
    BY <1>1, <1>2, <1>4, PolicyStep DEF SwitchRewards
  <1>5. ASSUME NEW cap \in DailyCaps, SetDailyCap(cap) PROVE SettleInv'
    BY <1>1, <1>2, <1>5, PolicyStep DEF SetDailyCap
  <1> QED
    BY <1>3, <1>4, <1>5

LEMMA LockStep ==
    ASSUME SettleInv, LockDue
    PROVE  SettleInv'
  <1> DEFINE due == {p \in Predictions : status[p] = "open" /\ now >= LocksAt[p]}
  <1>1. /\ status' = [p \in Predictions |-> IF p \in due THEN "locked" ELSE status[p]]
        /\ UNCHANGED <<telemetry, kind, result, entries, credit, streak, pending, policy,
                       tx, aborts>>
    BY DEF LockDue
  <1>2. TypeOK' /\ TelemetryOK'
    BY <1>1, SameTelemetry DEF SettleInv, TypeOK, telemetry, policy
  <1>3. PendingOK'
    BY <1>1 DEF SettleInv, PendingOK, telemetry
  <1>4. UNCHANGED kind /\ UNCHANGED <<result, entries, credit, streak, tx, now>>
    BY <1>1 DEF telemetry
  <1>5. \A p \in Predictions : /\ status[p] # "open" => status'[p] = status[p]
                               /\ status'[p] # "locked" => status'[p] = status[p]
    BY <1>1
  <1>6. Quiet
    BY <1>1, <1>4, <1>5, SameTruth, MadeType DEF Quiet, SettleInv
  <1> QED
    BY <1>2, <1>3, <1>6, QuietRounds, QuietTx DEF SettleInv

-----------------------------------------------------------------------------
(* Steps of a settlement                                                   *)

Ledgers == [Predictions -> [Wallets -> Nat]]

LEMMA Typed ==
    ASSUME NEW t \in Transactions
    PROVE  /\ t.claimed \subseteq Predictions /\ t.todo \subseteq Predictions
           /\ t.pc \in Phases /\ t.credit \in Ledgers
           /\ t.streak \in [Wallets -> Nat] /\ t.cap \in DailyCaps /\ t.cap \in Nat
           /\ t.right \subseteq Wallets /\ IsFiniteSet(t.right) /\ t.share \in Nat
           /\ t.cap <= Max(DailyCaps)
  <1>1. t.right \subseteq Wallets /\ t.cap \in DailyCaps
    BY DEF Transactions
  <1>2. IsFiniteSet(t.right)
    BY <1>1, RoundAssumption, FS_Subset
  <1> QED
    BY <1>1, <1>2, MaxCap, CapAssumption DEF Transactions, Ledgers

LEMMA HandSame ==
    ASSUME NEW t, NEW u, u.todo = t.todo
    PROVE  Hand(u) = Hand(t)
  BY DEF Hand

\* A settlement may go on with what fits.
LEMMA TxStep ==
    ASSUME SettleInv, NEW c \in Callers, \A d \in Callers \ {c} : tx[d] = NULL,
           NEW t \in Transactions, Fits(t), tx' = [tx EXCEPT ![c] = t],
           UNCHANGED <<telemetry, rounds, pending, policy, aborts>>
    PROVE  SettleInv'
  <1>1. TypeOK' /\ TelemetryOK'
    BY SameTelemetry DEF SettleInv, TypeOK, telemetry, rounds, policy
  <1>2. UNCHANGED <<now, kind, status, result, entries, credit, streak, pending>>
    BY DEF telemetry, rounds
  <1>3. PendingOK' /\ CapsHold' /\ StreaksEarned'
    BY <1>2 DEF SettleInv, PendingOK, CapsHold, StreaksEarned, Right, Wrong
  <1>4. \A p \in Predictions : Truth(p)' = Truth(p) /\ Complete(p)' = Complete(p)
    BY SameTruth, <1>2
  <1>5. RoundsOK'
    BY <1>2, <1>4 DEF SettleInv, RoundsOK
  <1>6. TxOK'
    <2>1. \A d \in Callers : tx'[d] # NULL => d = c /\ tx'[d] = t
      BY DEF SettleInv, TypeOK
    <2>2. ASSUME NEW d \in Callers, tx'[d] # NULL
          PROVE  Fits(tx[d])'
      <3> DEFINE u == tx[d]
      <3>1. u' = t
        BY <2>1, <2>2
      <3> HIDE DEF u
      <3>2. RowsFit(u)'
        <4>1. \A p \in t.claimed : p \in Predictions
          BY Typed
        <4> QED
          BY <1>2, <1>4, <3>1, <4>1 DEF Fits, RowsFit, ClaimFits, Undecided, Hand
      <3>3. HandFits(u)'
        <4>1. t.pc # "gate" => Hand(t) \in Predictions
          BY Typed, HandIn DEF Fits, HandFits
        <4>2. t.pc # "gate" => Complete(Hand(t))'
          BY <1>2, <4>1 DEF Fits, HandFits, Complete, telemetry
        <4> QED
          BY <1>2, <3>1, <4>2 DEF Fits, HandFits, Undecided, Hand
      <3>4. CapsFit(u)'
        BY <1>2, <3>1 DEF Fits, CapsFit
      <3>5. StreaksFit(u)'
        BY <1>2, <3>1 DEF Fits, StreaksFit, TxRight, TxWrong, Right, Wrong
      <3> QED
        BY <3>2, <3>3, <3>4, <3>5 DEF Fits, u
    <2> QED
      BY <2>1, <2>2 DEF TxOK
  <1> QED
    BY <1>1, <1>3, <1>5, <1>6 DEF SettleInv

\* Nothing of an aborted settlement stays.
LEMMA AbortStep ==
    ASSUME SettleInv, NEW c \in Callers, SettleAbort(c)
    PROVE  SettleInv'
  <1>1. /\ tx[c] # NULL /\ tx' = [tx EXCEPT ![c] = NULL]
        /\ aborts < MaxAborts /\ aborts' = aborts + 1
        /\ UNCHANGED <<telemetry, rounds, pending, policy>>
    BY DEF SettleAbort
  <1>2. TypeOK' /\ TelemetryOK'
    <2>1. aborts' \in 0 .. MaxAborts
      <3>1. aborts \in 0 .. MaxAborts /\ MaxAborts \in Nat
        BY CapAssumption DEF SettleInv, TypeOK
      <3> QED
        BY <1>1, <3>1
    <2> QED
      BY <1>1, <2>1, SameTelemetry DEF SettleInv, TypeOK, telemetry, rounds, policy
  <1>3. UNCHANGED <<now, kind, status, result, entries, credit, streak, pending>>
    BY <1>1 DEF telemetry, rounds
  <1>4. PendingOK' /\ CapsHold' /\ StreaksEarned'
    BY <1>3 DEF SettleInv, PendingOK, CapsHold, StreaksEarned, Right, Wrong
  <1>5. \A p \in Predictions : Truth(p)' = Truth(p)
    BY <1>1, <1>3, SameTruth
  <1>6. RoundsOK'
    BY <1>3, <1>5 DEF SettleInv, RoundsOK
  <1>7. TxOK'
    <2>1. \A d \in Callers : tx'[d] = NULL
      BY <1>1 DEF SettleInv, TypeOK, TxOK
    <2> QED
      BY <2>1 DEF TxOK
  <1> QED
    BY <1>2, <1>4, <1>6, <1>7 DEF SettleInv

\* What a ledger credits in all is the sum of what it credits for each round.
LEMMA SpentIs ==
    ASSUME NEW cr \in Ledgers, NEW ws \in SUBSET Wallets
    PROVE  /\ Spent(cr, ws) = Total(PerPrediction(cr, ws), Predictions)
           /\ \A p \in Predictions : /\ PerPrediction(cr, ws)[p] = Total(cr[p], ws)
                                     /\ Total(cr[p], ws) \in Nat
                                     /\ Counts(cr[p], ws)
           /\ Counts(PerPrediction(cr, ws), Predictions)
           /\ Spent(cr, ws) \in Nat
  <1>1. IsFiniteSet(ws) /\ IsFiniteSet(Predictions)
    BY RoundAssumption, FS_Subset
  <1>2. \A p \in Predictions : PerPrediction(cr, ws)[p] = Total(cr[p], ws)
    BY DEF PerPrediction, Total
  <1>3. \A p \in Predictions : Counts(cr[p], ws)
    BY DEF Counts, Ledgers
  <1>4. \A p \in Predictions : Total(cr[p], ws) \in Nat
    BY <1>1, <1>3, TotalType
  <1>5. Counts(PerPrediction(cr, ws), Predictions)
    BY <1>2, <1>4 DEF Counts
  <1>6. Spent(cr, ws) = Total(PerPrediction(cr, ws), Predictions)
    BY DEF Spent, Total
  <1> QED
    BY <1>1, <1>2, <1>3, <1>4, <1>5, <1>6, TotalType

LEMMA SpentNothing ==
    ASSUME NEW cr \in Ledgers, \A p \in Predictions, w \in Wallets : cr[p][w] = 0,
           NEW ws \in SUBSET Wallets
    PROVE  Spent(cr, ws) = 0
  <1>1. IsFiniteSet(ws) /\ IsFiniteSet(Predictions)
    BY RoundAssumption, FS_Subset
  <1>2. \A p \in Predictions : Total(cr[p], ws) = 0
    BY <1>1, TotalNothing
  <1>3. \A p \in Predictions : PerPrediction(cr, ws)[p] = 0
    BY <1>2, SpentIs
  <1> QED
    BY <1>1, <1>3, SpentIs, TotalNothing

\* Ledgers that credit different things add up.
LEMMA SpentPlus ==
    ASSUME NEW f \in Ledgers, NEW g \in Ledgers, NEW h \in Ledgers,
           \A p \in Predictions, w \in Wallets : h[p][w] = f[p][w] + g[p][w],
           NEW ws \in SUBSET Wallets
    PROVE  Spent(h, ws) = Spent(f, ws) + Spent(g, ws)
  <1>1. IsFiniteSet(ws) /\ IsFiniteSet(Predictions)
    BY RoundAssumption, FS_Subset
  <1>2. \A p \in Predictions : Total(h[p], ws) = Total(f[p], ws) + Total(g[p], ws)
    <2> TAKE p \in Predictions
    <2>1. Counts(f[p], ws) /\ Counts(g[p], ws)
      BY SpentIs
    <2> QED
      BY <1>1, <2>1, TotalPlus
  <1> DEFINE ff == PerPrediction(f, ws)
             gg == PerPrediction(g, ws)
             hh == PerPrediction(h, ws)
  <1>3. /\ \A p \in Predictions : hh[p] = ff[p] + gg[p]
        /\ Counts(ff, Predictions) /\ Counts(gg, Predictions)
        /\ Spent(f, ws) = Total(ff, Predictions) /\ Spent(g, ws) = Total(gg, Predictions)
        /\ Spent(h, ws) = Total(hh, Predictions)
    BY <1>2, SpentIs
  <1> HIDE DEF ff, gg, hh
  <1> QED
    BY <1>1, <1>3, TotalPlus

\* One more credit counts for its wallet and in all.
LEMMA SpentOneMore ==
    ASSUME NEW f \in Ledgers, NEW h \in Predictions, NEW w \in Wallets, f[h][w] = 0,
           NEW x \in Nat, NEW g \in Ledgers, g[h][w] = x,
           \A p \in Predictions \ {h} : g[p] = f[p],
           \A v \in Wallets \ {w} : g[h][v] = f[h][v],
           NEW ws \in SUBSET Wallets
    PROVE  /\ w \in ws => Spent(g, ws) = Spent(f, ws) + x
           /\ w \notin ws => Spent(g, ws) = Spent(f, ws)
           /\ Total(g[h], Wallets) = Total(f[h], Wallets) + x
  <1>0. IsFiniteSet(ws) /\ IsFiniteSet(Predictions) /\ IsFiniteSet(Wallets)
    BY RoundAssumption, FS_Subset
  <1>2. ASSUME NEW vs \in SUBSET Wallets, IsFiniteSet(vs)
        PROVE  /\ w \in vs => Total(g[h], vs) = Total(f[h], vs) + x
               /\ w \notin vs => Total(g[h], vs) = Total(f[h], vs)
    <2>1. Counts(f[h], vs) /\ Counts(g[h], vs) /\ Total(f[h], vs) \in Nat
          /\ Total(g[h], vs) \in Nat
      BY SpentIs
    <2>2. CASE w \in vs
      <3>1. \A v \in vs \ {w} : f[h][v] = g[h][v]
        OBVIOUS
      <3>2. Total(g[h], vs) + f[h][w] = Total(f[h], vs) + g[h][w]
        BY <1>2, <2>1, <2>2, <3>1, TotalChanged
      <3> QED
        BY <2>1, <2>2, <3>2
    <2>3. CASE w \notin vs
      <3>1. \A v \in vs : f[h][v] = g[h][v]
        BY <2>3
      <3>2. Total(g[h], vs) = Total(f[h], vs)
        BY <1>2, <3>1, TotalSame
      <3> QED
        BY <2>3, <3>2
    <2> QED
      BY <2>2, <2>3
  <1> DEFINE ff == PerPrediction(f, ws)
             gg == PerPrediction(g, ws)
  <1>3. /\ Counts(ff, Predictions) /\ Counts(gg, Predictions)
        /\ Spent(f, ws) = Total(ff, Predictions)
        /\ Spent(g, ws) = Total(gg, Predictions)
        /\ ff[h] = Total(f[h], ws) /\ gg[h] = Total(g[h], ws)
        /\ ff[h] \in Nat
        /\ \A p \in Predictions \ {h} : ff[p] = gg[p]
    BY SpentIs
  <1> HIDE DEF ff, gg
  <1>4. Total(gg, Predictions) + ff[h] = Total(ff, Predictions) + gg[h]
    BY <1>0, <1>3, TotalChanged
  <1>5. Total(gg, Predictions) \in Nat /\ Total(ff, Predictions) \in Nat
    BY <1>0, <1>3, TotalType
  <1>6. /\ w \in ws => gg[h] = ff[h] + x
        /\ w \notin ws => gg[h] = ff[h]
    BY <1>0, <1>2, <1>3
  <1>7. /\ w \in ws => Spent(g, ws) = Spent(f, ws) + x
        /\ w \notin ws => Spent(g, ws) = Spent(f, ws)
    BY <1>3, <1>4, <1>5, <1>6
  <1>8. Total(g[h], Wallets) = Total(f[h], Wallets) + x
    BY <1>0, <1>2
  <1> QED
    BY <1>7, <1>8

LEMMA BeginStep ==
    ASSUME SettleInv, NEW c \in Callers, SettleBegin(c)
    PROVE  SettleInv'
  <1> DEFINE claimed == {p \in Due : RowFree(p)}
             rows == [p \in claimed |-> [status |-> "resolving", result |-> NULL]]
             none == [p \in Predictions |-> Nobody]
             t == [at |-> now, claimed |-> claimed, todo |-> claimed, pc |-> "gate",
                   rows |-> rows, credit |-> none,
                   streak |-> streak, cap |-> dailyCap, right |-> {}, share |-> 0]
  <1>1. /\ tx' = [tx EXCEPT ![c] = t] /\ \A d \in Callers \ {c} : tx[d] = NULL
        /\ UNCHANGED <<telemetry, rounds, pending, policy, aborts>>
    BY DEF SettleBegin, AdvisoryFree
  <1>2. claimed \subseteq Predictions
        /\ \A p \in claimed : status[p] \in {"locked", "resolving"} /\ ResolvesAt[p] <= now
    BY MadeType DEF Due, SettleInv
  <1> HIDE DEF claimed
  <1>3. rows \in [claimed -> RowTypes]
        /\ \A p \in claimed : rows[p].status = "resolving"
    BY DEF RowTypes
  <1>4. none \in Ledgers /\ \A p \in Predictions, w \in Wallets : none[p][w] = 0
    BY DEF Ledgers, Nobody
  <1> HIDE DEF rows, none
  <1>5. t \in Transactions
    <2>1. rows \in UNION {[P -> RowTypes] : P \in SUBSET Predictions}
      BY <1>2, <1>3
    <2>2. now \in 0 .. MaxTime /\ streak \in [Wallets -> Nat] /\ dailyCap \in DailyCaps
      BY DEF SettleInv, TypeOK
    <2> QED
      BY <1>2, <1>4, <2>1, <2>2 DEF Transactions, Phases, RowTypes, Ledgers
  <1>6. RowsFit(t)
    <2>1. \A p \in Predictions : Total(none[p], Wallets) = 0 /\ Base(p) \in Nat
      BY <1>4, RoundAssumption, CapAssumption, TotalNothing DEF Base
    <2>2. ASSUME NEW p \in Predictions
          PROVE  /\ p \in claimed =>
                       Earned(none[p], entries[p], rows[p].status, rows[p].result)
                 /\ p \notin claimed => \A w \in Wallets : none[p][w] = 0
                 /\ Total(none[p], Wallets) <= Base(p)
      BY <1>4, <2>1 DEF Earned
    <2>3. /\ t.todo = claimed /\ t.claimed = claimed /\ t.rows = rows /\ t.credit = none
          /\ t.pc = "gate"
      OBVIOUS
    <2> HIDE DEF t
    <2> QED
      BY <1>2, <1>3, <2>2, <2>3 DEF RowsFit, ClaimFits, Undecided
  <1>7. HandFits(t)
    BY DEF HandFits
  <1>8. CapsFit(t)
    <2>1. Spent(none, Wallets) = 0 /\ \A w \in Wallets : Spent(none, {w}) = 0
      BY <1>4, SpentNothing
    <2>2. credit \in Ledgers
      BY DEF SettleInv, TypeOK, Ledgers
    <2>3. Spent(credit, Wallets) \in Nat /\ \A w \in Wallets : Spent(credit, {w}) \in Nat
      BY <2>2, SpentIs
    <2>4. t.credit = none
      OBVIOUS
    <2> HIDE DEF t
    <2> QED
      BY <2>1, <2>3, <2>4 DEF CapsFit, SettleInv, CapsHold
  <1>9. StreaksFit(t)
    <2>1. \A w \in Wallets : TxRight(t, w) = {} /\ TxWrong(t, w) = {}
      BY <1>3 DEF TxRight, TxWrong
    <2>2. t.streak = streak
      OBVIOUS
    <2> HIDE DEF t
    <2> QED
      BY <2>1, <2>2 DEF StreaksFit, Counted, SettleInv, StreaksEarned
  <1> HIDE DEF t
  <1> QED
    BY <1>1, <1>5, <1>6, <1>7, <1>8, <1>9, TxStep DEF Fits

\* On to the next round with what one has.
LEMMA Left ==
    ASSUME NEW u \in Transactions, ClaimFits(u), CapsFit(u), StreaksFit(u),
           \A p \in u.todo \ {Hand(u)} : Undecided(u, p)
    PROVE  LET v == [u EXCEPT !.todo = @ \ {Hand(u)}, !.pc = "gate"]
           IN  v \in Transactions /\ Fits(v)
  <1> DEFINE h == Hand(u)
             v == [u EXCEPT !.todo = @ \ {h}, !.pc = "gate"]
  <1> HIDE DEF h
  <1>1. v \in Transactions
    BY DEF Transactions, Phases
  <1>2. /\ v.todo = u.todo \ {h} /\ v.pc = "gate" /\ v.claimed = u.claimed
        /\ v.rows = u.rows /\ v.credit = u.credit /\ v.streak = u.streak
    BY DEF Transactions
  <1> HIDE DEF v
  <1>3. RowsFit(v)
    <2>1. ClaimFits(v)
      BY <1>2 DEF ClaimFits
    <2> QED
      BY <1>2, <2>1 DEF RowsFit, Undecided, h
  <1>4. HandFits(v) /\ CapsFit(v)
    BY <1>2 DEF HandFits, CapsFit
  <1>5. StreaksFit(v)
    BY <1>2 DEF StreaksFit, TxRight, TxWrong
  <1> QED
    BY <1>1, <1>3, <1>4, <1>5 DEF Fits, v, h

LEMMA LeaveStep ==
    ASSUME SettleInv, NEW c \in Callers, tx[c] # NULL,
           NEW u \in Transactions, u.todo = tx[c].todo,
           ClaimFits(u), CapsFit(u), StreaksFit(u),
           \A p \in u.todo \ {Hand(u)} : Undecided(u, p), Leave(c, u),
           UNCHANGED <<telemetry, rounds, pending, policy, aborts>>
    PROVE  SettleInv'
  <1> DEFINE v == [u EXCEPT !.todo = @ \ {Hand(u)}, !.pc = "gate"]
  <1>1. AtHand(c) = Hand(u)
    <2>1. AtHand(c) = Hand(tx[c])
      BY DEF AtHand, Hand
    <2> QED
      BY <2>1, HandSame
  <1>2. tx' = [tx EXCEPT ![c] = v]
    BY <1>1 DEF Leave, Put
  <1>3. v \in Transactions /\ Fits(v)
    BY Left
  <1>4. \A d \in Callers \ {c} : tx[d] = NULL
    BY DEF SettleInv, TxOK
  <1> HIDE DEF v
  <1> QED
    BY <1>2, <1>3, <1>4, TxStep

\* A round that is void pays nobody.
LEMMA LeaveVoidStep ==
    ASSUME SettleInv, NEW c \in Callers, tx[c] # NULL, tx[c].todo # {},
           tx[c].pc \in {"gate", "judge"}, LeaveVoid(c),
           UNCHANGED <<telemetry, rounds, pending, policy, aborts>>
    PROVE  SettleInv'
  <1> DEFINE t == tx[c]
             h == Hand(t)
             row == [status |-> "void", result |-> NULL]
             u == [t EXCEPT !.rows[h] = row]
  <1>1. t \in Transactions /\ Fits(t)
    BY DEF SettleInv, TypeOK, TxOK
  <1>2. AtHand(c) = h
    BY DEF AtHand, Hand
  <1>3. Leave(c, u)
    BY <1>2 DEF LeaveVoid
  <1>4. h \in t.todo /\ h \in Predictions /\ h \in t.claimed
    BY <1>1, Typed, HandIn DEF Fits, RowsFit, ClaimFits
  <1>5. Undecided(t, h) /\ \A p \in t.todo \ {h} : Undecided(t, p)
    BY <1>1, <1>4 DEF Fits, RowsFit, HandFits
  <1> HIDE DEF t, h
  <1>6. t.rows \in [t.claimed -> RowTypes] /\ t.claimed \subseteq Predictions
    BY <1>1, Typed DEF Fits, RowsFit, ClaimFits
  <1>7. /\ u.todo = t.todo /\ u.pc = t.pc /\ u.claimed = t.claimed
        /\ u.rows = [t.rows EXCEPT ![h] = row] /\ u.credit = t.credit
        /\ u.streak = t.streak
    BY <1>1 DEF Transactions
  <1>8. row \in RowTypes /\ row.status = "void"
    BY DEF RowTypes
  <1> HIDE DEF row
  <1>9. /\ u.rows \in [t.claimed -> RowTypes] /\ u.rows[h] = row
        /\ \A p \in t.claimed \ {h} : u.rows[p] = t.rows[p]
    BY <1>4, <1>6, <1>7, <1>8
  <1>10. u \in Transactions
    <2>1. u.rows \in UNION {[P -> RowTypes] : P \in SUBSET Predictions}
      BY <1>6, <1>9
    <2> QED
      BY <1>1, <1>7, <2>1 DEF Transactions, RowTypes
  <1> HIDE DEF u
  <1>11. ClaimFits(u)
    <2>1. Earned(t.credit[h], entries[h], "void", row.result)
      BY <1>1, <1>4, <1>5 DEF Fits, RowsFit, ClaimFits, Earned, Undecided
    <2> QED
      BY <1>1, <1>4, <1>7, <1>8, <1>9, <2>1 DEF Fits, RowsFit, ClaimFits
  <1>12. CapsFit(u)
    BY <1>1, <1>7 DEF Fits, CapsFit
  <1>13. StreaksFit(u)
    <2>1. \A w \in Wallets : TxRight(u, w) = TxRight(t, w) /\ TxWrong(u, w) = TxWrong(t, w)
      BY <1>4, <1>5, <1>7, <1>8, <1>9 DEF TxRight, TxWrong, Undecided
    <2> QED
      BY <1>1, <1>7, <2>1 DEF Fits, StreaksFit
  <1>14. \A p \in u.todo \ {Hand(u)} : Undecided(u, p)
    <2>1. Hand(u) = h
      BY <1>7, HandSame DEF h
    <2>2. t.todo \subseteq t.claimed
      BY <1>1 DEF Fits, RowsFit, ClaimFits
    <2> QED
      BY <1>5, <1>7, <1>9, <2>1, <2>2 DEF Undecided
  <1> QED
    BY <1>3, <1>7, <1>10, <1>11, <1>12, <1>13, <1>14, LeaveStep DEF t

LEMMA GateStep ==
    ASSUME SettleInv, NEW c \in Callers, SettleGate(c)
    PROVE  SettleInv'
  <1> DEFINE t == tx[c]
             h == Hand(t)
             u == [t EXCEPT !.pc = "judge"]
  <1>1. /\ t # NULL /\ t.todo # {} /\ t.pc = "gate"
        /\ UNCHANGED <<telemetry, rounds, pending, policy, aborts>>
        /\ AtHand(c) = h
    BY DEF SettleGate, Working, AtHand, Hand
  <1>2. t \in Transactions /\ Fits(t) /\ \A d \in Callers \ {c} : tx[d] = NULL
    BY <1>1 DEF SettleInv, TypeOK, TxOK
  <1>3. h \in t.todo /\ h \in Predictions /\ h \in t.claimed
    BY <1>1, <1>2, Typed, HandIn DEF Fits, RowsFit, ClaimFits
  <1>4. \A p \in t.todo : Undecided(t, p)
    BY <1>1, <1>2 DEF Fits, RowsFit
  <1>5. ASSUME LeaveVoid(c) PROVE SettleInv'
    BY <1>1, <1>5, LeaveVoidStep
  <1>6. ASSUME Leave(c, t) PROVE SettleInv'
    <2>1. ClaimFits(t) /\ CapsFit(t) /\ StreaksFit(t)
      BY <1>2 DEF Fits, RowsFit
    <2> HIDE DEF t
    <2> QED
      BY <1>1, <1>2, <1>4, <1>6, <2>1, LeaveStep DEF t
  <1>7. ASSUME Ready(h), Put(c, u) PROVE SettleInv'
    <2> HIDE DEF t
    <2>1. ResolvesAt[h] <= now
      BY <1>2, <1>3 DEF Fits, RowsFit, ClaimFits
    <2> HIDE DEF h
    <2>2. Complete(h)
      BY <1>3, <1>7, <2>1, ReadyIsComplete DEF SettleInv
    <2>3. /\ u.todo = t.todo /\ u.pc = "judge" /\ u.claimed = t.claimed
          /\ u.rows = t.rows /\ u.credit = t.credit /\ u.streak = t.streak
      BY <1>2 DEF Transactions
    <2>4. u \in Transactions
      BY <1>2 DEF Transactions, Phases
    <2> HIDE DEF u
    <2>5. Hand(u) = h
      BY <2>3, HandSame DEF h
    <2>6. RowsFit(u)
      BY <1>2, <1>4, <2>3 DEF Fits, RowsFit, ClaimFits, Undecided
    <2>7. HandFits(u)
      BY <1>3, <1>4, <2>2, <2>3, <2>5 DEF HandFits, Undecided
    <2>8. CapsFit(u) /\ StreaksFit(u)
      BY <1>2, <2>3 DEF Fits, CapsFit, StreaksFit, TxRight, TxWrong
    <2>9. tx' = [tx EXCEPT ![c] = u]
      BY <1>7 DEF Put
    <2> QED
      BY <1>1, <1>2, <2>4, <2>6, <2>7, <2>8, <2>9, TxStep DEF Fits
  <1> QED
    BY <1>1, <1>5, <1>6, <1>7 DEF SettleGate

\* The equal shares of a pool do not exceed it.
LEMMA SharesFit ==
    ASSUME NEW b \in Nat, NEW k \in Nat, k # 0
    PROVE  b \div k \in Nat /\ k * (b \div k) <= b
  <1>1. b = k * (b \div k) + (b % k) /\ (b % k) \in 0 .. k - 1 /\ b \div k \in Int
    OBVIOUS
  <1>2. b \div k \in Nat
    <2> DEFINE q == b \div k
    <2>1. b = k * q + (b % k) /\ (b % k) < k /\ q \in Int
      BY <1>1
    <2> HIDE DEF q
    <2>2. ASSUME q < 0 PROVE FALSE
      <3>1. q + 1 <= 0
        BY <2>1, <2>2
      <3>2. k * (q + 1) <= 0
        BY <2>1, <3>1
      <3>3. k * (q + 1) = k * q + k
        BY <2>1
      <3> QED
        BY <1>1, <2>1, <3>2, <3>3
    <2> QED
      BY <2>1, <2>2 DEF q
  <1> QED
    BY <1>1, <1>2

\* Deciding a round makes the streaks of its entrants one longer, or nothing.
LEMMA StreaksJudged ==
    ASSUME TypeOK, NEW t \in Transactions, ClaimFits(t), StreaksFit(t),
           NEW h \in t.claimed, Undecided(t, h), NEW r \in Outcomes,
           NEW u, u.claimed = t.claimed,
           u.rows[h] = [status |-> "settled", result |-> r],
           \A p \in t.claimed \ {h} : u.rows[p] = t.rows[p],
           u.streak = [w \in Wallets |->
                          IF w \in Correct(h, r) THEN t.streak[w] + 1
                          ELSE IF w \in Entered(h) THEN 0 ELSE t.streak[w]]
    PROVE  StreaksFit(u)
  <1> SUFFICES ASSUME NEW w \in Wallets
      PROVE  Counted(u.streak[w], Right(w) \cup TxRight(u, w), Wrong(w) \cup TxWrong(u, w))
    BY DEF StreaksFit
  <1> DEFINE right == Right(w) \cup TxRight(t, w)
             wrong == Wrong(w) \cup TxWrong(t, w)
  <1>1. Counted(t.streak[w], right, wrong) /\ t.streak[w] \in Nat
    BY Typed DEF StreaksFit
  <1>2. h \in Predictions /\ h \notin right /\ IsFiniteSet(right)
    <2>1. t.claimed \subseteq Predictions
      BY Typed
    <2>2. h \notin Right(w) /\ h \notin TxRight(t, w)
      BY DEF Right, TxRight, ClaimFits, Undecided
    <2>3. right \subseteq Predictions
      BY <2>1 DEF Right, TxRight
    <2> QED
      BY <2>1, <2>2, <2>3, RoundAssumption, FS_Subset
  <1>3. Cardinality(right) \in Nat /\ Cardinality(right \cup {h}) = Cardinality(right) + 1
    BY <1>2, FS_CardinalityType, FS_AddElement
  <1>4. CASE entries[h][w] = r
    <2>1. r # NULL
      BY RoundAssumption
    <2>2. TxRight(u, w) = TxRight(t, w) \cup {h} /\ TxWrong(u, w) = TxWrong(t, w)
      BY <1>4, <2>1 DEF TxRight, TxWrong, Undecided
    <2>3. u.streak[w] = t.streak[w] + 1
      BY <1>4 DEF Correct
    <2>4. Right(w) \cup TxRight(u, w) = right \cup {h}
          /\ Wrong(w) \cup TxWrong(u, w) = wrong
      BY <2>2
    <2> HIDE DEF right, wrong
    <2>5. Counted(t.streak[w] + 1, right \cup {h}, wrong)
      BY <1>1, <1>3 DEF Counted
    <2> QED
      BY <2>3, <2>4, <2>5
  <1>5. CASE entries[h][w] \notin {NULL, r}
    <2>1. TxRight(u, w) = TxRight(t, w) /\ h \in TxWrong(u, w)
      BY <1>5 DEF TxRight, TxWrong, Undecided
    <2>2. u.streak[w] = 0
      BY <1>5 DEF Correct, Entered
    <2>3. Right(w) \cup TxRight(u, w) = right /\ Wrong(w) \cup TxWrong(u, w) # {}
      BY <2>1
    <2> HIDE DEF right, wrong
    <2> QED
      BY <1>3, <2>2, <2>3 DEF Counted
  <1>6. CASE entries[h][w] = NULL
    <2>1. r # NULL
      BY RoundAssumption
    <2>2. TxRight(u, w) = TxRight(t, w) /\ TxWrong(u, w) = TxWrong(t, w)
      BY <1>6, <2>1 DEF TxRight, TxWrong, Undecided
    <2>3. u.streak[w] = t.streak[w]
      BY <1>6, <2>1 DEF Correct, Entered
    <2> QED
      BY <1>1, <2>2, <2>3
  <1> QED
    BY <1>4, <1>5, <1>6

LEMMA JudgeStep ==
    ASSUME SettleInv, NEW c \in Callers, SettleJudge(c)
    PROVE  SettleInv'
  <1> DEFINE t == tx[c]
             h == Hand(t)
             r == Verdict(h, events)
             right == Correct(h, r)
             row == [status |-> "settled", result |-> r]
             streaks == [w \in Wallets |->
                            IF w \in right THEN t.streak[w] + 1
                            ELSE IF w \in Entered(h) THEN 0 ELSE t.streak[w]]
             share == Base(h) \div Cardinality(right)
             u == [t EXCEPT !.rows[h] = row, !.streak = streaks]
             v == [u EXCEPT !.pc = "credit", !.right = right, !.share = share]
  <1>1. /\ t # NULL /\ t.todo # {} /\ t.pc = "judge"
        /\ UNCHANGED <<telemetry, rounds, pending, policy, aborts>>
        /\ AtHand(c) = h
    BY DEF SettleJudge, Working, AtHand, Hand
  <1>2. t \in Transactions /\ Fits(t) /\ \A d \in Callers \ {c} : tx[d] = NULL
    BY <1>1 DEF SettleInv, TypeOK, TxOK
  <1>3. h \in t.todo /\ h \in Predictions /\ h \in t.claimed
    BY <1>1, <1>2, Typed, HandIn DEF Fits, RowsFit, ClaimFits
  <1>4. Complete(h) /\ \A p \in t.todo : Undecided(t, p)
    BY <1>1, <1>2 DEF Fits, RowsFit, HandFits
  <1>5. ASSUME LeaveVoid(c) PROVE SettleInv'
    BY <1>1, <1>5, LeaveVoidStep
  <1>6. CASE /\ ~BridgeOverlap(h, events) /\ r # NULL
             /\ IF right = {} THEN Leave(c, u) ELSE Put(c, v)
    <2> HIDE DEF t
    <2>1. r \in Outcomes /\ r \in Truth(h)
      <3>1. r \in Outcomes
        BY <1>6, VerdictType
      <3> QED
        BY <1>3, <1>4, <1>6, <3>1, CompleteSays DEF Truth, SettleInv
    <2> HIDE DEF h, r
    <2>2. t.rows \in [t.claimed -> RowTypes] /\ t.claimed \subseteq Predictions
          /\ t.streak \in [Wallets -> Nat] /\ t.credit \in Ledgers
      BY <1>2, Typed DEF Fits, RowsFit, ClaimFits
    <2>3. row \in RowTypes /\ row.status = "settled" /\ row.result = r
      BY <2>1 DEF RowTypes
    <2>4. streaks \in [Wallets -> Nat] /\ right \subseteq Wallets
      BY <2>2 DEF Correct
    <2>5. /\ u.todo = t.todo /\ u.pc = t.pc /\ u.claimed = t.claimed
          /\ u.rows = [t.rows EXCEPT ![h] = row] /\ u.credit = t.credit
          /\ u.streak = streaks
      BY <1>2 DEF Transactions
    <2> HIDE DEF row
    <2>6. /\ u.rows \in [t.claimed -> RowTypes] /\ u.rows[h] = row
          /\ \A p \in t.claimed \ {h} : u.rows[p] = t.rows[p]
      BY <1>3, <2>2, <2>3, <2>5
    <2>7. u \in Transactions
      <3>1. u.rows \in UNION {[P -> RowTypes] : P \in SUBSET Predictions}
        BY <2>2, <2>6
      <3> QED
        BY <1>2, <2>4, <2>5, <3>1 DEF Transactions, RowTypes
    <2> HIDE DEF u, v
    <2>8. \A w \in Wallets : t.credit[h][w] = 0
      <3>1. \A w \in Wallets : ~ (t.credit[h][w] > 0) /\ t.credit[h][w] \in Nat
        BY <1>2, <1>3, <1>4, <2>2 DEF Fits, RowsFit, ClaimFits, Earned, Undecided, Ledgers
      <3> QED
        BY <3>1
    <2>9. ClaimFits(u)
      <3>1. Earned(t.credit[h], entries[h], "settled", r)
        BY <2>8 DEF Earned
      <3>2. ClaimFits(t)
        BY <1>2 DEF Fits, RowsFit
      <3>3. \A p \in t.claimed : u.rows[p].status = "settled" => u.rows[p].result \in Truth(p)
        BY <2>1, <2>3, <2>6, <3>2 DEF ClaimFits
      <3>4. \A p \in Predictions : p \in t.claimed =>
               Earned(u.credit[p], entries[p], u.rows[p].status, u.rows[p].result)
        BY <2>3, <2>5, <2>6, <3>1, <3>2 DEF ClaimFits
      <3> QED
        BY <2>5, <2>6, <3>2, <3>3, <3>4 DEF ClaimFits
    <2>10. CapsFit(u)
      BY <1>2, <2>5 DEF Fits, CapsFit
    <2>11. StreaksFit(u)
      <3>1. ClaimFits(t) /\ StreaksFit(t) /\ Undecided(t, h)
        BY <1>2, <1>3, <1>4 DEF Fits, RowsFit
      <3> QED
        BY <1>2, <1>3, <2>1, <2>5, <2>6, <3>1, StreaksJudged DEF SettleInv, row
    <2>12. Hand(u) = h /\ \A p \in u.todo \ {h} : Undecided(u, p)
      <3>1. Hand(u) = h
        BY <2>5, HandSame DEF h
      <3>2. t.todo \subseteq t.claimed
        BY <1>2 DEF Fits, RowsFit, ClaimFits
      <3> QED
        BY <1>4, <2>5, <2>6, <3>1, <3>2 DEF Undecided
    <2>13. CASE right = {}
      <3>1. Leave(c, u)
        BY <1>6, <2>13
      <3> QED
        BY <1>1, <2>5, <2>7, <2>9, <2>10, <2>11, <2>12, <3>1, LeaveStep DEF t
    <2>14. CASE right # {}
      <3>1. tx' = [tx EXCEPT ![c] = v]
        BY <1>6, <2>14 DEF Put
      <3>2. Cardinality(right) \in Nat \ {0} /\ Base(h) \in Nat
        <4>1. IsFiniteSet(right)
          BY <2>4, RoundAssumption, FS_Subset
        <4> QED
          BY <1>3, <2>14, <4>1, FS_CardinalityType, FS_EmptySet, RoundAssumption,
             CapAssumption DEF Base
      <3>3. share \in Nat /\ Cardinality(right) * share <= Base(h)
        BY <3>2, SharesFit
      <3> HIDE DEF right, share
      <3>4. /\ v.todo = u.todo /\ v.pc = "credit" /\ v.claimed = u.claimed
            /\ v.rows = u.rows /\ v.credit = u.credit /\ v.streak = u.streak
            /\ v.right = right /\ v.share = share
        BY <2>7 DEF v, Transactions
      <3>5. v \in Transactions
        BY <2>4, <2>7, <3>3 DEF v, Transactions, Phases
      <3>6. Hand(v) = h
        BY <2>12, <3>4, HandSame
      <3>7. RowsFit(v)
        <4>1. ClaimFits(v)
          BY <2>9, <3>4 DEF ClaimFits
        <4> QED
          BY <2>12, <3>4, <3>6, <4>1 DEF RowsFit, Undecided
      <3>8. HandFits(v)
        <4>1. Total(t.credit[h], Wallets) = 0
          BY <2>8, RoundAssumption, TotalNothing
        <4>2. \A w \in right : w \in Wallets /\ entries[h][w] = r
          BY DEF right, Correct
        <4>3. Cardinality(right) * share \in Nat
          BY <3>2, <3>3
        <4> QED
          BY <1>1, <1>4, <2>3, <2>5, <2>6, <2>8, <3>3, <3>4, <3>6, <4>1, <4>2, <4>3
             DEF HandFits
      <3>9. CapsFit(v) /\ StreaksFit(v)
        BY <2>10, <2>11, <3>4 DEF CapsFit, StreaksFit, TxRight, TxWrong
      <3> QED
        BY <1>1, <1>2, <3>1, <3>5, <3>7, <3>8, <3>9, TxStep DEF Fits
    <2> QED
      BY <2>13, <2>14
  <1>7. LeaveVoid(c) \/ (/\ ~BridgeOverlap(h, events) /\ r # NULL
                         /\ IF right = {} THEN Leave(c, u) ELSE Put(c, v))
    BY <1>1 DEF SettleJudge
  <1> QED
    BY <1>5, <1>6, <1>7

\* A clamp keeps within its cap what was within it, and only lowers a credit.
LEMMA ClampFits ==
    ASSUME NEW cap \in Nat, NEW spent \in Nat, NEW v \in Nat
    PROVE  /\ Clamp(cap, spent, v) \in Nat /\ Clamp(cap, spent, v) <= v
           /\ Clamp(cap, spent, v) > 0 => spent + Clamp(cap, spent, v) <= cap
  BY DEF Clamp

\* What a wallet is credited fits into the daily cap and its own.
LEMMA CreditFits ==
    ASSUME SettleInv, NEW c \in Callers, tx[c] # NULL, NEW w \in Wallets
    PROVE  LET x == CreditOf(c, w)
               all == Spent(credit, Wallets) + Spent(tx[c].credit, Wallets)
               own == Spent(credit, {w}) + Spent(tx[c].credit, {w})
           IN  /\ x \in Nat /\ x <= tx[c].share
               /\ all + x <= Max(DailyCaps) /\ own + x <= WalletCap
  <1> DEFINE t == tx[c]
             all == Spent(credit, Wallets) + Spent(t.credit, Wallets)
             own == Spent(credit, {w}) + Spent(t.credit, {w})
             daily == Clamp(t.cap, all, t.share)
             x == CreditOf(c, w)
  <1>1. t \in Transactions /\ CapsFit(t) /\ credit \in Ledgers
    BY DEF SettleInv, TypeOK, TxOK, Fits, Ledgers
  <1>2. all \in Nat /\ own \in Nat
    BY <1>1, Typed, SpentIs
  <1>3. all <= Max(DailyCaps) /\ own <= WalletCap /\ WalletCap \in Nat
        /\ t.share \in Nat /\ t.cap \in Nat /\ t.cap <= Max(DailyCaps)
        /\ Max(DailyCaps) \in Nat
    BY <1>1, Typed, MaxCap, CapAssumption DEF CapsFit
  <1>4. x = (IF w \in blocked \/ ~rewards THEN 0 ELSE Clamp(WalletCap, own, daily))
    BY DEF CreditOf
  <1> HIDE DEF t, all, own
  <1>5. daily \in Nat /\ daily <= t.share /\ (daily > 0 => all + daily <= t.cap)
    BY <1>2, <1>3, ClampFits
  <1> HIDE DEF daily, x
  <1>6. CASE x = 0
    BY <1>2, <1>3, <1>6 DEF x, t, all, own
  <1>7. CASE x # 0
    <2>1. x = Clamp(WalletCap, own, daily)
      BY <1>4, <1>7
    <2>2. x \in Nat /\ x <= daily /\ (x > 0 => own + x <= WalletCap)
      BY <1>2, <1>3, <1>5, <2>1, ClampFits
    <2>3. x > 0 /\ daily > 0
      BY <1>5, <1>7, <2>2
    <2>4. x <= t.share /\ all + x <= Max(DailyCaps) /\ own + x <= WalletCap
      BY <1>2, <1>3, <1>5, <2>2, <2>3
    <2> QED
      BY <2>2, <2>4 DEF x, t, all, own
  <1> QED
    BY <1>6, <1>7

LEMMA CreditStep ==
    ASSUME SettleInv, NEW c \in Callers, NEW w \in Wallets, SettleCredit(c, w)
    PROVE  SettleInv'
  <1> DEFINE t == tx[c]
             h == Hand(t)
             x == CreditOf(c, w)
             cr == [t.credit EXCEPT ![h][w] = x]
             u == [t EXCEPT !.right = @ \ {w}, !.credit[h][w] = x]
  <1>1. /\ t # NULL /\ t.todo # {} /\ t.pc = "credit" /\ w \in t.right
        /\ UNCHANGED <<telemetry, rounds, pending, policy, aborts>>
        /\ AtHand(c) = h
    BY DEF SettleCredit, Working, AtHand, Hand
  <1>2. IF u.right = {} THEN Leave(c, u) ELSE Put(c, u)
    BY <1>1 DEF SettleCredit
  <1>3. t \in Transactions /\ Fits(t) /\ \A d \in Callers \ {c} : tx[d] = NULL
    BY <1>1 DEF SettleInv, TypeOK, TxOK
  <1>4. h \in t.todo /\ h \in Predictions /\ h \in t.claimed
    BY <1>1, <1>3, Typed, HandIn DEF Fits, RowsFit, ClaimFits
  <1>5. /\ x \in Nat /\ x <= t.share
        /\ Spent(credit, Wallets) + Spent(t.credit, Wallets) + x <= Max(DailyCaps)
        /\ Spent(credit, {w}) + Spent(t.credit, {w}) + x <= WalletCap
    BY <1>1, CreditFits
  <1>6. /\ t.credit \in Ledgers /\ IsFiniteSet(t.right) /\ t.share \in Nat
        /\ t.right \subseteq Wallets
        /\ Cardinality(t.right) \in Nat /\ Cardinality(t.right \ {w}) \in Nat
        /\ Cardinality(t.right \ {w}) = Cardinality(t.right) - 1
    BY <1>1, <1>3, Typed, FS_CardinalityType, FS_RemoveElement
  <1> HIDE DEF t, h, x
  <1>7. /\ Complete(h) /\ t.rows[h].status = "settled"
        /\ \A v \in t.right : entries[h][v] = t.rows[h].result /\ t.credit[h][v] = 0
        /\ Total(t.credit[h], Wallets) + Cardinality(t.right) * t.share <= Base(h)
        /\ ClaimFits(t)
    BY <1>1, <1>3 DEF Fits, RowsFit, HandFits, h
  <1>8. /\ u.todo = t.todo /\ u.pc = t.pc /\ u.claimed = t.claimed
        /\ u.rows = t.rows /\ u.credit = cr /\ u.share = t.share
        /\ u.streak = t.streak /\ u.right = t.right \ {w}
    BY <1>3 DEF Transactions
  <1> HIDE DEF u
  <1>9. /\ cr \in Ledgers
        /\ \A p \in Predictions \ {h} : cr[p] = t.credit[p]
        /\ \A v \in Wallets \ {w} : cr[h][v] = t.credit[h][v]
        /\ cr[h][w] = x
    BY <1>4, <1>5, <1>6 DEF Ledgers
  <1> HIDE DEF cr
  <1>10. ASSUME NEW ws \in SUBSET Wallets
         PROVE  /\ w \in ws => Spent(cr, ws) = Spent(t.credit, ws) + x
                /\ w \notin ws => Spent(cr, ws) = Spent(t.credit, ws)
                /\ Total(cr[h], Wallets) = Total(t.credit[h], Wallets) + x
    BY <1>1, <1>4, <1>5, <1>6, <1>7, <1>9, SpentOneMore
  <1>11. u \in Transactions
    <2>1. u.credit \in [Predictions -> [Wallets -> Nat]] /\ u.right \subseteq Wallets
      BY <1>6, <1>8, <1>9 DEF Ledgers
    <2> QED
      BY <1>3, <1>8, <2>1 DEF Transactions, u
  <1>12. Hand(u) = h /\ \A p \in u.todo \ {h} : Undecided(u, p)
    <2>1. Hand(u) = h
      BY <1>8, HandSame DEF h
    <2> QED
      BY <1>3, <1>8, <2>1 DEF Fits, RowsFit, Undecided, h
  <1>13. Total(cr[h], Wallets) + Cardinality(t.right \ {w}) * t.share <= Base(h)
    <2> DEFINE k == Cardinality(t.right)
               s == t.share
               total == Total(t.credit[h], Wallets)
               less == Cardinality(t.right \ {w})
    <2>1. total \in Nat /\ k \in Nat /\ s \in Nat /\ x \in Nat /\ x <= s
          /\ less = k - 1 /\ total + k * s <= Base(h)
          /\ Total(cr[h], Wallets) = total + x /\ Base(h) \in Nat
      <3>1. Total(cr[h], Wallets) = total + x
        BY <1>10
      <3>2. total \in Nat
        BY <1>4, <1>6, SpentIs
      <3> QED
        BY <1>4, <1>5, <1>6, <1>7, <3>1, <3>2, RoundAssumption, CapAssumption DEF Base
    <2> HIDE DEF k, s, total, less
    <2>2. k * s = less * s + s
      BY <2>1
    <2>3. less * s \in Int /\ k * s \in Int
      BY <2>1
    <2> QED
      BY <2>1, <2>2, <2>3 DEF less, s
  <1>14. ClaimFits(u)
    <2>1. Total(cr[h], Wallets) <= Base(h)
      <3>1. Cardinality(t.right \ {w}) * t.share \in Nat
        BY <1>6
      <3>2. Total(cr[h], Wallets) \in Nat /\ Base(h) \in Nat
        BY <1>4, <1>9, SpentIs, RoundAssumption, CapAssumption DEF Base
      <3> QED
        BY <1>13, <3>1, <3>2
    <2>2. Earned(cr[h], entries[h], t.rows[h].status, t.rows[h].result)
      <3>1. Earned(t.credit[h], entries[h], t.rows[h].status, t.rows[h].result)
        BY <1>4, <1>7 DEF ClaimFits
      <3>2. ASSUME NEW v \in Wallets, cr[h][v] > 0
            PROVE  t.rows[h].status = "settled" /\ entries[h][v] = t.rows[h].result
        <4>1. CASE v = w
          BY <1>1, <1>7, <4>1
        <4>2. CASE v # w
          BY <1>9, <3>1, <3>2, <4>2 DEF Earned
        <4> QED
          BY <4>1, <4>2
      <3> QED
        BY <3>2 DEF Earned
    <2>3. ASSUME NEW p \in Predictions
          PROVE  /\ p \in t.claimed =>
                       Earned(cr[p], entries[p], t.rows[p].status, t.rows[p].result)
                 /\ p \notin t.claimed => \A v \in Wallets : cr[p][v] = 0
                 /\ Total(cr[p], Wallets) <= Base(p)
      <3>1. CASE p = h
        BY <1>4, <2>1, <2>2, <3>1
      <3>2. CASE p # h
        BY <1>7, <1>9, <3>2 DEF ClaimFits
      <3> QED
        BY <3>1, <3>2
    <2> QED
      BY <1>7, <1>8, <2>3 DEF ClaimFits
  <1>15. CapsFit(u)
    <2>1. ASSUME NEW v \in Wallets
          PROVE  Spent(credit, {v}) + Spent(cr, {v}) <= WalletCap
      <3>1. CASE v = w
        <4>1. Spent(cr, {w}) = Spent(t.credit, {w}) + x
          BY <1>10
        <4>2. Spent(credit, {w}) \in Nat /\ Spent(t.credit, {w}) \in Nat
          BY <1>6, SpentIs DEF SettleInv, TypeOK, Ledgers
        <4> QED
          BY <1>5, <3>1, <4>1, <4>2
      <3>2. CASE v # w
        <4>1. Spent(cr, {v}) = Spent(t.credit, {v})
          BY <1>10, <3>2
        <4> QED
          BY <1>3, <4>1 DEF Fits, CapsFit
      <3> QED
        BY <3>1, <3>2
    <2>2. Spent(credit, Wallets) + Spent(cr, Wallets) <= Max(DailyCaps)
      <3>1. Spent(cr, Wallets) = Spent(t.credit, Wallets) + x
        BY <1>10
      <3>2. Spent(credit, Wallets) \in Nat /\ Spent(t.credit, Wallets) \in Nat
        BY <1>6, SpentIs DEF SettleInv, TypeOK, Ledgers
      <3> QED
        BY <1>5, <3>1, <3>2
    <2> QED
      BY <1>8, <2>1, <2>2 DEF CapsFit
  <1>16. StreaksFit(u)
    <2>1. \A v \in Wallets : TxRight(u, v) = TxRight(t, v) /\ TxWrong(u, v) = TxWrong(t, v)
      BY <1>8 DEF TxRight, TxWrong
    <2> QED
      BY <1>3, <1>8, <2>1 DEF Fits, StreaksFit
  <1>17. CASE u.right = {}
    <2>1. Leave(c, u)
      BY <1>2, <1>17
    <2> QED
      BY <1>1, <1>8, <1>11, <1>12, <1>14, <1>15, <1>16, <2>1, LeaveStep DEF t
  <1>18. CASE u.right # {}
    <2>1. tx' = [tx EXCEPT ![c] = u]
      BY <1>2, <1>18 DEF Put
    <2>2. RowsFit(u)
      BY <1>1, <1>8, <1>12, <1>14 DEF RowsFit
    <2>3. HandFits(u)
      <3>1. ASSUME NEW v \in u.right
            PROVE  entries[h][v] = t.rows[h].result /\ cr[h][v] = 0
        <4>1. v \in t.right /\ v # w /\ v \in Wallets
          BY <1>6, <1>8
        <4> QED
          BY <1>7, <1>9, <4>1
      <3> QED
        BY <1>1, <1>7, <1>8, <1>12, <1>13, <3>1 DEF HandFits
    <2> QED
      BY <1>1, <1>3, <1>11, <1>15, <1>16, <2>1, <2>2, <2>3, TxStep DEF Fits
  <1> QED
    BY <1>17, <1>18

\* What a settlement that commits writes: a credit only where there was none.
CommitWrites(t) ==
    /\ \A p \in Predictions :
          /\ p \in t.claimed => /\ status'[p] = t.rows[p].status
                                /\ result'[p] = t.rows[p].result
                                /\ credit'[p] = t.credit[p]
          /\ p \notin t.claimed => /\ status'[p] = status[p] /\ result'[p] = result[p]
                                   /\ credit'[p] = credit[p]
    /\ streak' = t.streak
    /\ UNCHANGED <<telemetry, kind, entries, pending, policy, aborts>>

LEMMA Commits ==
    ASSUME SettleInv, NEW c \in Callers, SettleCommit(c)
    PROVE  /\ CommitWrites(tx[c])
           /\ tx[c] \in Transactions /\ tx[c] # NULL /\ tx[c].todo = {} /\ Fits(tx[c])
           /\ \A d \in Callers : tx'[d] = NULL
           /\ tx' \in [Callers -> Transactions \cup {NULL}]
  <1> DEFINE t == tx[c]
  <1>1. /\ t # NULL /\ t.todo = {} /\ t \in Transactions /\ Fits(t)
        /\ \A d \in Callers \ {c} : tx[d] = NULL
    BY DEF SettleCommit, SettleInv, TypeOK, TxOK
  <1>2. tx' = [tx EXCEPT ![c] = NULL]
    BY DEF SettleCommit
  <1>3. tx \in [Callers -> Transactions \cup {NULL}]
    BY DEF SettleInv, TypeOK
  <1>4. CommitWrites(t)
    BY DEF SettleCommit, CommitWrites
  <1> HIDE DEF t
  <1>5. (\A d \in Callers : tx'[d] = NULL) /\ tx' \in [Callers -> Transactions \cup {NULL}]
    BY <1>1, <1>2, <1>3
  <1> QED
    BY <1>1, <1>4, <1>5 DEF t

LEMMA CommitType ==
    ASSUME SettleInv, NEW t \in Transactions, Fits(t), CommitWrites(t),
           tx' \in [Callers -> Transactions \cup {NULL}],
           \E c \in Callers : SettleCommit(c)
    PROVE  TypeOK'
  <1>1. t.rows \in [t.claimed -> RowTypes] /\ t.credit \in Ledgers
        /\ t.streak \in [Wallets -> Nat] /\ t.claimed \subseteq Predictions
    BY Typed DEF Fits, RowsFit, ClaimFits
  <1>2. /\ status' = [p \in Predictions |-> status'[p]]
        /\ result' = [p \in Predictions |-> result'[p]]
        /\ credit' = [p \in Predictions |-> credit'[p]]
    <2>1. PICK c \in Callers : SettleCommit(c)
      OBVIOUS
    <2>2. status' = [p \in Predictions |-> status'[p]]
      BY <2>1 DEF SettleCommit
    <2>3. result' = [p \in Predictions |-> result'[p]]
      BY <2>1 DEF SettleCommit
    <2>4. credit' = [p \in Predictions |-> credit'[p]]
      BY <2>1 DEF SettleCommit
    <2> QED
      BY <2>2, <2>3, <2>4
  <1>3. \A p \in Predictions :
           /\ status'[p] \in {"open", "locked", "resolving", "settled", "void"}
           /\ result'[p] \in Outcomes \cup {NULL}
           /\ credit'[p] \in [Wallets -> Nat]
    <2> TAKE p \in Predictions
    <2>1. CASE p \in t.claimed
      <3>1. t.rows[p].status \in {"resolving", "settled", "void"}
            /\ t.rows[p].result \in Outcomes \cup {NULL}
            /\ t.credit[p] \in [Wallets -> Nat]
        BY <1>1, <2>1 DEF RowTypes, Ledgers
      <3> QED
        BY <2>1, <3>1 DEF CommitWrites
    <2>2. CASE p \notin t.claimed
      <3>1. /\ status[p] \in {"open", "locked", "resolving", "settled", "void"}
            /\ result[p] \in Outcomes \cup {NULL}
            /\ credit[p] \in [Wallets -> Nat]
        BY DEF SettleInv, TypeOK
      <3> QED
        BY <2>2, <3>1 DEF CommitWrites
    <2> QED
      BY <2>1, <2>2
  <1>4. /\ status' \in [Predictions -> {"open", "locked", "resolving", "settled", "void"}]
        /\ result' \in [Predictions -> Outcomes \cup {NULL}]
        /\ credit' \in [Predictions -> [Wallets -> Nat]]
    BY <1>2, <1>3
  <1> QED
    BY <1>1, <1>4 DEF SettleInv, TypeOK, CommitWrites, telemetry, policy

\* The credits of a settlement are for rounds that had none.
LEMMA CommitSpent ==
    ASSUME SettleInv, NEW t \in Transactions, Fits(t), CommitWrites(t),
           credit' \in Ledgers, NEW ws \in SUBSET Wallets
    PROVE  Spent(credit', ws) = Spent(credit, ws) + Spent(t.credit, ws)
  <1>1. credit \in Ledgers /\ t.credit \in Ledgers
    BY Typed DEF SettleInv, TypeOK, Ledgers
  <1>2. ASSUME NEW p \in Predictions, NEW w \in Wallets
        PROVE  credit'[p][w] = credit[p][w] + t.credit[p][w]
    <2>1. credit[p][w] \in Nat /\ t.credit[p][w] \in Nat
      BY <1>1 DEF Ledgers
    <2>2. CASE p \in t.claimed
      <3>1. ~ (credit[p][w] > 0)
        BY <2>2 DEF Fits, RowsFit, ClaimFits, SettleInv, RoundsOK, Earned
      <3> QED
        BY <2>1, <2>2, <3>1 DEF CommitWrites
    <2>3. CASE p \notin t.claimed
      BY <2>1, <2>3 DEF CommitWrites, Fits, RowsFit, ClaimFits
    <2> QED
      BY <2>2, <2>3
  <1> QED
    BY <1>1, <1>2, SpentPlus

LEMMA CommitStep ==
    ASSUME SettleInv, NEW c \in Callers, SettleCommit(c)
    PROVE  SettleInv'
  <1> DEFINE t == tx[c]
  <1>1. /\ CommitWrites(t) /\ t \in Transactions /\ t.todo = {} /\ Fits(t)
        /\ \A d \in Callers : tx'[d] = NULL
        /\ tx' \in [Callers -> Transactions \cup {NULL}]
    BY Commits
  <1> HIDE DEF t
  <1>2. TypeOK' /\ TelemetryOK'
    <2>1. UNCHANGED telemetry
      BY <1>1 DEF CommitWrites
    <2> QED
      BY <1>1, <2>1, CommitType, SameTelemetry DEF SettleInv
  <1>3. UNCHANGED <<now, kind, entries, pending>>
    BY <1>1 DEF CommitWrites, telemetry
  <1>4. PendingOK' /\ TxOK'
    BY <1>1, <1>3 DEF SettleInv, PendingOK, TxOK
  <1>5. t.rows \in [t.claimed -> RowTypes] /\ t.claimed \subseteq Predictions
        /\ ClaimFits(t)
    BY <1>1, Typed DEF Fits, RowsFit, ClaimFits
  <1>6. RoundsOK'
    <2> SUFFICES ASSUME NEW p \in Predictions
        PROVE  /\ status'[p] \in {"resolving", "settled", "void"} => ResolvesAt[p] <= now'
               /\ status'[p] = "settled" => result'[p] \in Truth(p)'
               /\ Earned(credit'[p], entries'[p], status'[p], result'[p])
               /\ Total(credit'[p], Wallets) <= Base(p)
      BY DEF RoundsOK
    <2>1. Truth(p)' = Truth(p)
      BY <1>1, <1>3, SameTruth DEF CommitWrites
    <2>2. CASE p \in t.claimed
      BY <1>1, <1>3, <1>5, <2>1, <2>2 DEF CommitWrites, ClaimFits
    <2>3. CASE p \notin t.claimed
      BY <1>1, <1>3, <2>1, <2>3 DEF CommitWrites, SettleInv, RoundsOK
    <2> QED
      BY <2>2, <2>3
  <1>7. credit' \in Ledgers
    BY <1>2 DEF TypeOK, Ledgers
  <1>8. CapsHold'
    <2>1. Spent(credit', Wallets) <= Max(DailyCaps)
      <3>1. Spent(credit', Wallets) = Spent(credit, Wallets) + Spent(t.credit, Wallets)
        BY <1>1, <1>7, CommitSpent
      <3> QED
        BY <1>1, <3>1 DEF Fits, CapsFit
    <2>2. ASSUME NEW w \in Wallets PROVE Spent(credit', {w}) <= WalletCap
      <3>1. Spent(credit', {w}) = Spent(credit, {w}) + Spent(t.credit, {w})
        BY <1>1, <1>7, CommitSpent
      <3> QED
        BY <1>1, <3>1 DEF Fits, CapsFit
    <2>3. ASSUME NEW p \in Predictions
          PROVE  PerPrediction(credit', Wallets)[p] <= MaxPerPrediction
      <3>1. PerPrediction(credit', Wallets)[p] = Total(credit'[p], Wallets)
            /\ Total(credit'[p], Wallets) \in Nat
        BY <1>7, SpentIs
      <3>2. Total(credit'[p], Wallets) <= Base(p)
        BY <1>6 DEF RoundsOK
      <3>3. Base(p) \in Nat /\ Base(p) <= MaxPerPrediction /\ MaxPerPrediction \in Nat
        BY RoundAssumption, CapAssumption DEF Base
      <3> QED
        BY <3>1, <3>2, <3>3
    <2> QED
      BY <2>1, <2>2, <2>3 DEF CapsHold
  <1>9. StreaksEarned'
    <2> SUFFICES ASSUME NEW w \in Wallets
        PROVE  Counted(streak'[w], Right(w)', Wrong(w)')
      BY DEF StreaksEarned, Counted
    <2>1. \A p \in t.claimed : status[p] # "settled"
      BY <1>5 DEF ClaimFits
    <2>2. Right(w)' = Right(w) \cup TxRight(t, w)
      BY <1>1, <1>3, <1>5, <2>1 DEF CommitWrites, Right, TxRight
    <2>3. Wrong(w)' = Wrong(w) \cup TxWrong(t, w)
      BY <1>1, <1>3, <1>5, <2>1 DEF CommitWrites, Wrong, TxWrong
    <2>4. Counted(t.streak[w], Right(w) \cup TxRight(t, w), Wrong(w) \cup TxWrong(t, w))
      BY <1>1 DEF Fits, StreaksFit
    <2> QED
      BY <1>1, <2>2, <2>3, <2>4 DEF CommitWrites
  <1> QED
    BY <1>2, <1>4, <1>6, <1>8, <1>9 DEF SettleInv

-----------------------------------------------------------------------------
(* The invariant holds                                                     *)

LEMMA NothingSettled ==
    ASSUME RoundsInit
    PROVE  RoundsOK /\ CapsHold /\ StreaksEarned /\ credit \in Ledgers
  <1>1. credit \in Ledgers /\ \A p \in Predictions, w \in Wallets : credit[p][w] = 0
    BY DEF RoundsInit, Ledgers, Nobody
  <1>2. \A p \in Predictions : status[p] = "open"
    BY DEF RoundsInit
  <1>3. \A p \in Predictions : Base(p) \in Nat
    BY RoundAssumption, CapAssumption DEF Base
  <1>4. \A p \in Predictions : Total(credit[p], Wallets) = 0
    BY <1>1, RoundAssumption, TotalNothing
  <1>5. RoundsOK
    BY <1>1, <1>2, <1>3, <1>4 DEF RoundsOK, Earned
  <1>6. CapsHold
    <2>1. Spent(credit, Wallets) = 0 /\ \A w \in Wallets : Spent(credit, {w}) = 0
      BY <1>1, SpentNothing
    <2>2. \A p \in Predictions : PerPrediction(credit, Wallets)[p] = 0
      BY <1>1, <1>4, SpentIs
    <2> QED
      BY <2>1, <2>2, MaxCap, CapAssumption DEF CapsHold
  <1>7. StreaksEarned
    <2>1. \A w \in Wallets : Right(w) = {} /\ streak[w] = 0
      BY <1>2 DEF Right, RoundsInit, Nobody
    <2> QED
      BY <2>1, FS_EmptySet DEF StreaksEarned
  <1> QED
    BY <1>1, <1>5, <1>6, <1>7

LEMMA InitSettle ==
    ASSUME Init
    PROVE  SettleInv
  <1>1. RoundsInit /\ TelemetryInit
    BY DEF Init
  <1>2. TypeOK
    <2>1. /\ now \in 0 .. MaxTime /\ heartbeat \in 0 .. MaxTime
          /\ made \in Seq(EventRows) /\ events \subseteq EventRows
          /\ ended \in 1 .. MaxTime \cup {NULL} /\ over \in 0 .. MaxTime \cup {NULL}
      BY <1>1, CapAssumption DEF TelemetryInit
    <2>2. /\ kind \in [Predictions -> Kinds] /\ aborts \in 0 .. MaxAborts
          /\ flips \in 0 .. MaxFlips /\ dailyCap \in DailyCaps
      BY <1>1, RoundAssumption, CapAssumption, MaxCap DEF RoundsInit
    <2>3. /\ status \in [Predictions -> {"open", "locked", "resolving", "settled", "void"}]
          /\ result \in [Predictions -> Outcomes \cup {NULL}]
          /\ entries \in [Predictions -> [Wallets -> Outcomes \cup {NULL}]]
          /\ streak \in [Wallets -> Nat]
          /\ pending \subseteq [p : Predictions, w : Wallets, o : Outcomes]
          /\ blocked \subseteq Wallets /\ rewards \in BOOLEAN
          /\ tx \in [Callers -> Transactions \cup {NULL}]
      BY <1>1 DEF RoundsInit, Nobody
    <2>4. credit \in [Predictions -> [Wallets -> Nat]]
      BY <1>1, NothingSettled DEF Ledgers
    <2> QED
      BY <2>1, <2>2, <2>3, <2>4 DEF TypeOK
  <1>3. TelemetryOK
    <2>1. Len(made) = 0 /\ events = {} /\ now = 0 /\ heartbeat = 0 /\ over = NULL
      BY <1>1 DEF TelemetryInit
    <2>2. \E n \in 0 .. Len(made) : events = {made[i] : i \in 1 .. n}
      <3>1. 0 \in 0 .. Len(made) /\ events = {made[i] : i \in 1 .. 0}
        BY <2>1
      <3> QED
        BY <3>1
    <2> QED
      BY <2>1, <2>2 DEF TelemetryOK
  <1>4. PendingOK /\ TxOK
    BY <1>1 DEF RoundsInit, PendingOK, TxOK
  <1> QED
    BY <1>1, <1>2, <1>3, <1>4, NothingSettled DEF SettleInv

LEMMA StutterStep ==
    ASSUME SettleInv, UNCHANGED vars
    PROVE  SettleInv'
  <1>1. UNCHANGED <<telemetry, rounds, pending, policy, tx, aborts>>
    BY DEF vars
  <1>2. blocked' \subseteq Wallets /\ rewards' \in BOOLEAN /\ dailyCap' \in DailyCaps
        /\ flips' \in 0 .. MaxFlips
    BY <1>1 DEF SettleInv, TypeOK, policy
  <1> QED
    BY <1>1, <1>2, PolicyStep

LEMMA NextSettle ==
    ASSUME SettleInv, [Next]_vars
    PROVE  SettleInv'
  <1>1. ASSUME NEW c \in Callers, SettleStep(c) PROVE SettleInv'
    BY <1>1, BeginStep, GateStep, JudgeStep, CommitStep, CreditStep DEF SettleStep
  <1>2. ASSUME SettlementNext PROVE SettleInv'
    BY <1>1, <1>2, EnterBeginStep, EnterFinishStep, OperatorStep, LockStep, AbortStep
       DEF SettlementNext
  <1> QED
    BY <1>2, InOrderStep, StutterStep DEF Next

\* However many predictions, wallets and drivers there are, in every state the
\* types hold, the telemetry landed in order, what is credited fits into the
\* caps, and what a settlement in progress holds may be committed.
THEOREM SettleInvariance == Spec => []SettleInv
  <1>1. Init => SettleInv
    BY InitSettle
  <1>2. SettleInv /\ [Next]_vars => SettleInv'
    BY NextSettle
  <1> QED
    BY <1>1, <1>2, PTL DEF Spec

\* Settlements credit no more than the daily cap, a wallet's and a
\* prediction's, whichever drivers ran and whatever an operator switched
\* meanwhile (settle_due_predictions).
THEOREM CapsAlwaysHold == Spec => [](TypeOK /\ CapsHold)
  <1>1. SettleInv => TypeOK /\ CapsHold
    BY DEF SettleInv
  <1> QED
    BY <1>1, SettleInvariance, PTL

\* A streak counts each round once, and is all of them for a wallet that was
\* never wrong (the wallet_streaks upsert).
THEOREM StreaksStayEarned == Spec => []StreaksEarned
  <1>1. SettleInv => StreaksEarned
    BY DEF SettleInv
  <1> QED
    BY <1>1, SettleInvariance, PTL

LEMMA TrueRounds == SettleInv => SettledOnWholeWindow
  BY DEF SettleInv, RoundsOK, SettledOnWholeWindow, Truth, Complete

\* A settled round was decided on everything that happened in its window (the
\* completeness gate of settle_due_predictions).
THEOREM SettledRoundsAreTrue == Spec => []SettledOnWholeWindow
  BY TrueRounds, SettleInvariance, PTL

-----------------------------------------------------------------------------
(* Settlement implements Round                                             *)

\* Steps that decide nothing, enter nothing and pay nothing.
LEMMA RoundStutters ==
    ASSUME UNCHANGED <<verdict, entries, credit>>
    PROVE  [R!Next]_(R!roundVars)
  BY DEF R!roundVars

LEMMA SameVerdict ==
    ASSUME UNCHANGED <<status, result>>
    PROVE  verdict' = verdict
  BY DEF verdict

LEMMA OtherStutters ==
    ASSUME SettleInv,
           \/ UNCHANGED rounds
           \/ LockDue
    PROVE  [R!Next]_(R!roundVars)
  <1>1. CASE UNCHANGED rounds
    <2>1. UNCHANGED <<status, result, entries, credit>>
      BY <1>1 DEF rounds
    <2> QED
      BY <2>1, SameVerdict, RoundStutters
  <1>2. CASE LockDue
    <2>1. UNCHANGED <<result, entries, credit>>
      BY <1>2 DEF LockDue
    <2>2. \A p \in Predictions :
             /\ status'[p] = "settled" <=> status[p] = "settled"
             /\ status'[p] = "void" <=> status[p] = "void"
      BY <1>2 DEF LockDue
    <2>3. verdict' = verdict
      BY <2>1, <2>2 DEF verdict
    <2> QED
      BY <2>1, <2>3, RoundStutters
  <1> QED
    BY <1>1, <1>2

\* An entry that is counted was the first, of a round still undecided.
LEMMA EntersRound ==
    ASSUME SettleInv, NEW e \in pending, EnterFinish(e)
    PROVE  [R!Next]_(R!roundVars)
  <1>1. e.p \in Predictions /\ e.w \in Wallets /\ e.o \in Outcomes
    BY DEF SettleInv, TypeOK
  <1>2. entries[e.p][e.w] = NULL /\ now < ResolvesAt[e.p]
    BY DEF SettleInv, PendingOK
  <1>3. status[e.p] \notin {"settled", "void"}
    BY <1>1, <1>2, MadeType DEF SettleInv, RoundsOK
  <1>4. verdict[e.p] = NULL
    BY <1>1, <1>3 DEF verdict
  <1>5. /\ entries' = [entries EXCEPT ![e.p][e.w] = e.o]
        /\ UNCHANGED <<status, result, credit>>
    BY DEF EnterFinish
  <1>6. UNCHANGED verdict
    BY <1>5, SameVerdict
  <1>7. R!Enter(e.p, e.w, e.o)
    BY <1>2, <1>4, <1>5, <1>6 DEF R!Enter
  <1> QED
    BY <1>1, <1>7 DEF R!Next

\* A settlement that commits decides the rounds it did not leave to a later one.
LEMMA DecidesRounds ==
    ASSUME SettleInv, NEW c \in Callers, SettleCommit(c)
    PROVE  [R!Next]_(R!roundVars)
  <1> DEFINE t == tx[c]
             D == {p \in t.claimed : t.rows[p].status # "resolving"}
  <1>1. CommitWrites(t) /\ t \in Transactions /\ Fits(t)
    BY Commits
  <1> HIDE DEF t
  <1>2. /\ t.claimed \subseteq Predictions /\ t.credit \in Ledgers
        /\ t.rows \in [t.claimed -> RowTypes] /\ ClaimFits(t)
    BY <1>1, Typed DEF Fits, RowsFit, ClaimFits
  <1>3. TypeOK' /\ RoundsOK' /\ TypeOK /\ RoundsOK
    BY CommitStep DEF SettleInv
  <1>4. UNCHANGED entries
    BY <1>1 DEF CommitWrites
  <1>5. D \in SUBSET Predictions
    BY <1>2
  <1>6. ASSUME NEW p \in Predictions
        PROVE  /\ p \in D => verdict[p] = NULL
               /\ p \in D => verdict'[p] \in Outcomes \cup {"void"}
               /\ p \notin D => verdict'[p] = verdict[p]
               /\ p \in D /\ verdict'[p] # "void" =>
                     status'[p] = "settled" /\ verdict'[p] = result'[p]
               /\ p \in D /\ verdict'[p] = "void" => status'[p] = "void"
    <2>1. verdict[p] = (IF status[p] = "settled" THEN result[p]
                        ELSE IF status[p] = "void" THEN "void" ELSE NULL)
      BY DEF verdict
    <2>2. verdict'[p] = (IF status'[p] = "settled" THEN result'[p]
                         ELSE IF status'[p] = "void" THEN "void" ELSE NULL)
      BY DEF verdict
    <2>3. CASE p \notin t.claimed
      BY <1>1, <2>1, <2>2, <2>3 DEF CommitWrites
    <2>4. CASE p \in t.claimed
      <3>1. status[p] \in {"locked", "resolving"} /\ verdict[p] = NULL
        BY <1>2, <2>1, <2>4 DEF ClaimFits
      <3>2. status'[p] = t.rows[p].status /\ result'[p] = t.rows[p].result
            /\ status'[p] \in {"resolving", "settled", "void"}
        BY <1>1, <1>2, <2>4 DEF CommitWrites, RowTypes
      <3>3. status'[p] = "settled" => result'[p] \in Outcomes
        BY <1>3 DEF RoundsOK, Truth
      <3>4. "void" \notin Outcomes
        BY DEF Outcomes
      <3> QED
        BY <2>2, <2>4, <3>1, <3>2, <3>3, <3>4
    <2> QED
      BY <2>3, <2>4
  <1>7. ASSUME NEW p \in Predictions \ D PROVE credit'[p] = credit[p]
    <2>1. CASE p \notin t.claimed
      BY <1>1, <2>1 DEF CommitWrites
    <2>2. CASE p \in t.claimed
      <3>1. credit'[p] = t.credit[p] /\ t.rows[p].status = "resolving"
            /\ status[p] # "settled"
        BY <1>1, <1>2, <1>7, <2>2 DEF CommitWrites, ClaimFits
      <3>2. \A w \in Wallets : ~ (t.credit[p][w] > 0) /\ ~ (credit[p][w] > 0)
        BY <1>2, <1>3, <2>2, <3>1 DEF ClaimFits, Earned, RoundsOK
      <3>3. credit[p] \in [Wallets -> Nat] /\ t.credit[p] \in [Wallets -> Nat]
        BY <1>2, <1>3 DEF Ledgers, TypeOK
      <3>4. \A w \in Wallets : t.credit[p][w] = credit[p][w]
        BY <3>2, <3>3
      <3> QED
        BY <3>1, <3>3, <3>4
    <2> QED
      BY <2>1, <2>2
  <1> HIDE DEF D
  <1>8. verdict' = [p \in Predictions |-> verdict'[p]]
        /\ verdict = [p \in Predictions |-> verdict[p]]
    BY DEF verdict
  <1>9. CASE D = {}
    <2>1. verdict' = verdict
      BY <1>6, <1>8, <1>9
    <2>2. credit' = credit
      <3>1. credit' \in [Predictions -> [Wallets -> Nat]]
            /\ credit \in [Predictions -> [Wallets -> Nat]]
        BY <1>3 DEF TypeOK
      <3>2. \A p \in Predictions : credit'[p] = credit[p]
        BY <1>7, <1>9
      <3> QED
        BY <3>1, <3>2
    <2> QED
      BY <1>4, <2>1, <2>2, RoundStutters
  <1>10. CASE D # {}
    <2>1. NULL \notin Outcomes \cup {"void"}
      BY RoundAssumption
    <2>2. \A p \in D : verdict[p] = NULL
      BY <1>5, <1>6
    <2>3. verdict' \in [Predictions -> Outcomes \cup {"void", NULL}]
      <3>1. \A p \in Predictions : verdict'[p] \in Outcomes \cup {"void", NULL}
        <4> TAKE p \in Predictions
        <4>1. verdict[p] \in Outcomes \cup {"void", NULL}
          BY <1>3 DEF verdict, TypeOK
        <4> QED
          BY <1>6, <4>1
      <3> QED
        BY <1>8, <3>1
    <2>4. \A p \in Predictions : verdict'[p] = verdict[p] <=> p \notin D
      BY <1>6, <2>1
    <2>5. ASSUME NEW p \in D
          PROVE  /\ \A w \in Wallets : credit'[p][w] > 0 =>
                       verdict'[p] # "void" /\ entries[p][w] = verdict'[p]
                 /\ R!MapThenSumSet(LAMBDA w : credit'[p][w], Wallets) <= Pool[p]
      <3>1. p \in Predictions
        BY <1>5, <2>5
      <3>2. Earned(credit'[p], entries[p], status'[p], result'[p])
            /\ Total(credit'[p], Wallets) <= Base(p)
        BY <1>3, <1>4, <3>1 DEF RoundsOK
      <3>3. \A w \in Wallets : credit'[p][w] > 0 =>
               verdict'[p] # "void" /\ entries[p][w] = verdict'[p]
        BY <1>6, <2>5, <3>1, <3>2 DEF Earned
      <3>4. Base(p) <= Pool[p] /\ Base(p) \in Nat /\ Pool[p] \in Nat
        BY <3>1, RoundAssumption, CapAssumption DEF Base
      <3>5. credit' \in Ledgers
        BY <1>3 DEF TypeOK, Ledgers
      <3>6. Total(credit'[p], Wallets) \in Nat
        BY <3>1, <3>5, SpentIs
      <3>7. Total(credit'[p], Wallets) <= Pool[p]
        BY <3>2, <3>4, <3>6
      <3>8. R!MapThenSumSet(LAMBDA w : credit'[p][w], Wallets) <= Pool[p]
        BY <3>7 DEF Total, MapThenSumSet, MapThenFoldSet, R!MapThenSumSet, R!MapThenFoldSet
      <3> QED
        BY <3>3, <3>8
    <2>6. R!Decide(D)
      BY <1>4, <1>7, <2>2, <2>3, <2>4, <2>5 DEF R!Decide
    <2> QED
      BY <1>5, <1>10, <2>6 DEF R!Next
  <1> QED
    BY <1>9, <1>10

LEMMA NextKeepsRound ==
    ASSUME SettleInv, [Next]_vars
    PROVE  [R!Next]_(R!roundVars)
  <1>1. ASSUME NEW c \in Callers, SettleStep(c) PROVE [R!Next]_(R!roundVars)
    <2>1. ASSUME NEW w \in Wallets, SettleCredit(c, w) PROVE UNCHANGED rounds
      BY <2>1 DEF SettleCredit
    <2>2. SettleBegin(c) \/ SettleGate(c) \/ SettleJudge(c) => UNCHANGED rounds
      BY DEF SettleBegin, SettleGate, SettleJudge
    <2> QED
      BY <1>1, <2>1, <2>2, OtherStutters, DecidesRounds DEF SettleStep
  <1>2. ASSUME SettlementNext PROVE [R!Next]_(R!roundVars)
    <2>1. ASSUME NEW p \in Predictions, NEW w \in Wallets, NEW o \in Outcomes,
                 EnterBegin(p, w, o)
          PROVE  UNCHANGED rounds
      BY <2>1 DEF EnterBegin
    <2>2. ASSUME NEW w \in Wallets, Block(w) PROVE UNCHANGED rounds
      BY <2>2 DEF Block
    <2>3. ASSUME NEW cap \in DailyCaps, SetDailyCap(cap) PROVE UNCHANGED rounds
      BY <2>3 DEF SetDailyCap
    <2>4. SwitchRewards => UNCHANGED rounds
      BY DEF SwitchRewards
    <2>5. ASSUME NEW c \in Callers, SettleAbort(c) PROVE UNCHANGED rounds
      BY <2>5 DEF SettleAbort
    <2> QED
      BY <1>1, <1>2, <2>1, <2>2, <2>3, <2>4, <2>5, OtherStutters, EntersRound
         DEF SettlementNext
  <1>3. InOrder => UNCHANGED rounds
    BY DEF InOrder
  <1>4. UNCHANGED vars => UNCHANGED rounds
    BY DEF vars
  <1> QED
    BY <1>2, <1>3, <1>4, OtherStutters DEF Next

LEMMA InitKeepsRound ==
    ASSUME Init
    PROVE  R!Init
  <1>1. /\ status = [p \in Predictions |-> "open"]
        /\ entries = [p \in Predictions |-> [w \in Wallets |-> NULL]]
        /\ credit = [p \in Predictions |-> [w \in Wallets |-> 0]]
    BY DEF Init, RoundsInit, Nobody
  <1>2. verdict = [p \in Predictions |-> NULL]
    BY <1>1 DEF verdict
  <1> QED
    BY <1>1, <1>2 DEF R!Init

\* Two drivers, their transactions and their aborts add up to rounds that are
\* entered while undecided, decided once, and paid from their pool to those
\* who were right (Settlement implements Round).
THEOREM RoundsAreKept == Spec => KeepsRound
  <1>1. Init => R!Init
    BY InitKeepsRound
  <1>2. SettleInv /\ [Next]_vars => [R!Next]_(R!roundVars)
    BY NextKeepsRound
  <1> QED
    BY <1>1, <1>2, SettleInvariance, PTL DEF Spec, KeepsRound, R!RoundSpec

-----------------------------------------------------------------------------
(* What Round promises, of the rows                                        *)

\* A round pays at most its pool, and only those who entered the outcome that came true.
PaidFromPool ==
    \A p \in Predictions :
        /\ Total(credit[p], Wallets) <= Pool[p]
        /\ \A w \in Wallets : credit[p][w] > 0 =>
              status[p] = "settled" /\ entries[p][w] = result[p]

\* An entry stays as it was made; of a round that is decided, everything does.
Final ==
    \A p \in Predictions :
        /\ \A w \in Wallets : entries[p][w] # NULL => entries'[p][w] = entries[p][w]
        /\ verdict[p] # NULL =>
              /\ verdict'[p] = verdict[p]
              /\ entries'[p] = entries[p] /\ credit'[p] = credit[p]

LEMMA RoundSteps ==
    ASSUME TypeOK, [R!Next]_(R!roundVars)
    PROVE  Final
  <1>0. entries \in [Predictions -> [Wallets -> Outcomes \cup {NULL}]]
    BY DEF TypeOK
  <1>1. CASE UNCHANGED R!roundVars
    BY <1>1 DEF R!roundVars, Final
  <1>2. ASSUME NEW p \in Predictions, NEW w \in Wallets, NEW o \in Outcomes, R!Enter(p, w, o)
        PROVE  Final
    <2>1. /\ verdict[p] = NULL /\ entries[p][w] = NULL
          /\ entries' = [entries EXCEPT ![p][w] = o]
          /\ verdict' = verdict /\ credit' = credit
      BY <1>2 DEF R!Enter
    <2>2. \A q \in Predictions :
             /\ q # p => entries'[q] = entries[q]
             /\ \A v \in Wallets : v # w => entries'[q][v] = entries[q][v]
      BY <1>0, <2>1
    <2> QED
      BY <2>1, <2>2 DEF Final
  <1>3. ASSUME NEW D \in SUBSET Predictions, R!Decide(D) PROVE Final
    <2>1. /\ \A p \in D : verdict[p] = NULL
          /\ \A p \in Predictions : verdict'[p] = verdict[p] <=> p \notin D
          /\ \A p \in Predictions \ D : credit'[p] = credit[p]
          /\ entries' = entries
      BY <1>3 DEF R!Decide
    <2> QED
      BY <2>1 DEF Final
  <1> QED
    BY <1>1, <1>2, <1>3 DEF R!Next

LEMMA PoolInv ==
    ASSUME SettleInv
    PROVE  PaidFromPool
  <1> SUFFICES ASSUME NEW p \in Predictions
               PROVE  /\ Total(credit[p], Wallets) <= Pool[p]
                      /\ \A w \in Wallets : credit[p][w] > 0 =>
                            status[p] = "settled" /\ entries[p][w] = result[p]
    BY DEF PaidFromPool
  <1>1. Earned(credit[p], entries[p], status[p], result[p])
        /\ Total(credit[p], Wallets) <= Base(p)
    BY DEF SettleInv, RoundsOK
  <1>2. Base(p) \in Nat /\ Base(p) <= Pool[p]
    BY RoundAssumption, CapAssumption DEF Base
  <1>3. Total(credit[p], Wallets) \in Nat
    <2>1. Counts(credit[p], Wallets)
      BY DEF SettleInv, TypeOK, Counts
    <2> QED
      BY <2>1, RoundAssumption, TotalType
  <1>4. Pool[p] \in Nat
    BY RoundAssumption
  <1> QED
    BY <1>1, <1>2, <1>3, <1>4 DEF Earned

\* A verdict, an entry and a payment are for good: no tick, retry, abort or second driver
\* reopens a round that is decided, changes an entry, or adds to what a
\* round has paid, which is at most its pool and only to those who were right.
THEOREM VerdictsAreFinal == Spec => []PaidFromPool /\ [][Final]_vars
  <1>1. SettleInv /\ [Next]_vars => Final
    BY NextKeepsRound, RoundSteps DEF SettleInv
  <1>2. SettleInv => PaidFromPool
    BY PoolInv
  <1> QED
    BY <1>1, <1>2, SettleInvariance, PTL DEF Spec
=============================================================================
