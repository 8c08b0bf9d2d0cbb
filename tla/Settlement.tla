----------------------------- MODULE Settlement -----------------------------
(***************************************************************************)
(* The life of a prediction in the database: viewers enter it while it is  *)
(* open, two drivers (the harness's ticker and the site's cron) lock it    *)
(* and settle it, and a settlement credits those who were right.           *)
(*                                                                         *)
(* A settlement is one database transaction of many statements under READ  *)
(* COMMITTED: each statement sees what others have committed by then, and  *)
(* nobody sees what it writes until it commits.  tx[c] is what caller c    *)
(* has claimed, read and written so far.                                   *)
(*                                                                         *)
(* Telemetry reaches the tables events, stats and sessions from the        *)
(* harness.  This module assumes of it what docs/CONTRACTS-PREDICTIONS.md  *)
(* asks of the harness: rows land in the order they were recorded, and a   *)
(* heartbeat not before the events it is later than.  No two of them are   *)
(* recorded at the same instant, so recording takes a unit of time.        *)
(***************************************************************************)
EXTENDS Integers, FiniteSets, SequencesExt, FiniteSetsExt

CONSTANTS
    Predictions, Wallets, Callers,
    LocksAt, ResolvesAt,        \* [Predictions -> 0 .. MaxTime]
    Rules,                      \* the rule kinds the predictions may have
    Pool,                       \* [Predictions -> Nat]
    Grace, MaxPerPrediction, WalletCap,
    DailyCaps,                  \* the daily caps an operator may set
    MaxTime, MaxEvents, MaxAborts, MaxFlips,
    NULL

Outcomes == {"yes", "no"}

\* occurs covers event_occurs, event_matches and the wanted_* kinds: some
\* event of the window fits or none does.  outcome covers mission_outcome
\* and activity_outcome: the first event decides.  poison covers the rules
\* that void their round: malformed, of an unknown kind, without a telemetry
\* source, or raising a data error when they are evaluated.
Kinds == {"occurs", "survives", "outcome", "poison"}
Types == {"hit", "miss", "down", "up", "end"}

ASSUME RoundAssumption ==
    /\ LocksAt \in [Predictions -> 0 .. MaxTime]
    /\ ResolvesAt \in [Predictions -> 0 .. MaxTime]
    /\ \A p \in Predictions : LocksAt[p] < ResolvesAt[p]
    /\ Rules \subseteq [Predictions -> Kinds]
    /\ Pool \in [Predictions -> Nat]
    /\ IsFiniteSet(Predictions) /\ IsFiniteSet(Wallets)
    /\ NULL \notin Outcomes \cup {"void"}
ASSUME CapAssumption ==
    /\ {Grace, MaxPerPrediction, WalletCap, MaxTime, MaxEvents, MaxAborts, MaxFlips} \subseteq Nat
    /\ DailyCaps \subseteq Nat /\ IsFiniteSet(DailyCaps) /\ DailyCaps # {}

VARIABLES
    now,
    made,        \* every event that happened, in order: what really was
    events,      \* the rows of the table events
    heartbeat,   \* stats.heartbeat_at, 0 when there is no row
    ended,       \* sessions.ended_at, or NULL
    over,        \* when the session really ended or its harness died, or NULL
    kind, status, result,
    entries, credit, streak,
    pending,     \* entry statements in flight
    blocked, rewards, dailyCap,
    flips,       \* how often an operator changed one of these three
    tx, aborts

telemetry == <<now, made, events, heartbeat, ended, over>>
rounds == <<kind, status, result, entries, credit, streak>>
policy == <<blocked, rewards, dailyCap, flips>>
vars == <<telemetry, rounds, pending, policy, tx, aborts>>

Nobody == [w \in Wallets |-> 0]

RoundsInit ==
    /\ kind \in Rules
    /\ status = [p \in Predictions |-> "open"]
    /\ result = [p \in Predictions |-> NULL]
    /\ entries = [p \in Predictions |-> [w \in Wallets |-> NULL]]
    /\ credit = [p \in Predictions |-> Nobody]
    /\ streak = Nobody
    /\ pending = {}
    /\ blocked = {}
    /\ rewards = TRUE
    /\ dailyCap = Max(DailyCaps)
    /\ flips = 0
    /\ tx = [c \in Callers |-> NULL]
    /\ aborts = 0

TelemetryInit ==
    /\ now = 0 /\ made = <<>> /\ events = {}
    /\ heartbeat = 0 /\ ended = NULL /\ over = NULL

-----------------------------------------------------------------------------
(* What the rules say of a set of events                                   *)

Window(p, evs) == {e \in evs : LocksAt[p] <= e.ts /\ e.ts <= ResolvesAt[p]}

\* A bridge that went down by the end of the window and was not up again
\* before the window opened.
BridgeOverlap(p, evs) ==
    \E d \in evs :
        /\ d.type = "down" /\ d.ts <= ResolvesAt[p]
        /\ ~ \E u \in evs : u.type = "up" /\ d.ts < u.ts /\ u.ts < LocksAt[p]

Deciding(p, evs) == {e \in Window(p, evs) : e.type \in {"hit", "miss"}}
Hit(p, evs) == \E e \in Window(p, evs) : e.type = "hit"
FirstHits(p, evs) ==
    \E e \in Deciding(p, evs) :
        e.type = "hit" /\ \A f \in Deciding(p, evs) : e.ts <= f.ts

Answer(yes) == IF yes THEN "yes" ELSE "no"

\* The result, or NULL when the rule cannot be settled.
Verdict(p, evs) ==
    CASE kind[p] = "occurs"   -> Answer(Hit(p, evs))
      [] kind[p] = "survives" -> Answer(~Hit(p, evs))
      [] kind[p] = "outcome" /\ Deciding(p, evs) # {} -> Answer(FirstHits(p, evs))
      [] OTHER -> NULL

-----------------------------------------------------------------------------
(* Viewers and operators                                                   *)

\* enter_prediction is one statement: it decides on the snapshot it started
\* with, and waits for the row of its prediction to count the entry.
EnterBegin(p, w, o) ==
    /\ status[p] = "open" /\ now < LocksAt[p]
    /\ entries[p][w] = NULL
    /\ ~ \E e \in pending : e.p = p /\ e.w = w
    /\ pending' = pending \cup {[p |-> p, w |-> w, o |-> o]}
    /\ UNCHANGED <<telemetry, rounds, policy, tx, aborts>>

RowFree(p) == \A c \in Callers : tx[c] # NULL => p \notin tx[c].claimed

EnterFinish(e) ==
    /\ RowFree(e.p)
    /\ entries' = [entries EXCEPT ![e.p][e.w] = e.o]
    /\ pending' = pending \ {e}
    /\ UNCHANGED <<telemetry, kind, status, result, credit, streak, policy, tx, aborts>>

Flip == flips < MaxFlips /\ flips' = flips + 1

Block(w) ==
    /\ Flip
    /\ blocked' = IF w \in blocked THEN blocked \ {w} ELSE blocked \cup {w}
    /\ UNCHANGED <<telemetry, rounds, pending, rewards, dailyCap, tx, aborts>>

SwitchRewards ==
    /\ Flip
    /\ rewards' = ~rewards
    /\ UNCHANGED <<telemetry, rounds, pending, blocked, dailyCap, tx, aborts>>

SetDailyCap(cap) ==
    /\ Flip
    /\ dailyCap' = cap
    /\ UNCHANGED <<telemetry, rounds, pending, blocked, rewards, tx, aborts>>

-----------------------------------------------------------------------------
(* The two drivers                                                         *)

LockDue ==
    LET due == {p \in Predictions : status[p] = "open" /\ now >= LocksAt[p]}
    IN  /\ due # {}
        /\ status' = [p \in Predictions |-> IF p \in due THEN "locked" ELSE status[p]]
        /\ UNCHANGED <<telemetry, kind, result, entries, credit, streak, pending, policy, tx, aborts>>

\* Mutant: the unserialised settlement of 20260909000000.
NoAdvisoryLock == TRUE

\* pg_try_advisory_xact_lock: a caller that finds another in progress
\* returns at once.
AdvisoryFree == \A c \in Callers : tx[c] = NULL

\* Mutant: a plain claim of locked rows, which never looks at one again.
DueOnce == {p \in Predictions : status[p] = "locked" /\ now >= ResolvesAt[p]}

Due == {p \in Predictions : status[p] \in {"locked", "resolving"} /\ now >= ResolvesAt[p]}

\* The candidates are claimed one by one as the loop fetches them, but
\* nobody else locks their rows for longer than a statement: FOR UPDATE SKIP
\* LOCKED takes those that are free, and the claim moves them to resolving.
SettleBegin(c) ==
    LET claimed == {p \in Due : RowFree(p)}
    IN  /\ tx[c] = NULL /\ AdvisoryFree
        /\ claimed # {}
        /\ tx' = [tx EXCEPT ![c] =
                    [at |-> now, claimed |-> claimed, todo |-> claimed, pc |-> "gate",
                     rows |-> [p \in claimed |-> [status |-> "resolving", result |-> NULL]],
                     credit |-> [p \in Predictions |-> Nobody],
                     streak |-> streak, cap |-> dailyCap, right |-> {}, share |-> 0]]
        /\ UNCHANGED <<telemetry, rounds, pending, policy, aborts>>

Working(c, pc) == tx[c] # NULL /\ tx[c].todo # {} /\ tx[c].pc = pc

\* The candidate the loop is at: order by resolves_at.
AtHand(c) ==
    CHOOSE p \in tx[c].todo : \A q \in tx[c].todo : ResolvesAt[p] <= ResolvesAt[q]

Put(c, t) == tx' = [tx EXCEPT ![c] = t]

\* On to the next candidate, with what t leaves behind for this one.
Leave(c, t) == Put(c, [t EXCEPT !.todo = @ \ {AtHand(c)}, !.pc = "gate"])
LeaveVoid(c) ==
    Leave(c, [tx[c] EXCEPT !.rows[AtHand(c)] = [status |-> "void", result |-> NULL]])

\* Mutant: the gate asks for the start of the window instead of its end.
ReadyEarly(p) == heartbeat >= LocksAt[p] \/ \E e \in events : e.ts >= LocksAt[p]

Ready(p) ==
    \/ \E e \in events : e.ts >= ResolvesAt[p]
    \/ heartbeat >= ResolvesAt[p]

\* Mutant: the streak statement without its "where prediction_id".
EveryWallet(p) == Wallets

Entered(p) == {w \in Wallets : entries[p][w] # NULL}

SettleGate(c) ==
    /\ Working(c, "gate")
    /\ LET p == AtHand(c)
       IN  \/ /\ Entered(p) = {}
              /\ LeaveVoid(c)
           \/ /\ Entered(p) # {} /\ Ready(p)
              /\ Put(c, [tx[c] EXCEPT !.pc = "judge"])
           \/ /\ Entered(p) # {} /\ ~Ready(p) /\ tx[c].at < ResolvesAt[p] + Grace
              /\ Leave(c, tx[c])
           \/ /\ Entered(p) # {} /\ ~Ready(p) /\ tx[c].at >= ResolvesAt[p] + Grace
              /\ LeaveVoid(c)
    /\ UNCHANGED <<telemetry, rounds, pending, policy, aborts>>

Base(p) == IF Pool[p] <= MaxPerPrediction THEN Pool[p] ELSE MaxPerPrediction

\* Mutant: credits every entrant.
Entrants(p, r) == {w \in Wallets : entries[p][w] # NULL}

Correct(p, r) == {w \in Wallets : entries[p][w] = r}

SettleJudge(c) ==
    /\ Working(c, "judge")
    /\ LET p == AtHand(c)
           r == Verdict(p, events)
           right == Correct(p, r)
           judged == [tx[c] EXCEPT
                        !.rows[p] = [status |-> "settled", result |-> r],
                        !.streak = [w \in Wallets |->
                            IF w \in right THEN @[w] + 1
                            ELSE IF w \in Entered(p) THEN 0 ELSE @[w]]]
       IN  \/ /\ \/ ended # NULL /\ ended <= ResolvesAt[p]
                 \/ BridgeOverlap(p, events)
                 \/ r = NULL
              /\ LeaveVoid(c)
           \/ /\ ended # NULL => ended > ResolvesAt[p]
              /\ ~BridgeOverlap(p, events)
              /\ r # NULL
              /\ IF right = {} THEN Leave(c, judged)
                 ELSE Put(c, [judged EXCEPT !.pc = "credit", !.right = right,
                                            !.share = Base(p) \div Cardinality(right)])
    /\ UNCHANGED <<telemetry, rounds, pending, policy, aborts>>

\* What the ledger cr credits the wallets of ws for each prediction, and in all.
PerPrediction(cr, ws) == [p \in Predictions |-> MapThenSumSet(LAMBDA w : cr[p][w], ws)]
Spent(cr, ws) == MapThenSumSet(LAMBDA p : PerPrediction(cr, ws)[p], Predictions)

Clamp(cap, spent, v) == IF spent + v <= cap THEN v ELSE IF cap > spent THEN cap - spent ELSE 0

\* What a correct wallet is credited: the sums see what others committed and
\* what this settlement has written.  A blocked wallet gets no row, and the
\* master switch drops the row.
CreditOf(c, w) ==
    LET spent(ws) == Spent(credit, ws) + Spent(tx[c].credit, ws)
    IN  IF w \in blocked \/ ~rewards THEN 0
        ELSE Clamp(WalletCap, spent({w}), Clamp(tx[c].cap, spent(Wallets), tx[c].share))

\* One turn of the loop over the correct wallets, in no particular order.
SettleCredit(c, w) ==
    /\ Working(c, "credit")
    /\ w \in tx[c].right
    /\ LET t == [tx[c] EXCEPT !.right = @ \ {w}, !.credit[AtHand(c)][w] = CreditOf(c, w)]
       IN  IF t.right = {} THEN Leave(c, t) ELSE Put(c, t)
    /\ UNCHANGED <<telemetry, rounds, pending, policy, aborts>>

SettleCommit(c) ==
    /\ tx[c] # NULL /\ tx[c].todo = {}
    /\ LET over_(f, g) == [p \in Predictions |-> IF p \in tx[c].claimed THEN g[p] ELSE f[p]]
       IN  /\ status' = over_(status, [p \in tx[c].claimed |-> tx[c].rows[p].status])
           /\ result' = over_(result, [p \in tx[c].claimed |-> tx[c].rows[p].result])
           /\ credit' = over_(credit, tx[c].credit)
    /\ streak' = tx[c].streak
    /\ tx' = [tx EXCEPT ![c] = NULL]
    /\ UNCHANGED <<telemetry, kind, entries, pending, policy, aborts>>

\* Any error but a data error aborts the whole call: nothing of it stays.
SettleAbort(c) ==
    /\ tx[c] # NULL /\ aborts < MaxAborts
    /\ tx' = [tx EXCEPT ![c] = NULL]
    /\ aborts' = aborts + 1
    /\ UNCHANGED <<telemetry, rounds, pending, policy>>

SettleStep(c) ==
    \/ SettleBegin(c) \/ SettleGate(c) \/ SettleJudge(c) \/ SettleCommit(c)
    \/ \E w \in Wallets : SettleCredit(c, w)

SettlementNext ==
    \/ \E p \in Predictions, w \in Wallets, o \in Outcomes : EnterBegin(p, w, o)
    \/ \E e \in pending : EnterFinish(e)
    \/ \E w \in Wallets : Block(w)
    \/ SwitchRewards
    \/ \E cap \in DailyCaps : SetDailyCap(cap)
    \/ LockDue
    \/ \E c \in Callers : SettleStep(c) \/ SettleAbort(c)

-----------------------------------------------------------------------------
(* Telemetry that lands in order                                           *)

\* An entry is one short statement: it does not outlive the window it was
\* made for, which is at least thirty seconds long.
ClockFree == \A e \in pending : now + 1 < ResolvesAt[e.p]

ClockTo(t) == /\ t <= MaxTime /\ ClockFree /\ now' = t

Tick ==
    /\ ClockTo(now + 1)
    /\ UNCHANGED <<made, events, heartbeat, ended, over>>

\* The session table holds at most one outage at a time.
BridgeDown == \E i \in 1 .. Len(made) :
    made[i].type = "down" /\ \A j \in i + 1 .. Len(made) : made[j].type # "up"

Record(type) ==
    /\ over = NULL /\ Len(made) < MaxEvents
    /\ type = "down" => ~BridgeDown
    /\ type = "up" => BridgeDown
    /\ ClockTo(now + 1)
    /\ made' = Append(made, [ts |-> now + 1, type |-> type])
    /\ over' = IF type = "end" THEN now + 1 ELSE over
    /\ UNCHANGED <<events, heartbeat, ended>>

Crash ==
    /\ over = NULL
    /\ over' = now
    /\ UNCHANGED <<now, made, events, heartbeat, ended>>

Land ==
    LET n == Cardinality(events) + 1
    IN  /\ n <= Len(made)
        /\ events' = events \cup {made[n]}
        /\ ended' = IF made[n].type = "end" THEN made[n].ts ELSE ended
        /\ UNCHANGED <<now, made, heartbeat, over>>

Beat ==
    /\ over = NULL /\ heartbeat < now
    /\ Cardinality(events) = Len(made)
    /\ heartbeat' = now
    /\ UNCHANGED <<now, made, events, ended, over>>

InOrder ==
    /\ Tick \/ Crash \/ Land \/ Beat \/ \E type \in Types : Record(type)
    /\ UNCHANGED <<rounds, pending, policy, tx, aborts>>

Init == RoundsInit /\ TelemetryInit
Next == SettlementNext \/ InOrder
Spec == Init /\ [][Next]_vars

\* Time passes, and both drivers keep ticking: the site's cron every minute
\* whatever the harness does.
LiveSpec ==
    /\ Spec
    /\ WF_vars(Tick /\ UNCHANGED <<rounds, pending, policy, tx, aborts>>)
    /\ WF_vars(\E e \in pending : EnterFinish(e))
    /\ WF_vars(LockDue)
    /\ WF_vars(\E c \in Callers : SettleStep(c))

-----------------------------------------------------------------------------
(* Properties                                                              *)
Phases == {"gate", "judge", "credit"}
EventRows == [ts : 1 .. MaxTime, type : Types]
Transactions ==
    [at : 0 .. MaxTime, claimed : SUBSET Predictions, todo : SUBSET Predictions,
     pc : Phases, rows : UNION {[P -> [status : {"resolving", "settled", "void"},
                                       result : Outcomes \cup {NULL}]] : P \in SUBSET Predictions},
     credit : [Predictions -> [Wallets -> Nat]], streak : [Wallets -> Nat],
     cap : DailyCaps, right : SUBSET Wallets, share : Nat]

\* Every variable has its type: in particular no clamp ever makes a credit
\* negative (settle_due_predictions).
TypeOK ==
    /\ now \in 0 .. MaxTime /\ heartbeat \in 0 .. MaxTime /\ aborts \in 0 .. MaxAborts
    /\ made \in Seq(EventRows) /\ events \subseteq EventRows
    /\ ended \in 1 .. MaxTime \cup {NULL} /\ over \in 0 .. MaxTime \cup {NULL}
    /\ kind \in [Predictions -> Kinds]
    /\ status \in [Predictions -> {"open", "locked", "resolving", "settled", "void"}]
    /\ result \in [Predictions -> Outcomes \cup {NULL}]
    /\ entries \in [Predictions -> [Wallets -> Outcomes \cup {NULL}]]
    /\ credit \in [Predictions -> [Wallets -> Nat]]
    /\ streak \in [Wallets -> Nat]
    /\ pending \subseteq [p : Predictions, w : Wallets, o : Outcomes]
    /\ blocked \subseteq Wallets /\ rewards \in BOOLEAN
    /\ dailyCap \in DailyCaps /\ flips \in 0 .. MaxFlips
    /\ tx \in [Callers -> Transactions \cup {NULL}]

Happened == {made[i] : i \in DOMAIN made}

\* A settled round was decided on everything that happened in its window, not
\* on what had reached the database by then: the session lasted past the
\* window, the bridge was up throughout, and the result is what the rule says
\* of all the events (the completeness gate of settle_due_predictions).
SettledOnWholeWindow ==
    \A p \in Predictions : status[p] = "settled" =>
        /\ over # NULL => over >= ResolvesAt[p]
        /\ ~BridgeOverlap(p, Happened)
        /\ result[p] = Verdict(p, Happened)

\* What settlements have credited stays within the daily, per-wallet and
\* per-prediction caps, whichever drivers ran, in whatever order, and
\* whatever an operator did to the daily cap meanwhile.
CapsHold ==
    /\ Spent(credit, Wallets) <= Max(DailyCaps)
    /\ \A w \in Wallets : Spent(credit, {w}) <= WalletCap
    /\ \A p \in Predictions : PerPrediction(credit, Wallets)[p] <= MaxPerPrediction

Right(w) == {p \in Predictions : status[p] = "settled" /\ entries[p][w] = result[p]}
Wrong(w) == {p \in Predictions :
                status[p] = "settled" /\ entries[p][w] \notin {NULL, result[p]}}

\* A streak counts each round once: it never exceeds the rounds its wallet was
\* right about, and it is all of them as long as the wallet was never wrong
\* (the wallet_streaks upsert).
StreaksEarned ==
    \A w \in Wallets :
        /\ streak[w] <= Cardinality(Right(w))
        /\ Wrong(w) = {} => streak[w] = Cardinality(Right(w))

verdict == [p \in Predictions |->
    IF status[p] = "settled" THEN result[p] ELSE IF status[p] = "void" THEN "void" ELSE NULL]

R == INSTANCE Round WITH paid <- credit

\* Two drivers, their transactions and their aborts add up to rounds that are
\* entered while undecided, decided once, and paid from their pool to those
\* who were right.
KeepsRound == R!RoundSpec

\* Every round is decided in the end, even one whose telemetry never arrives,
\* whose evaluation fails, or whose first settlement was skipped or aborted.
EveryRoundEnds == \A p \in Predictions : <>(status[p] \in {"settled", "void"})
=============================================================================
