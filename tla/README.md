# WANTED: a verification project

WANTED is a show in which an agent plays GTA V live and viewers predict what
happens to it. A correct prediction earns a credit; a viewer claims credits and
a treasury wallet pays them on chain. This directory holds TLA+ models of the
two halves of the repository: the part where an order of events decides who is
paid (database, worker, settlement, telemetry), and the agent itself (the
harness's loop, its reflexes and plans, and the bridge into the game); the TLC
runs that check them on small instances; and proofs that TLAPS checks.

Paths are relative to the repository. `SQL` is
`infra/supabase/migrations/20260914100000_payout_outbox.sql`, `settle` is
`infra/supabase/migrations/20260922000000_settle_row_isolation.sql`.

## 1. Inventory

| Component | State it keeps | Operations | What is hard |
|---|---|---|---|
| Payout outbox (`SQL`) | `reward_claims`, `reward_ledger.claim_id`, `treasury_accounts`, `payout_lease`, the payouts switch | create, lease, assign nonce, record signed, mark, confirm, fail, flag, halt; the operator's resolve, resume, cancel, override | calls of a run that lost its lease; nonces handed back; credits given back and claimed again |
| Payout worker (`web/src/lib/rewards/payoutWorker.ts`) | what one run read | reconcile what is in flight, check the nonce, pay the queue | crash at any await, lost answers, stale snapshots, a suspended run that goes on |
| Treasury client (`treasury.ts`) and chain | transactions, receipts, nonces | sign, broadcast, read | an error that says nothing about delivery |
| Runbook (`docs/RUNBOOK.md` 5) | – | rotate a key, rule on a review, align a nonce, resume, replace, cancel | steps taken while a run is in the middle |
| Predictions (`20260908120000_predictions.sql`, `settle`, `20260914000001_settlement_guards.sql`) | rounds, entries, credits, streaks, caps, policy flags | enter, lock due, settle due | two drivers at once, a long transaction under READ COMMITTED, telemetry that is not there yet, aborts |
| Drivers (`api/cron/tick/route.ts`, `predictions/ticker.py`) | – | lock, settle, run the worker | they overlap |
| Event writer (`harness/wasted_harness/events.py`) | buffer, queue file, file lock, `unflushed` | record, heartbeat, insert at once, flush, trim | two processes on one file, outages, partial flushes, crash |
| Watchdog's poster (`tools/post_event.py`, `scripts/watchdog.ps1`) | `state/current_session.json` | post `bridge_down`, kill and relaunch | it speaks for a session that may be dead |
| Harness main loop (`main.py`) | trackers, goals, pending stand-down | one tick after another, on one thread | a dozen layers want to move him; each check is stale a few lines later |
| Movement wheel (`behavior/vehicle.py`) | owner, lease, who posted | begin tick, acquire, post, release, preempt hooks | open leases that outlive their reason, ranks, ties |
| Reflexes (`behavior/recovery.py`, `roam.py` escapes, `missions.py` follower, `vehicle.py` ladder) | a small record each: anchors, rungs, clocks, bans | feed a snapshot, say what to do | the snapshot lags; posts are refused; ladders must end |
| Free roam (`behavior/roam.py`, `activities.py`) | locked goal, step machine, menu history, chaos budget | grade, gate, pick, step, end | a goal ends from a dozen places |
| Day plan and missions (`behavior/planner.py`, `missions.py`) | phase, owed blocks, failures, a mission's stamp | trips, hand-offs, mission events and rows | flags missed in breaks and restarts |
| Bridge (`bridge/src`, `bridge_client.py`) | command queue, snapshot, one task slot | HTTP request → game thread → snapshot | a command given up on is applied later; a full queue; going online |
| Brain (`brain/*.py`), governor (`budget.py`), totals (`totals.py`) | cadences, the hour's spend, counters on disk | think, bill, back off; save, seed | rejected answers cost too; restarts |
| Prediction generator (`predictions/*.py`) | what is open, cooldowns, a log of events | measure odds, offer, write | late events, refused rows, caches |
| Sign-in, rate limit (`web/src`) | one row, one counter | issue, consume | one conditional UPDATE |
| Telling a death (`perception.py`, `main.py` `_reflex`), clips (`obs.py`) | the last snapshot; a replay waited for on another thread | compare, record, save, upload, insert | breaks and relaunches between two polls; an announcement that comes late; an upload that fails |
| Overlay, commentary, pages | – | – | display, no protocol |

The chain of calls: the game publishes a snapshot through the bridge → the
harness's loop reads it, its layers decide, one of them posts a task → the bridge
applies it on the game thread; the harness records events → the writer delivers them → the
drivers lock and settle rounds on them → settlement inserts credits → a viewer
creates a claim → the worker signs, broadcasts and confirms it → an operator
steps in when the worker halts.

What makes each part correct:

- *outbox*: a credit belongs to at most one claim that can pay; one live nonce at
  a time; a claim under review stops signing.
- *worker*: a credit is paid at most once; no bytes are sent that a crash could
  forget; no false alarm; every queued claim ends.
- *settlement*: a round is decided on all that happened in its window or voids;
  caps hold; each round counts once; every round ends.
- *writer*: a heartbeat vouches for what precedes it; nothing is lost or doubled;
  everything lands.
- *loop and wheel*: one mover per tick; a layer that thinks it drives does; who is
  told to stand aside does.
- *reflexes*: a ladder ends; a reflex fires when its evidence is there and is not
  fired by evidence about something else.
- *emergencies and deaths*: what is done by hand is done in measure; a death is never
  told twice, is missed only where its first sight tells nothing, and its clip shows it.
- *plans*: a goal, a trip, a mission's row and their leases begin and end together.
- *bridge*: bounded, final once online, and the end of a task is nobody else's.
- *brain and generator*: what is spent is counted, before and after a restart; what
  is offered is rationed, at odds that are those of what happened.

`PROJECT.json` lists every component with its status, and the hazards line by line.

## 2. Modules

| Module | Stands for | Composition |
|---|---|---|
| `PayoutOutbox` | the SQL functions, triggers and unique indexes of the outbox | – |
| `PayoutWorker` | runs of the worker, the chain, operators, viewers | EXTENDS `PayoutOutbox` |
| `CreditPromise` | what the pipeline owes a viewer | refined by `PayoutWorker` (`KeepsPromise`) |
| `Settlement` | entries, drivers, the settlement transaction | – |
| `Round` | what a prediction owes its entrants | refined by `Settlement` (`KeepsRound`) |
| `EventWriter` | two processes, one queue file, the published rows | – |
| `Telemetry` | settlement deciding on what the writer delivers | EXTENDS `EventWriter`, INSTANCE `Settlement` |
| `MovementWheel` | the wheel: owners, ranks, leases, the three refusals | operators on a wheel value |
| `HarnessTick` | one iteration of `main.py`'s loop, layer by layer | EXTENDS `MovementWheel` |
| `Follower` | `MissionFollower`: the marker, the companion, the ladder when he is lost | – |
| `Escapes` | `InteriorEscape`, `HouseEscape` | – |
| `Driving` | `VehicleController`'s ladder, `ControlRegained` | – |
| `Threat` | `threat_action`, `ThreatLatch`, `DamageTracker` against a lagging snapshot | – |
| `Refusals` | `TaskStallDetector`, `ClearedByGameBackoff`, `IdleBreaker` and the gates between them | – |
| `Screen` | `BlockingScreenWatchdog`, `GameRestartDetector`, `ForegroundKeeper`, `OffLoopGrab` | – |
| `Emergencies` | `StuckDetector` and the bridge's nudge, `WaterEscalator`, `StrandedEscalator`, `JackHandoffGate` | – |
| `Deaths` | `Perceptor`, the death and arrest part of `_reflex`, `DeathArrestRecovery`, `ObsClips` | – |
| `DayPlan` | `MissionTracker`, the missions row, `DayPlanner` | – |
| `FreeRoam` | `RoamEngine`, `ActivityRunner`, `_drive_activities` | – |
| `Bridge` | HTTP threads, command queue, task slot, snapshot; the loop and the clip thread that live off them | – |
| `Ledger` | governor and totals across restarts | – |
| `BaseRate` | `RollingBaseRate` | – |
| `Offers` | `PredictionGenerator`, the catalogue's triggers, the breaker | – |
| `Brain` | cadences, a decision's two attempts, bill, backoff, levels | – |
| `MCHarness`, `MCReflexes`, `MCPlans` | several of these modules, one at a time (`part`) | EXTENDS them |
| `MC*` | model values and small instances | – |
| `PayoutOutboxProofs` | theorems about `OutboxSpec` | EXTENDS `PayoutOutbox`, TLAPS |
| `SumProofs` | lemmas about sums over finite sets | EXTENDS TLAPS and its library |
| `PayoutWorkerProofs` | theorems about the pipeline, the refinement of `CreditPromise` | EXTENDS `PayoutWorker`, `PayoutOutboxProofs`, `SumProofs` |
| `SettlementProofs` | theorems about the settlement, the refinement of `Round` | EXTENDS `Settlement`, `SumProofs` |
| `EventWriterProofs` | theorems about delivery | EXTENDS `EventWriter`, TLAPS |
| `HarnessProofs` | theorems about the tick, deaths and emergencies | EXTENDS `HarnessTick`, `Deaths`, `Emergencies`, TLAPS |
| `BridgeProofs` | theorems about the queue, the slot and the latch | EXTENDS `Bridge`, TLAPS |
| `PlansProofs` | theorems about goals, missions, spend, odds, questions, the brain's bill, and the reflexes of `Threat`, `Refusals`, `Screen` | EXTENDS these modules and `SumProofs` |

Operators whose comment begins with `Mutant:` are deliberately wrong variants of
the definition that follows them. The specifications never use them; they exist
to show that each property notices the bug it is meant to notice.

### How state and actions correspond

**PayoutOutbox.** One action per SQL function, with the function's checks as
`...Ok` guards. A function is one action because it is one statement for its
callers: row locks and the lease row serialise what it touches. `Update` is the
transition trigger and the unique indexes: a change they refuse does not happen
(the whole call rolls back). `lease.live` is `expires_at > now()`. Amounts and
wallets of credits are constants. Attempt counters, `stuck_since`, halt reasons
and timestamps decide nothing here and are left out.

**PayoutWorker.** `run[r].pc` is the await a run stands at; one step reads or
writes one thing outside the run. A query's answer is a listing of its rows in the query's order
(`Listings`); the order is strict, so there is one. `Abort` is a failed call or a lost answer at
any await (with the write applied or not), `Crash` a killed function,
`LeaseRunsOut` a lease that expires. A node that has the nonce but not yet the
receipt is the first look of `FindReceipt` under a fault. Run ids are reused, but
a run starts only when idle, so it behaves like a fresh uuid. What is signed depends on the fee: `Preflight` draws one of
`Fees` as the gas and price it read, `Signing` is the transfer at that fee, and a second attempt
at another fee is other bytes. A run that pays sends the bytes it has in memory (`Bytes`), one that
reconciles those of the row it read; only `Record`'s refusal keeps the two the same.
`PreflightRefuses` is a preflight that stops the run (asset, chain, pause, prices, balances), on as
many ticks as it likes.

**Settlement.** `tx[c]` is the transaction of driver `c`: what it claimed, what
it has written and not committed, where its loop stands. `SettleGate`,
`SettleJudge` and `SettleCredit` are statements and read what others committed by
then; `SettleCommit` publishes. Entries are a statement that begins
(`EnterBegin`, deciding on its snapshot) and one that counts (`EnterFinish`,
waiting for the row). The caps are sums over committed credits and the
transaction's own. `InOrder` is telemetry as `docs/CONTRACTS-PREDICTIONS.md` §3
asks for it; `Telemetry` replaces it by the writer, of whose rows settlement sees the time and the
type (`Bare`).

**EventWriter.** `flight[p]` is a flush in progress: `FlushStart` swaps the buffer out,
`FlushEnter` takes the file lock, or goes on without it (`LockGivesUp`), and reads the backlog, `FlushRun` sends
one run of rows, `FlushEnd` rewrites the file. `exposed` collects the rows put on the file while
the other process is between its read and its rewrite and does not have them on its list (`Exposes`). A list cut or filtered is its rows at some places, in order
(`RowsAt`). The environment comes from `main.py`: the heartbeat withheld during an outage or
with `unflushed` (4674–4743), the outage events of the poll (4987–5026), the stop (5200–5212),
the clip's insert (1432–1449).

**MovementWheel and HarnessTick.** The wheel is a value and its methods are
operators: `MayAcquire`, `Grant`, `MarkPosted`, `ReleaseOwner`. The tick is a program
counter that stands before each layer in the order of `run()`; a step is one
layer with everything it calls, its `acquire`, the hooks that `acquire` runs in
the one who loses the wheel, and its post, which may fail. What a layer sees is
the scene polled at the top of the tick; what it would like to do is a choice.
`h` is the state layers share. Tick numbers are not counted: what the code keys on
the current tick is cleared by `BeginTick`.

**The reflexes.** Each class is a record with its fields, each call of `feed`,
`check` or `plan` one action, with what `main.py` does with the answer. Positions
and distances are the few flags the code derives from them ("moved", "close",
"still"). Clocks are ages up to the window the code compares them with. `Threat`
and `Bridge` keep the snapshot apart from the truth: it may lag by `Lag` ticks, or
as long as nobody publishes. `Refusals` counts polls of fifteen seconds, so that
the code's 20, 30, 45 and 25 second windows keep their order.

**Emergencies.** Three machines with clocks of their own. The nudge goes the whole
way: the detector's poll stamps the attempt, the request passes the router's
precheck on the published snapshot, may be given up on with its command left in
the queue, and `NudgeApplied` is the game thread's own check on the engine's task
and the two stop clocks; `WindowOpens` marks any moment, from which the property counts.
The two others are a poll each: what the snapshot shows is free, the fields and their
ages are the code's. `RoadDodge` is left out: its three fields are read where they are
written, and a property of them would only repeat its guards.

**Deaths.** `body` is the game, `before` what `Perceptor.observe` compares with. A
poll is `ReflexPoll`, or `BreakPoll` (observed and nothing else), or `RestartPoll`;
`told.missed` collects the spells whose first sight tells nothing. The
clip's thread steps through `save_replay` and `capture_clip` as OBS's client
thread announces replays (`Announced`) whenever it likes; with no store configured it
goes on to the row without an object.

**FreeRoam, DayPlan.** One poll is one action. `FreeRoam`'s world is `Scenes`, the
predicates of a snapshot the slot reads; goals are records of the fields of `Goal`
the slot reads, and four of them stand for the menu. `Cut` is everything in
the rest of the harness that ends a goal. `DayPlan` has the game's flags, which
may change while nobody polls (a break, a crash, a new process).

**Bridge.** `Http(t)` is one step of an HTTP thread: raise the depth and find a slot or
none (`Route`), lower it again and refuse (`Refuse`), enqueue, wait, answer or give up;
`Drain` is the game thread's tick over the whole queue. Two callers use the server: the loop
(`client`) with its tasks and its guard over the world's speed, and the clip thread beside it
(`clip`), which asks for slow motion when he is dead or arrested and for normal speed after
it. `GiveUp` leaves the HTTP thread and its command behind, which is what a timeout does. The
thinking dip is left out: at the shipped `THINKING_TIMESCALE` of 1.0 (`main.py:193`) it is never
taken. Ids restart only with the game.

**Ledger, Brain.** Money is calls or cents by age, the hour a few ages long.
`Ledger` follows the list of calls from memory to `lifetime.json` and back; `kept`
and `fresh` are what really reached the file or was really made since. `Brain`
follows one decision from the cadence that wakes it to the bill.

**BaseRate, Offers.** `BaseRate` has an absolute clock up to `Horizon`; `happened`
is every event ever observed. `Offers` counts minutes; a member of `Instants` is what the
triggers of the catalogue read.

## 3. Runs

| Run | Question | Result |
|---|---|---|
| `outbox` | every function by anyone in any order | pass: `LedgerAgrees`, `OneSlot`, `ReviewHalts` |
| `worker` | two overlapping runs, one crash / lost answer / expired lease, two wallets, two fees | pass: `PaidAtMostOnce`, `OnlyPersistedBytes`, `KeepsPromise` |
| `operator` | overrides (some from the wrong account), rulings, early resumes, cancellations, rotation beside a run | pass: `TerminalIsTruth`, `SignedNoncesSpent` |
| `recovery` | a foreign transaction, a fault, pauses, a wallet that gets blocked, two wallets, an operator who follows the runbook and cancels held claims | pass: `NoFalseAlarm`, `EveryClaimEnds` |
| `rotation` | the rotation of the runbook with nothing outstanding | violated: `UnhaltedClaimsEnd` |
| `settlement_caps` | two drivers, two rounds, two wallets, an abort, an operator's change | pass: `CapsHold`, `StreaksEarned`, `KeepsRound` |
| `settlement_window` | late telemetry, outages, a dying harness, every kind of rule | pass: `SettledOnWholeWindow`, `EveryRoundEnds` |
| `writer` | two processes on one queue file whose lock may be given up, with an outage or a crash | pass: `HeartbeatHonest`, `NothingLost`, `OncePerEvent`, `EventsLand` |
| `gate` | settlement behind the real writer, with clips connected | violated: `GateIsEvidence` |
| `tick` | every layer of the loop over one wheel, with failed posts, directives, restarts, breaks and budget stops | pass: `OneMover`, `ClaimsAreHeld`, `StandAside`; and, each by itself, deaths and their clips, the emergencies: `DeathsAreTold`, `EmergenciesAreMeasured` |
| `reflexes` | each reflex against a world free to change | pass: `LostIsGivenUp`, `LaddersLetGo`, `DrivingAnswers`, `SurvivalActs`, `RefusalsLetHimAct`, `ScreenIsMinded` |
| `plans` | day plan, goals, bridge, ledger, odds, offers, brain | pass: `OneRowPerStart`, `NothingOutlivesTheGoal`, `EveryGoalEnds`, `StepsEndOnTheirOwn`, `QueueIsBounded`, `LateCommandsDoNoHarm`, `SpendIsRemembered`, `OddsAreOfWhatHappened`, `AskedInMeasure`, `SpendIsBounded` |

`reflexes`, `plans` and the parts of `tick` are not compositions. Their modules share no
variables; the MC module picks one of them (`part`) in the initial state and lets it alone
run, so one configuration covers them and their state spaces add up instead of multiplying.
Fairness is asked of the
part that runs. Where machines do interact, one module has them together: `HarnessTick` the layers and the wheel,
`Refusals` its three memories, `FreeRoam` engine and step machine, `Bridge` both sides of
the wire.

Each component also has a type invariant where its records are not plain
(`OutboxTypeOK`, `TypeOK`, `WriterTypeOK`). Types are part of the invariants that are
proved (section 4); the runs spend their time on the other properties.

What the two violations say, in the code's terms (`PROJECT.json` quotes the
lines they contradict):

- *rotation*: the unique index on `reward_claims.nonce` (`SQL:114`) ignores the
  signer. A new key starts at nonce 0, which a paid claim of the old key already
  has; the update is refused on every tick and the claim waits for ever.
- *gate*: an event inserted at once opens the completeness gate while an older
  one still waits in the buffer.

### Bounds and why they are enough

- Two claims are one claim and its successor: enough for a returned credit to be
  claimed again, for a second claim to wait behind a first, and for two claims to
  compete for a slot. Three credits in `outbox` let a claim take two of them.
- `MaxNonce = 3` leaves room for two payments, a foreign transaction and a cancel.
- `MaxFaults = 1` per run of the checker means one crash, lost answer or expired
  lease at every point of every behaviour; `operator` has none, so that every
  order of the operator's steps fits instead.
- Policy blocks only one of the two wallets (`Blockable`), so that the other's claim
  is the one that must not be held up.
- Two lease holders (`worker`) are a suspended run and its successor, and two fees there let
  each sign its own bytes; the other payout runs have one.
- Two rounds that lock together and resolve at different times, two wallets and
  two drivers are the smallest instance in which caps are shared between rounds,
  between wallets and between settlements. `MaxEvents = 0` there: the telemetry is
  heartbeats, and `settlement_window` covers events. One abort, one change by an
  operator. The clock stops when the second round resolves; the grace period of the
  first ends at that moment, and `settlement_window` sees it end for the second.
- `settlement_window` runs to time 4 over a window from 1 to 3 with three
  events: one before, inside and after it, or an outage and its end around it.
  `occurs` has the same verdict as the negation of `survives` and is left to
  `settlement_caps`.
- `writer`: three events, a queue of two rows, chunks of one, `LockGivesUp = TRUE`. The cap, a chunk
  boundary and a partial run all occur, and so do flushes of both processes inside one another. One fault is one failed request, one
  outage within a flush, or one refused file.
- `tick`: in the tick itself nothing is bounded; the scenes are those that change who may move
  (a job, controls the game holds, indoors, a call), alone and with a job, and two
  of the four survival rungs, one on each side of the threat. In its other parts he
  goes down twice (a clip of the first beside the second), with a store and without one, and the
  nudge runs for two cooldowns (`MaxTime = 4`) with two nudges in an episode, so that an episode can
  be used up and begin again, its windows in the order of the code's 20, 30 and 45 seconds.
- `reflexes`: rooms and rungs as many as the code has (`MaxEscapeRungs = 6`);
  `LatchHold = 3` over a `Lag` of one tick is the latch's four seconds over one
  poll; `KeyGap` exceeds `StallTimeout` as 45 s does 30 s, `SlowGap` exceeds
  `FastGap`, three attempts as in the code. `MaxGrabFailures = 3`
  stands for its ten.
- `plans`: two jobs (a row for the first must not be written for the second); three
  goals, a costly one, a free one and the fallback; two HTTP threads and a queue of
  one, so that both race for the last slot; two task ids; an hour of
  three parts with a cap of three calls; seven steps of clock over a history of
  four, so that events are pruned; two open questions; in `Brain` a cap of ten cents
  with decisions of four, so that the cap is crossed in the middle of a decision. The bridge runs in two
  parts, as tasks and the world's speed share nothing but the queue and the latch, which both
  have: `steps` has tasks, the guard and one thing that goes wrong; `dips` has the clip thread
  and the guard, no tasks, and up to three things that go wrong, of which two may be calls given up
  on and two the game's (slow, dead, arrested, a scene). A world left slow while the request to
  mend it was lost is thus reached, and so are slow motion that is applied after its own restore,
  slow and dead with two calls lost, and a refusal by a slot that is already free again.
- Clocks stop at `MaxTime`, `WriterTime` and `Horizon`, and ids, jobs and mishaps
  run out: those specifications may then halt, and those configurations switch
  deadlock checking off, as `reflexes` does because the world need not change. `outbox` does so
  because an instance that has used up its claims and nonces may stop.

Symmetry is used over lease holders, signers, wallets and drivers in runs whose
properties are safety properties.

### Fairness and why the code justifies it

- A run that is not killed goes on, and the cron starts one every minute
  (`WF RunStep`); a dead run's lease runs out after 120 s (`WF LeaseRunsOut`); the
  chain mines what it was sent (`WF ChainNext`). Faults are finite, nothing
  forces them.
- `EveryClaimEnds` is conditional on payouts staying on and on preflights that are no longer
  refused: a treasury that stays empty, or a token that stays paused, does keep a claim waiting. `RunbookSpec` adds an
  operator who aligns, resumes and rules; `RecoverySpec` one who also cancels a
  held claim, under strong fairness because the guard comes and goes with the
  halt.
- Settlement: time passes, an entry statement finishes, the cron locks and
  settles every minute whatever the harness does.
- Writer: the harness flushes every two seconds while it runs; after a crash the
  next harness flushes the same file. If none is ever started again, the rows
  wait: `EventsLand` assumes one is.
- Reflexes: the loop polls, so a poll of the machine happens again and again, and
  clocks run. Nothing is assumed of the game: what the snapshot shows is free at
  every poll, and where an outcome needs the world to hold still (a car that does not
  move, a man who stands there) the property says so as its premise. Strong fairness where a poll
  of that kind is only possible while a condition that comes and goes holds
  (`RungDue` between the windows of a car, `Decide(TRUE)` between a post and its
  appearance in the snapshot: a post does not fail for ever).
- `LaddersLetGo` assumes of an interior that walks end (the bridge times them out)
  and, as its premise, that nobody else keeps taking the wheel.
- Free roam: the goal's clock runs and polls happen that are not interrupted
  (`DullPoll`: nothing of note in the snapshot).
- Bridge: HTTP threads and the game thread run; a death, an arrest and a scene end; the
  guard asks again (`SF GuardAsks`: while a call is out it cannot). Nothing is assumed of the
  clip thread, which may die before its restore.
- Brain: the loop runs, a call ends (the client has a timeout), time passes, and
  he is not down for good (`SF AwakeTurn`).

## 4. Proofs

TLAPS checks the theorems below for every value of the constants that satisfies
the assumptions of the modules: any number of claims, runs, keys, predictions,
wallets, drivers, rows, HTTP threads, goals, any duration, price and cap. What the runs of section 3 show on
small instances, they show for all. An invariant is proved by an
inductive one.

| Module | Theorem | Statement |
|---|---|---|
| `PayoutOutboxProofs` | `TypeCorrect`, `CreditsAccounted`, `StrictSerial`, `ReviewIsHalted` | `OutboxSpec => []OutboxTypeOK`, `[]LedgerAgrees`, `[]OneSlot`, `[]ReviewHalts` |
| `PayoutWorkerProofs` | `PayoutInvariance` | `AnyHash => (Spec => []WorkerInv)` |
| | `UsesTheOutbox` | every step of the pipeline is a call of one of the outbox's functions, or leaves its tables alone |
| | `PaidOnce`, `EndsAreTrue`, `BytesArePersisted` | `[]PaidAtMostOnce`, `[]TerminalIsTruth`, `[]OnlyPersistedBytes` |
| | `SignedNoncesStaySpent` | `AnyHash => (Spec => []SignedNoncesSpent)` |
| | `LeasesFence` | `AnyHash => (Spec => [](Fenced /\ NoncesDiffer))`: what a run read stays so while its lease holds |
| | `AlarmsAreReal` | `AnyHash /\ Unaided => (Spec => []NoFalseAlarm)` |
| | `PromiseIsKept` | the pipeline implements `CreditPromise` (`KeepsPromise`) |
| | `ViewersArePaidInFull` | `[]PaidInFull /\ [][PaidForGood]_vars`: what the promise means in money |
| `SettlementProofs` | `SettleInvariance` | `Spec => []SettleInv` |
| | `CapsAlwaysHold`, `StreaksStayEarned`, `SettledRoundsAreTrue` | `[](TypeOK /\ CapsHold)`, `[]StreaksEarned`, `[]SettledOnWholeWindow` |
| | `RoundsAreKept` | the settlement implements `Round` (`KeepsRound`) |
| | `VerdictsAreFinal` | `[]PaidFromPool /\ [][Final]_vars`: what a decided round is for good |
| `EventWriterProofs` | `WriterInvariance` | `WriterSpec => []WriterInv` |
| | `HeartbeatsAreHonest`, `NothingGetsLost` | `[]HeartbeatHonest`, `[]NothingLost`, lock or no lock |
| | `NoneIsSentTwice` | `~LockGivesUp => (WriterSpec => []OncePerEvent)` |
| | `GateIsSound` | `Undisturbed /\ RoundsAssumed => (Spec => []GateIsEvidence)`, of `Telemetry` |
| `HarnessProofs` | `TickInvariance` | `TickSpec => []TickInv` |
| | `OneMoverPerTick`, `ClaimsStayHeld`, `LayersStandAside` | `[]OneMover`, `[]ClaimsAreHeld`, `[]StandAside` |
| | `DeathsStayTold`, `EmergenciesStayMeasured` | `[]DeathsAreTold`, `[]EmergenciesAreMeasured` |
| `BridgeProofs` | `BridgeInvariance` | `BridgeSpec => []BridgeInv` |
| | `QueueStaysBounded`, `StepsAreCreditedTruly` | `[]QueueIsBounded`, `[]StepsEndOnTheirOwn` |
| | `NothingMovesTheLatchedGame` | `[][OnlineIsLeftAlone]_bridgeVars`, the safety half of `LateCommandsDoNoHarm` |
| | `LaddersAreSpent`, `LaddersOnlyClimb`, `CarsAreLeftLast` | `[][LadderIsSpent]_followerVars`, `[][LaddersClimb]_escapeVars`, `[][RungsAreEarned]_drivingVars`: what `LostIsGivenUp`, `LaddersLetGo` and `DrivingAnswers` rest on |
| `PlansProofs` | `NothingIsLeftBehind`, `ClocksOnlyRun` | `[]NothingOutlivesTheGoal`, and that a locked goal keeps its clock |
| | `RowsAreWrittenOnce`, `SpendStaysRemembered`, `OddsStayTrue` | `[]OneRowPerStart`, `[]SpendIsRemembered`, `[]OddsAreOfWhatHappened` |
| | `QuestionsStayMeasured` | `AskedInMeasure` |
| | `SpendStaysUnderCap` | `[]SpendUnderCap`, the safety half of `SpendIsBounded` |
| | `OrdersRunOn` | `[]NotAtItTwice`, the safety half of `SurvivalActs` |
| | `StopsStayEarned` | `[][StopsAreEarned]_refusalsVars`, the safety half of `RefusalsLetHimAct` |
| | `KeysStayWarranted`, `RequestsStayMeasured` | `[][KeysAreWarranted]_frozenVars` and `[][AskedAtLeisure]_focusVars`, the safety half of `ScreenIsMinded` |
| | `CaptureStaysFair` | `[][CaptureIsFair]_grabVars`, what the capture's part of `ScreenIsMinded` rests on |

`SumProofs` holds what several of these need about sums over finite sets.

### Assumptions and hypotheses

The assumptions are types of the constants, and what the code's configuration guarantees of
them: a cooldown is not zero, a window ends after it begins, a chunk and a cap hold a row; the
durations of `Screen` are not zero and end before the number that stands for "never", and the
keeper's fast gap is no longer than its slow one (`ScreenConstants`); the flags of a sighting
and of a poll are Booleans (`DotsAssumption`, `PollsAssumption`); a snapshot lags for less
than the latch holds (`HoldOutlastsLag`). `IsFiniteSet` of predictions, wallets and threads is
assumed because sums and counts over them are meant to have a value. Some theorems carry a
hypothesis of their own:

- `AnyHash` (`Txs \subseteq Hashes`): the outbox treats signed bytes as opaque,
  so `PayoutOutbox` has a set `Hashes` of them; composed with the worker it must
  have those the worker can sign. The worker's runs give `Hashes` the value `Txs`.
- `Unaided` for `AlarmsAreReal`: the operator neither overrides a transaction by hand nor
  rotates the key (`World` has neither `override` nor `rotate` nor `rotate_idle`). An override
  that is mined before it is recorded looks to a run like a use of the key by somebody else;
  and a run with the new key flags a claim that an earlier run, under way during the
  rotation, signed with the old one. With either in `World` TLC refutes `NoFalseAlarm`. Cancellations, rulings,
  resumes before a ruling, blocks, pauses, the alignment of an account and transactions
  from outside are all allowed.
- `IsFiniteSet(Credits)` for `PromiseIsKept` and `ViewersArePaidInFull`, which speak of sums
  of credits.
- `~LockGivesUp` for `NoneIsSentTwice`. What is lost, and what a heartbeat vouches for, is proved
  without it; that no row lands twice is checked by TLC with the lock given up (and then says
  nothing of the rows that two processes had both read, which both send), and proved for a lock
  that is held.
- `Undisturbed` for `GateIsSound`: no event is inserted at once (no clips connected), the
  watchdog does not write, the lock holds, and no request or file is refused. The loop may die
  at any moment, at any point of a flush. The run `gate` is the counterexample without the first
  of these, and TLC finds one with a watchdog or with a single refused request as well
  (section 6): the gate is evidence under these conditions and not more generally.
- `RoundsAssumed` for `GateIsSound`: what `Settlement` assumes of its constants, with the writer's
  time as its own. It is a hypothesis because `Telemetry` is run only to a violation.

### Arguments

**Outbox.** `OutboxTypeOK` is inductive by itself: the delicate point is that a
nonce is handed back only when it was the last one allocated, so the counter
stays a natural number (`CancelType`). The other three need

    IInv == OutboxTypeOK /\ LedgerAgrees /\ OneSlot /\ Recorded /\ ReviewHalts /\ Unborn

`Recorded` says that a claim past signing has a signer whose account exists:
without it, flagging a claim would have no account to halt. `Unborn` says that a
row not created yet carries no credits: without it, creating a claim could adopt
credits that `LedgerAgrees` says nothing about. The steps fall into a few shapes,
each a lemma: a step that touches neither claims nor ledger (`Quiet`), one that
moves a single claim (`Moved`), a cancellation (`Cancelled`).

**Worker.** `WorkerInv == IInv /\ Money /\ RunsOK /\ key \in Signers`. Why no
credit is paid twice does not rest on leases at all, which is what makes it hold
with any number of suspended runs:

- `RowsOK`: the row of a claim that was ever signed is the record of one transfer, at
  one nonce of one account and one fee, and is never replaced by another; and what a run that has
  recorded holds in memory is that row's (`Fits`): a run whose own bytes were refused has stopped.
- `SentOK`: a node has only seen that transfer, or an override of the same
  account and nonce; `ChainOK`: the chain mines one transaction for a nonce of an account. So
  at most one transaction pays a claim (`PaymentsOf` has at most one element).
- `EndsOK`: a confirmed claim was paid; a failed one was never signed, or its
  nonce has gone to something that does not pay it (`Voided`). A nonce that is used stays
  used, so nothing can pay it later (`VoidForEver`). Credits come back only from failed
  claims, and `LedgerAgrees` says a credit belongs to one claim that is not failed.
- `RunsOK`: what a run remembers was true when it read it and is of a kind that
  stays true: a claim it saw signed stays signed (`TodoFits`), a receipt it is
  about to settle with is in the chain and at the claim's nonce (`Settles`). This is
  the staleness argument for every await of `payoutWorker.ts`.

`SignedNoncesSpent` (no nonce is used for two claims that were signed) is the one that does
rest on the lease: `SpentInv == WorkerInv /\ NoncesDiffer /\ SignedNoncesSpent /\ Fenced`. `Fenced`
says that what a run read of its account and of its queue is still so while its lease holds
(`Tenure`): the other runs only read then, `OneSlot` keeps a cancellation from handing a
nonce back under it, and the check of an idle account's nonce puts the account past
the nonce of every claim the run goes on to sign.

`NoFalseAlarm` is about what a run concludes from what it read earlier, and needs

    AlarmInv == SpentInv /\ OneKey /\ OnlyTransfers /\ NoFalseAlarm /\ Watchful

`Suspects` is the half that holds with or without the lease: a run rechecks a
claim only when the claim's nonce is used, and flags it only when somebody else has used
it, because the second look at the receipts finds the claim's own transfer if that is what used it.
`Watches` is the half that rests on the lease and on nobody else having
used the key: the account gives no nonce past the one the run read (`Ahead`), and less than
that once the claim that waited with the last nonce has handed it back; and every nonce the account
has given belongs to a signed claim or waits in the queue. So the chain is never ahead of the
account, and the run does not halt.

A step of the worker is shown to change the tables as one call of the outbox
does (`WorkerCall`), which carries `IInv` over and gives `UsesTheOutbox`.
`PromiseIsKept` maps claims to sets of credits owed, set aside and paid, with
`Bundled` (a claim's credits are of its wallet); that a wallet is paid what its credits
amount to is a sum over the payments, and needs `SumProofs`.

**Settlement.** `SettleInv == TypeOK /\ TelemetryOK /\ PendingOK /\ RoundsOK /\ TxOK /\ CapsHold
/\ StreaksEarned`. The weight is in `TxOK`: one settlement runs at a time (the advisory lock),
and what it holds uncommitted *fits* what is committed. `ClaimFits`: its rounds are still locked
and nobody else's, and each it calls settled has a result that is the verdict on all that
happened (`Truth`). `CapsFit`: committed and uncommitted credits together are within the caps,
also after an operator changed the caps in the middle, which is why the largest `DailyCaps` is
the bound. `HandFits`: the winners still to be credited, each with its share, fit in what is
left of the pool, which is the integer division of `settle`'s clamp. `TelemetryOK` says that
what landed is a prefix of what happened and that a heartbeat vouches for it; it turns the
gate's check into `Complete`.

**Writer.** `WriterInv == WriterTypeOK /\ Ordered /\ Sending /\ Delivery`. `Sending`: a flush that
has read the file has on its list every event of the file and of the buffer it
took that has not landed and is not `exposed`, and its heartbeats come after what they vouch for;
with a lock that holds, nothing is exposed and one process at a time is in there. A rewrite can
therefore erase only what is exposed, which is why the properties that name it need no lock. Every
action moves rows between file, list, buffers and table; `Over` (these rows cover those,
heartbeats merged) says that it drops none, in a form that composes. `Delivery` is the
honesty of heartbeats wherever they are on their way, not only in the
table. That a row lands once needs the lock, and `Single` besides: as long as no request's
answer was lost, the table, the backlog of the file or its flush, and each process's own
rows have no event in common. Trimming and chunking are shown to keep the order and the
multiplicity of rows by lemmas about ranks of places (`RanksGrow`, `DrawnFrom`).

**Gate.** `GateInv == WriterInv /\ Undelayed /\ Judging!SettleInv`, where `Judging` is
`SettlementProofs` over the writer's rows. `Undelayed` adds to the writer's invariant what
in-order delivery takes: events wait in the order they were recorded, in the buffer, in
what a flush took and from run to run of its list (`Waiting`; coalescing heartbeats and moving them
behind the rest do not disturb it, `PlannedInTurn`); what has landed is therefore all that was
recorded up to some moment (`Prefixed`, `LandedFirst`); and nothing is dated after the end of the
session (`Timed`). With that a step of the writer, whichever it is, is one that
`Settlement`'s invariant survives (`GlimpseMoves`, `TelemetryStep`), so what the module assumes of
telemetry is here a consequence.

**Finality.** `ViewersArePaidInFull` and `VerdictsAreFinal` are read off the abstract
specifications: in `CreditPromise` paying adds to a wallet exactly what leaves the credits owed,
in `Round` a decided prediction has no further action, and the refinements carry both to the code's
steps. The sums on either side need `TotalJoined` of `SumProofs`.

**Loop.** `TickInv == TickTypeOK /\ Sound(h) /\ OnlyDirectives /\ PaidAfterPark /\ JobEndsGoal`. `Sound`
says what every layer leaves behind: a planned goal holds the wheel, the two open leases that mean
something are open, and only the poster of record has posted. The first half of
the proof is about the wheel alone (`WheelTypes` and the lemmas on hooks: whoever
loses the wheel has been told); the second goes layer by layer.

**Deaths, emergencies.** `DeathsInv` adds to the property what the last
snapshot knew (`ToldIsKnown`), that a spell a reflex saw was told or is among the missed
(`SeenIsTold`), that a clip's file is the replay asked for and, where there is a store, uploaded
before its row (`ClipIsOfSpell`), and which goals a death forgets (`AimsForget`).
`NudgeInv` counts from any moment: what is done or on its way since then, beyond what was on its
way already, has been asked for in the window, and every one asked for but the first has paid
its cooldown out of the window's time; so there is one, and one more per cooldown, for any
cooldown and any moment.

**Bridge.** `QueueIsBounded` is about a counter that is raised before it is known whether it may be;
what is missing is `SlotsCounted`: the depth is the queue's length plus the threads inside
`TryEnqueue`, those that hold a slot and those about to be refused (`Holding`), and the queue
with the first of these (`Reserving`) is within the limit. `RepliesWaited` says an answer reaches a
thread that waits, and each queued request is another thread's, so an answer never disturbs a
slot. `EndsAreSeen` says a published end is an end the engine came to.

**Plans.** The goal, its step machine, its lease and the cheat layer form one value,
and `Sound` is kept by each of the operators that end or begin a goal. In
`Ledger`, the totals of a running process lie between the file and the governor
(`TotalsLag`), which is why a save forgets nothing and a restart counts nothing twice.
In `DayPlan`, a stamp is later than the last row's start (`RowsInv`). In
`BaseRate`, pruning loses only what no later cutoff asks for (`OddsInv`).
In `Offers`, the page shows nothing the generator has forgotten, and it believes the last
event to be no longer ago than the page does (`OffersInv`): whatever closes a question early
makes it ask less, not more. In `Brain`, the governor's book covers the real bill age by age,
and the bill is below the cap by what the attempts still to come may cost (`Allowance`, of
`BrainInv`); that an hour that slides never adds to it is a sum moved by one (`TotalMoved`).

**Reflexes.** Each invariant says what a memory of the harness owes to the world it cannot see.
`StallInv`: an anchored window is no longer than this very task has stood. `ThreatInv`: an order
that runs is either seen to run or still in the latch, which outlasts the snapshot's lag
(`AtIt`). `FrozenInv`: while the tick is the one last seen, the watchdog's clock is behind the
freeze's and its count of keys is not (`KeysCounted`). `FocusInv`: the keeper has counted every
request since the game last stayed in front, and dates the last one as it was (`Remembers`).
`GrabInv`: a result belongs to a worker whose call has returned, and failures are counted in a
window; so a frame is never half a grab, however late it comes.

**Ladders.** A ladder lets go because it has finitely many rungs and none comes twice; the
theorems say the second half, for each of the three. `FollowInv`: a companion who is
looked for was followed, and a ladder belongs to somebody, so that a step that forgets the
rungs tried is one that changes the companion or has held him for the whole window. `EscapeInv`:
who is nowhere has no rung, and a posted rung is neither the zeroth nor
one of a ladder given up; so, as long as he stays in the room and no walk is
disturbed, the rung only grows. `DriveInv`: a stall window runs only over a car that has not moved
since he got in, and a rung is of the car he sits in; so he is told to leave a car only after
the three milder rungs, in that car.

### Only model-checked

- Liveness under fairness, which this prover does not treat: `EveryClaimEnds`,
  `EveryRoundEnds`, `EventsLand`, `EveryGoalEnds`, `LostIsGivenUp`, `LaddersLetGo`,
  `DrivingAnswers`, and the liveness halves of `LateCommandsDoNoHarm`, `SpendIsBounded`,
  `SurvivalActs`, `RefusalsLetHimAct` and `ScreenIsMinded`. Of `LostIsGivenUp`, `LaddersLetGo` and
  `DrivingAnswers` it is proved that no rung of a ladder comes twice, not that the next one comes.
- The two properties that the code violates (section 6) are runs, not theorems.
- `OncePerEvent` where the file lock is given up: `NoneIsSentTwice` is for a lock that holds.

Every other property of a passing run is a theorem. No module with a theorem has a recursive
operator; the sums and counts come from the folds and cardinalities of the community
modules, and what the proofs need of them are the lemmas of `SumProofs`.

## 5. What is not modelled, and what that means

*Payouts.* Reorganisations of the chain; a node whose nonce view goes backwards;
a transaction whose receipt is served and whose body is not
(`getTransactionMeta` null), which the worker takes for a mismatch; the keccak
check of persisted bytes; gas and balances beyond the fee that is signed and "the
run stops here"; the public status written by `finish`. The operator is diligent where the runbook
asks: a ruling follows what the explorer shows, a replacement transfer comes from
the right account. The mistakes allowed are a cancel sent from the wrong account
and a resume before a ruling. A lease is outlived only by a suspended run,
because a function is killed at 60 s and the lease lasts 120 s; that is a fault.

Seen while reading and left without a run: a pause that arrives after the switch
was re-read does not stop that broadcast (`payoutWorker.ts:480-486`); the comment
at `SQL:868` that a holding claim's nonce is always `next_nonce - 1` is false after
a rotation.

*Settlement.* The boundary of the day the caps are counted over; evidence texts,
`best_streak`, the clamp's reason; which of several rules an event kind belongs
to (rules that decide alike are one kind). An unknown outcome key raises `P0001`
on every tick (`settle:46`): the generator's catalog is closed, so no state here
has one. Entries are assumed not to outlive the window they were made for.

*Writer and telemetry.* Harness and database share a clock and no two events share
an instant. `ended_at` travels in the same flush as `session_end`. The immediate
insert is one step. `_note_predictions_failure`, stale predictions and rows
without a session id are left out, as are flushes from the clip thread. The
watchdog's process is not killed in the middle of its one flush.

On Windows the file lock gives up after ten attempts 0.15 s apart (`events.py:160-181`) and the
flush goes on without it. The run `writer` has `LockGivesUp = TRUE`: whoever finds the lock taken
may go on at any moment. What this costs is named by the properties: rows one process puts on
the file between the other's read and its rewrite can be erased (`exposed`: an event the harness
enqueues while the watchdog flushes, what one of two flushes could not deliver), and rows both
have read are sent by both (`doubt`). Everything else is kept, and with the lock both sets are
empty. The run `gate` has the lock held, so that its counterexample is not the lock's.

`NothingLost` counts rows in the memory of a dead process and rows trimmed at the
cap as given up: the code accepts both.

*The loop and the reflexes.* Geometry, styles of driving and walking, routes,
random draws and delays: choices or flags. In
`HarnessTick` the reflexes are layers that may want the wheel; what makes them want
it is in the modules of their own, except for the flipped car. A layer's
wish is free in every tick, so a property of the tick does not depend on them.
Exceptions that reach the top of an iteration end it (`main.py` catches them);
those inside a post are modelled as a failed post. The operator's file is read
elsewhere; its directives arrive as choices.

*Bridge.* A native that throws inside the start of a task leaves the slot
"running" with nothing behind it; the body's validation; `/config` and the read
routes. What each of the task types does is one step that may end it.
Starting the game again (task ids restart) is in `Screen` and `HarnessTick`, not in
`Bridge`.

*Brain and generator.* Prompts, parsing, knowledge files and memory; templates' texts
and parameters; the random choice among candidates. The price table is a
constant. A vision read is billed and not otherwise modelled.

*Components without a module*: sign-in (one conditional `UPDATE` consumes a nonce,
`web/src/app/api/auth/verify/route.ts:119`, and the loser answers 409: one statement of
the database, with nothing after it to interleave); the rate limiter (one counter
per process); reads and pages; commentary and overlay (display); breaks and
places (`humanizer.py`, `navigation.py`: random draws and a table); operations
scripts.

### Hazards no property covers

- A lagging node may serve the receipt of an override and not yet its transaction
  (`payoutWorker.ts:414`): the claim goes to review as a mismatch.
- The override is the one the snapshot held (`payoutWorker.ts:399`): recorded a
  moment later it is unknown to the whole run (see 6).
- At its cap the queue drops its oldest rows; only an append trims it, so a long
  outage of failing flushes grows the file past the cap (`events.py:633`).
- An unknown outcome key aborts every settlement (`settle:46`), see above.
- `create_reward_claim` is one action: a switch or a block that is set, and a credit that comes,
  between its checks and its insert (`SQL:588`) are not interleaved.
- An entry that is still waiting for its row when the round is decided
  (`20260908120000_predictions.sql:207`): `ClockFree` has it finish within its window of thirty
  seconds or more.
- A harness that is killed leaves its session on disk (`post_event.py:70`), see 6.

## 6. Where the code and its words disagree

The two runs that expect a violation are in section 3. These were met while
modelling and are not asserted by a run.

*Payouts and telemetry*

- `events.py:477-498` against the comment above it (468-474): only heartbeats are held back once a
  run has failed. A later run of events of the same flush (a heartbeat between two events makes
  them two runs) is still sent, and opens the gate while the earlier ones are queued again. So
  does an event of the loop that lands while the watchdog's is still in its own process. Both are
  violations of `GateIsEvidence` with clips off; `GateIsSound` says that without them, and
  without the insert of the run `gate`, there is none.
- `payoutWorker.ts:511` against `SQL:1357-1360`: a run looks only for the override
  its snapshot held. Recorded a moment later and mined, it is unknown to the run,
  which flags the claim and halts the treasury.
- `docs/RUNBOOK.md:207-224`: when the foreign transaction used the nonce a queued
  claim holds, no value of `next_nonce` makes the claim payable; it must be
  cancelled, which the runbook does not say.
- "The whole read → write → rewrite cycle is one critical section so a concurrent post_event CLI
  cannot lose rows between the read and the rewrite" (`events.py:428-431`): on Windows it is one
  for a second and a half, after which both go on (`events.py:160-181`). What can be lost is `exposed`.
- `post_event.py:70` against `docs/CONTRACTS-PREDICTIONS.md:257-260`: the watchdog's event is
  stamped with the session on disk, which a killed harness leaves there; it opens
  the gate of a round that should void.

*Loop, wheel and planner*

- `missions_enabled = False` does not stop the trips (`planner.py:250`;
  `docs/STATUS.md:142` admits it). Blocks owed to free roam are cut short by a
  mission that is asked for, and a failure's backoff of one block is no more than
  the block owed after any mission.
- The trip's deadline is not looked at while somebody hostile is close.
- The day plan's open lease is not released when a trip ends (`vehicle.py:1102-1104`
  expects leases to be given back); whoever acquires next takes it over.
- `MOVEMENT_OWNER_TABLE` has ties in (class, rank), `vehicle.py:960-961` says a
  strict order.
- A mission's row can carry the start of an earlier one whose end was missed in a
  break, though not across a game restart (`main.py:4602`).
- `main.py:2468-2471` says what the game owns is not acted on; `_execute_action` does
  not refuse while only `control_enabled` is false.
- Operator directives are applied before `begin_tick` and so may be followed by
  another post in the same tick (`OneMover` excludes them).
- `_pending_park` does not read the level again before parking.

*Reflexes*

- The follower's ladder uses up a rung though the wheel refused it; its `map_dot`
  rung can never be reached.
- An interior rung whose `acquire` is refused is used up; one lost after a refused
  post steps back two rungs.
- `ThreatLatch`'s docstring (about `recovery.py:1487`) does not hold while the snapshot
  lags.
- `ClearedByGameBackoff` does not count a task it first sees running
  (`recovery.py:309-313`).
- `IdleBreaker`'s third rung never shoots: `recovery.py:2689` reads `class_`, the
  field is `weapon_class` (`bridge_client.py:252`); docstring at 2538. Its ban of
  `walk_to` renews itself.
- `BridgeDownTracker`: an answer of 503 between failures does not end a run of
  "consecutive" failures.
- `GameRestartDetector` misses a restart when the new process's tick has already passed
  the last one seen.
- `BlockingScreenWatchdog` does not look at the foreground: attempts may be used up
  while the keys land elsewhere. A grab that never returns counts as one failure and
  is never given up.

*Emergencies, deaths and clips*

- "Never more than max_nudges_per_episode until the car actually moves"
  (`recovery.py:168-169`): any poll that sees another task starts a new episode, the
  car moved or not. And "a refused nudge still counts against the cooldown"
  (`recovery.py:189-191`) spaces the attempts, not the pushes: a command whose request gave
  up may be applied together with the next, two pushes in a moment. `EmergenciesAreMeasured`
  says what does hold: in any window one, one per cooldown, and those on their way.
- The detector counts `flee_police` as driving (`recovery.py:155-158`), the bridge does
  not (`TaskEngine.cs:354`): those nudges are refused and use up the episode.
- A nudge meant for the car moves the man, when he got out of it while the command was queued
  and stood still long enough (`WastedBridgeScript.cs:520`).
- `StrandedEscalator` says it widens its search from 50 to 90 to 140 m
  (`recovery.py:1963-1969`): its own task, seen running at the next poll, takes it back
  to 50.
- `exit_vehicle` is asked for again at every poll in the water, and the one walk to land is
  used up though it was refused or outranked.
- `perceptor.observe` runs before `_handle_breaks` (`main.py:5077-5084`), whose tick goes no
  further: a death first seen by the poll of a break is never told or counted, though "Mistakes
  and deaths are real and are counted" (the repository's `README.md:205`). These are `told.missed`.
- A replay announced after its wait ended can be taken for the next clip's
  (`obs.py:118-127`; `DeathsAreTold` allows it as `late`).
- Without a store a clip's row is queued though its object was never uploaded
  (`obs.py:163-181`, `events.py:388-403`), and a later process that has one sends it, which the
  message at `obs.py:171-172` says would break the site. `DeathsAreTold` speaks of objects where a
  store is configured.

*Bridge*

- "Never while the harness is holding its own dip" (`main.py:4508`): `_slow_the_death`
  (`main.py:1600-1631`) does not set the flag the guard looks at, so at an arrest the guard ends
  the clip's slow motion early; at a death it is silent for another reason.

*Free roam and activities*

- Deaths never move the chaos ladder (`main.py:1804` against `roam.py:3230`).
- With stars and no locked goal the two goals for them are on the menu and never
  picked.
- Strikes of a stuck goal are not reset by movement, though `roam.py:622-626` says
  "Consecutive stuck windows".
- A lost answer to the cheat layer's switch leaves it on until the bridge's TTL
  (`NothingOutlivesTheGoal` excludes it as `stray`).
- A lagging snapshot makes the step machine report "preempted" for a step that was
  not (`activities.py:632-640`).

*Brain, governor, generator*

- "Hard floor between two tactical calls, applied to EVERY trigger" (`tactical.py`,
  about 62): the second try is made half a second later, after a 429 too.
- A big event popped while the API is backing off, or at level 3, is lost
  (`main.py:5131-5139`, whose comment says otherwise).
- A first answer whose line was improper and a second try the API refused discard
  the whole decision, though the docstring says the action always goes out.
- The breaker's "generation stops for the run" is undone by a later successful flush
  (`main.py:294`, `events.py:562-566`). Two open questions of one type are possible.
- Deaths counted before the totals were seeded are lost in `max()`
  (`totals.py:254-262`); a counter can go back after a failed save and a crash; what
  is spent between the last heartbeat and the stop is forgotten.

## 7. Plan

Done: payout outbox, worker and promise; settlement and round; event writer and
telemetry; the loop and the wheel; reflexes, emergencies, deaths and clips; day plan and free
roam; bridge; brain, ledger, odds and offers. Every safety property of a passing run is a
theorem, both refinements are proved and so is what they promise, the composition of writer and
settlement is proved sound where it is, and so is what the ladders' liveness rests on.

