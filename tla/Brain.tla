-------------------------------- MODULE Brain --------------------------------
(***************************************************************************)
(* Who thinks, when, and what it costs: the two cadences, the decision     *)
(* tried twice, the bill noted before the answer is judged, the outage     *)
(* backoff and the governor's levels (brain/tactical.py, brain/director.py,*)
(* brain/vision.py, budget.py, behavior/recovery.py, and main.py's loop).  *)
(***************************************************************************)
EXTENDS Naturals, FiniteSets, FiniteSetsExt

\* The hour, in the units of time of this module; the cap of its spend, in cents;
\* what a decision and a vision read may cost; reads a unit of time may bring.
CONSTANTS HourLong, HourlyCap, CallCosts, ReadCost, MaxReads
ASSUME BrainConstants ==
  /\ {HourLong, HourlyCap, ReadCost} \subseteq Nat \ {0} /\ MaxReads \in Nat
  /\ CallCosts \subseteq Nat \ {0} /\ CallCosts # {} /\ IsFiniteSet(CallCosts)

VARIABLES
  purse,   \* BudgetGovernor._spend by age, and _level
  bill,    \* what decisions were really billed, by age
  cadence, \* time since each layer's last call, by the clock read before it
  outage,  \* ApiBackoff: failures in a row, what is left of the wait
  call,    \* the attempt of a decision that is under way, or 0
  news     \* _pending_big_event, and the vision reads of this unit of time

brainVars == <<purse, bill, cadence, outage, call, news>>

Ages == 0 .. HourLong - 1
Spent(c) == MapThenSumSet(LAMBDA a : c[a], Ages)
Noted(c, cost) == [c EXCEPT ![0] = @ + cost]
Lapsed(c) == [a \in Ages |-> IF a = 0 THEN 0 ELSE c[a - 1]]

\* MIN_TACTICAL_GAP_S, doubled from level 1 on; DIRECTOR_TIMER_RANGE_S.
TacticalGap(level) == IF level >= 1 THEN 2 ELSE 1
DirectorSoonest == 2
DirectorLatest == 3
LongestWait == 3

BrainInit ==
  /\ purse = [spend |-> [a \in Ages |-> 0], level |-> 0] /\ bill = [a \in Ages |-> 0]
  /\ cadence = [tactical |-> 0, director |-> 0] /\ outage = [failures |-> 0, left |-> 0]
  /\ call = 0 /\ news = [event |-> FALSE, reads |-> 0]

-----------------------------------------------------------------------------
(* The governor.                                                           *)

\* _level_for: 70, 90 and 100 percent of the cap.
ThrottleFor(spend) == Cardinality({t \in {7, 9, 10} : spend * 10 >= t * HourlyCap})

\* _recompute with _on_governor_change: a change of level is a big event.  That he
\* parks at level 3 is left out.
Leveled(spend) == [spend |-> spend, level |-> ThrottleFor(Spent(spend))]
Told(p) == news.event \/ p.level # purse.level

\* Mutant: a call is noted when its decision is used.
NotedWhenUsed(cost, outcome) ==
  IF outcome = "used" THEN Leveled(Noted(purse.spend, cost)) ELSE purse

\* BilledCall.run and record: the response has come, so it is billed, whatever it says.
NotedOnArrival(cost, outcome) == Leveled(Noted(purse.spend, cost))

-----------------------------------------------------------------------------
(* The loop.                                                               *)

\* DirectorCadence.should_fire: nothing at level 3, an event at once, or the timer.
DirectorFires(p, timer) ==
  /\ p.level < 3
  /\ \/ Told(p)
     \/ timer /\ cadence.director >= DirectorSoonest
     \/ cadence.director >= DirectorLatest

\* TacticalCadence.should_fire: the floor comes before every trigger.
TacticalFires(p, trigger) == p.level < 2 /\ cadence.tactical >= TacticalGap(p.level) /\ trigger

\* run and _think: an event is taken up with the iteration, even if nobody calls; a
\* layer that is due while the API is given a rest counts as having fired.
Asks(layer) ==
  /\ cadence' = [cadence EXCEPT ![layer] = 0]
  /\ call' = IF outage.left = 0 THEN 1 ELSE 0

\* down: dead, arrested or in a retry; busy: a cutscene or a switch of characters.
\* trigger stands for the timer of either layer, and for what happened in the game.
Iterate(down, busy, trigger) ==
  LET p == Leveled(purse.spend)
      director == ~down /\ DirectorFires(p, trigger)
      tactical == ~down /\ ~director /\ ~busy /\ TacticalFires(p, trigger) IN
  /\ call = 0 /\ purse' = p
  /\ news' = [news EXCEPT !.event = down /\ Told(p)]
  /\ director => Asks("director")
  /\ tactical => Asks("tactical")
  /\ ~director /\ ~tactical => UNCHANGED <<cadence, call>>
  /\ UNCHANGED <<bill, outage>>

\* read_mission_title, read_mission_outcome: billed at any level, one at a mission's end.
VisionRead(lost) ==
  /\ call = 0 /\ news.reads < MaxReads
  /\ LET p == IF lost THEN purse ELSE Leveled(Noted(purse.spend, ReadCost)) IN
     purse' = p /\ news' = [event |-> Told(p), reads |-> news.reads + 1]
  /\ UNCHANGED <<bill, cadence, outage, call>>

-----------------------------------------------------------------------------
(* A decision (TacticalBrain.decide, DirectorBrain.decide): two attempts.  *)

\* What an attempt that is answered may be worth, and how the API may fail.
Verdicts == {"used", "malformed", "improper"}
ApiErrors == {"rate_limit", "overloaded", "other"}

\* ApiBackoff.record_failure: longer each time up to a limit, no less than the floor
\* (BACKOFF_FLOOR_S); the jitter is left out.
Floor(cause) == CASE cause = "rate_limit" -> 3 [] cause = "overloaded" -> 2 [] OTHER -> 1
WaitAfter(n, cause) == IF n < Floor(cause) THEN Floor(cause) ELSE n
Failure(cause) ==
  LET n == IF outage.failures < LongestWait THEN outage.failures + 1 ELSE LongestWait IN
  [failures |-> n, left |-> WaitAfter(n, cause)]

\* The end of _think.  The last failure decides what is made of it; an answer this
\* program's own schema refused is no outage.
Concluded(cause) ==
  /\ call' = 0
  /\ outage' = CASE cause = "none" -> [failures |-> 0, left |-> 0]
                 [] cause = "malformed" -> outage
                 [] OTHER -> Failure(cause)

\* An answer: billed, then judged.  An improper line is asked for once more, and
\* dropped the second time while the action goes out.
Answered(outcome, cost) ==
  /\ call > 0
  /\ LET p == NotedOnArrival(cost, outcome) IN
     purse' = p /\ news' = [news EXCEPT !.event = Told(p)]
  /\ bill' = Noted(bill, cost)
  /\ CASE outcome # "used" /\ call = 1 -> call' = 2 /\ UNCHANGED outage
       [] outcome = "malformed" /\ call = 2 -> Concluded("malformed")
       [] OTHER -> Concluded("none")
  /\ UNCHANGED cadence

\* An attempt the API refuses costs nothing; the second one is made all the same.
Unanswered(error) ==
  /\ call > 0
  /\ IF call = 1 THEN call' = 2 /\ UNCHANGED outage
     ELSE Concluded(error)
  /\ UNCHANGED <<purse, bill, cadence, news>>

Attempt ==
  \/ \E outcome \in Verdicts, cost \in CallCosts : Answered(outcome, cost)
  \/ \E error \in ApiErrors : Unanswered(error)

-----------------------------------------------------------------------------

\* Time goes on, between iterations and while a call is out; what is an hour old is
\* pruned at the next look.
UnitPasses ==
  /\ purse' = [purse EXCEPT !.spend = Lapsed(@)] /\ bill' = Lapsed(bill)
  /\ cadence' = [tactical |-> IF cadence.tactical < 2 THEN cadence.tactical + 1 ELSE 2,
                 director |-> IF cadence.director < DirectorLatest THEN cadence.director + 1
                              ELSE DirectorLatest]
  /\ outage' = [outage EXCEPT !.left = IF @ > 0 THEN @ - 1 ELSE 0]
  /\ news' = [news EXCEPT !.reads = 0] /\ UNCHANGED call

\* Something happens that is big enough to wake the director.
BigEvent == call = 0 /\ news' = [news EXCEPT !.event = TRUE]
            /\ UNCHANGED <<purse, bill, cadence, outage, call>>

AwakeTurn == \E busy, trigger \in BOOLEAN : Iterate(FALSE, busy, trigger)

BrainNext ==
  \/ \E down, busy, trigger \in BOOLEAN : Iterate(down, busy, trigger)
  \/ \E lost \in BOOLEAN : VisionRead(lost)
  \/ Attempt \/ UnitPasses \/ BigEvent

\* The loop runs, he is not down for good, a call ends, time passes.
BrainFairness ==
  SF_brainVars(AwakeTurn) /\ WF_brainVars(Attempt) /\ WF_brainVars(UnitPasses)
BrainSpec == BrainInit /\ [][BrainNext]_brainVars /\ BrainFairness

-----------------------------------------------------------------------------
\* What decisions are really billed in an hour, the rejected ones and the second
\* tries with them, stays below the cap but for the decision that was under way
\* when it was reached (BilledCall.run, BudgetGovernor.record).  And no level and
\* no outage silences him for good: there is always a next decision, because the
\* hour forgets and the backoff has an end.
Dearest == CHOOSE c \in CallCosts : \A d \in CallCosts : d <= c
SpendIsBounded ==
  /\ [](Spent(bill) < HourlyCap + 2 * Dearest)
  /\ (outage.failures > 0 \/ purse.level > 0) ~> (call > 0)
=============================================================================
