----------------------------- MODULE Emergencies -----------------------------
(***************************************************************************)
(* The reflexes that get him out of trouble by timers of their own: the    *)
(* wedged car and its nudge (StuckDetector, and the bridge that moves the  *)
(* car), the car in the water (WaterEscalator), and the man without a car, *)
(* who must not take a stranger's while his own can be had back            *)
(* (StrandedEscalator, JackHandoffGate).                                   *)
(* Who gets the wheel is in HarnessTick.  The nudge is that of one game    *)
(* process: a relaunch takes far longer than its cooldown.                 *)
(***************************************************************************)
EXTENDS Naturals

CONSTANTS
  Wedged, Ladder, Cooldown, MaxNudges, MaxTime,  \* the nudge; the last is a bound
  WaterTimeout, EscapeWindow, JackGrace, RetryGap

ASSUME EmergencyAssumption ==
  /\ {Wedged, Ladder, Cooldown, MaxNudges, MaxTime, WaterTimeout, EscapeWindow, JackGrace,
      RetryGap} \subseteq Nat
  /\ Cooldown # 0

VARIABLES
  man,      \* the game: in a car, the engine's task, the stop clocks of car and man
  seen,     \* the published snapshot of these
  stuck,    \* StuckDetector
  ask,      \* the request for a nudge, and the commands whose request gave up
  nudges,   \* history: time, and how often the game moved something
  mark,     \* history: some moment, with the moves done or on their way by then
  water,    \* WaterEscalator, what it asks for; history: how long he was seen wet
  strand    \* StrandedEscalator and JackHandoffGate; history: since he was last seen jacked

nudgeVars == <<man, seen, stuck, ask, nudges, mark>>
waterVars == <<water>>
strandVars == <<strand>>

\* Longer than any of them: it never happened, or its clock stands.
Ever == Wedged + Ladder + Cooldown + WaterTimeout + EscapeWindow + JackGrace + RetryGap + 2
Aged(n, top) == IF n = Ever \/ n > top THEN n ELSE n + 1

-----------------------------------------------------------------------------
(* The nudge.                                                              *)

NoLadder == [reversed |-> Ever, tried |-> Ever, nudged |-> 0]
NudgeInit ==
  /\ man = [rides |-> TRUE, task |-> "drive", still |-> 0, stands |-> 0]
  /\ seen = man /\ stuck = NoLadder
  /\ ask = [at |-> "none", late |-> 0]
  /\ nudges = [time |-> 0, done |-> 0] /\ mark = [time |-> 0, asked |-> 0]

\* check: a drive task runs and the car has not moved for the threshold.
SeenStuck == seen.rides /\ seen.task \in {"drive", "flee"} /\ seen.still > Wedged
ReverseDue == stuck.reversed > Ladder
NudgeDue == stuck.nudged < MaxNudges /\ stuck.tried >= Cooldown

\* Mutant: only a nudge that was granted would count.
AskedUnstamped == stuck

\* try_unstick: the attempt is stamped before the call.
Asked == [stuck EXCEPT !.tried = 0, !.nudged = @ + 1]

\* A tick of the harness: no longer stuck, the keys first, then the bridge.
StuckPoll ==
  /\ ask.at = "none"
  /\ \/ ~SeenStuck /\ stuck' = [stuck EXCEPT !.reversed = Ever, !.nudged = 0] /\ UNCHANGED ask
     \/ SeenStuck /\ ReverseDue /\ stuck' = [stuck EXCEPT !.reversed = 0] /\ UNCHANGED ask
     \/ SeenStuck /\ ~ReverseDue /\ NudgeDue /\ stuck' = Asked /\ ask' = [ask EXCEPT !.at = "sent"]
  /\ UNCHANGED <<man, seen, nudges, mark>>

\* UnstickBlockReason, on the last snapshot; on foot it has nothing to say.
Precheck == seen.rides => seen.task = "drive" /\ seen.still > Wedged

\* HandleUnstick: refused, or queued while the queue has room.
Routed ==
  /\ ask.at = "sent"
  /\ \/ Precheck /\ ask' = [ask EXCEPT !.at = "queued"]
     \/ ask' = [ask EXCEPT !.at = "none"]
  /\ UNCHANGED <<man, seen, stuck, nudges, mark>>

\* The request gives up ("stalled", or the client's own timeout); the command stays.
LeftBehind ==
  /\ ask.at = "queued" /\ ask' = [at |-> "none", late |-> ask.late + 1]
  /\ UNCHANGED <<man, seen, stuck, nudges, mark>>

\* ApplyUnstick on the game thread, by what the engine and the clocks of the last
\* build say: the car, or the man who got out of it.
Deserves == IF man.rides THEN man.task = "drive" /\ man.still > Wedged ELSE man.stands > Wedged

\* A pushed man has left his anchor; a pushed car need not have gained speed.
NudgeApplied ==
  /\ \/ ask.at = "queued" /\ ask' = [ask EXCEPT !.at = "none"]
     \/ ask.late > 0 /\ ask' = [ask EXCEPT !.late = @ - 1]
  /\ IF Deserves THEN /\ nudges' = [nudges EXCEPT !.done = @ + 1]
                      /\ man' \in {[man EXCEPT !.stands = 0], [man EXCEPT !.stands = 0, !.still = 0]}
     ELSE UNCHANGED <<nudges, man>>
  /\ UNCHANGED <<seen, stuck, mark>>

\* Snapshots are built from the clocks; he drives on, gets out, is given another task.
Built == seen' = man /\ UNCHANGED <<man, stuck, ask, nudges, mark>>
WorldMoves ==
  /\ \/ man' = [man EXCEPT !.still = 0, !.stands = 0]
     \/ man' = [man EXCEPT !.rides = ~@, !.still = 0]
     \/ \E task \in {"drive", "flee", "other"} : man' = [man EXCEPT !.task = task]
  /\ UNCHANGED <<seen, stuck, ask, nudges, mark>>
NudgeClock ==
  /\ nudges.time < MaxTime /\ nudges' = [nudges EXCEPT !.time = @ + 1]
  /\ man' = [man EXCEPT !.still = IF man.rides THEN Aged(@, Wedged) ELSE @, !.stands = Aged(@, Wedged)]
  /\ stuck' = [stuck EXCEPT !.reversed = Aged(@, Ladder), !.tried = Aged(@, Cooldown)]
  /\ UNCHANGED <<seen, ask, mark>>

\* A window of time is opened: what is on its way already may be done in it too.
Pending == (IF ask.at \in {"sent", "queued"} THEN 1 ELSE 0) + ask.late
WindowOpens ==
  /\ mark' = [time |-> nudges.time, asked |-> nudges.done + Pending]
  /\ UNCHANGED <<man, seen, stuck, ask, nudges>>

NudgeNext == \/ WindowOpens \/ StuckPoll \/ Routed \/ LeftBehind \/ NudgeApplied \/ Built \/ WorldMoves \/ NudgeClock

-----------------------------------------------------------------------------
(* The water.                                                              *)

Afloat == [since |-> Ever, left |-> Ever, walked |-> FALSE, wants |-> "none", wet |-> 0]
WaterInit == water = Afloat

\* Mutant: the clock of the last bout runs on while he is dry.
StillCounting == water.since

\* Dry: the clock of the bout stops.
DryClock == Ever

InTheWater ==
  IF water.since # Ever /\ water.since >= WaterTimeout
    THEN [water EXCEPT !.left = 0, !.walked = FALSE, !.wants = "exit"]
    ELSE [water EXCEPT !.since = IF @ = Ever THEN 0 ELSE @, !.wants = "none"]

\* Out of it: until the window closes, one walk to the last land he is known to
\* have stood on, if there is one.
OutOfTheWater(rides, land) ==
  LET dry == [water EXCEPT !.since = DryClock, !.wants = "none"] IN
  CASE water.left = Ever -> dry
    [] water.left # Ever /\ water.left > EscapeWindow -> [dry EXCEPT !.left = Ever]
    [] water.left <= EscapeWindow /\ (water.walked \/ rides) -> dry
    [] OTHER -> [dry EXCEPT !.walked = TRUE, !.wants = IF land THEN "walk" ELSE "none"]

\* check is asked at every poll, whoever has the wheel; only a car is ever wet.
WaterPoll ==
  \E wet, rides, land \in BOOLEAN :
    /\ wet => rides
    /\ LET w == IF wet THEN InTheWater ELSE OutOfTheWater(rides, land) IN
       water' = [w EXCEPT !.since = Aged(@, WaterTimeout), !.left = Aged(@, EscapeWindow),
                          !.wet = IF wet THEN Aged(@, WaterTimeout) ELSE 0]

WaterNext == WaterPoll \/ water' = Afloat

-----------------------------------------------------------------------------
(* The man without a car.                                                  *)

NoSearch == [attempts |-> 0, last |-> Ever]
Settled == [search |-> NoSearch, jacked |-> Ever, wants |-> FALSE, since |-> Ever, runs |-> FALSE]
StrandInit == strand = Settled

\* Mutant: the gate is fed by the polls that look at the search.
FedWhenFree(now, busy) == now /\ ~busy

\* _reflex feeds the gate before any rung is looked at.
Fed(now, busy) == now

\* JackHandoffGate.feed: stamped again at every poll that sees it.
JackedAt(fed) == IF fed THEN 0 ELSE strand.jacked
RecentlyJacked(fed) == JackedAt(fed) < JackGrace

\* StrandedEscalator.check.
SearchOver(rides) == rides \/ strand.runs
SearchDue == strand.search.attempts < 3 /\ strand.search.last >= RetryGap

\* _reflex: under threat or while he drives the search is not looked at; a way out, a
\* goal, a job, a call or a jacking stands it down; what is posted may run, be refused,
\* or fail before it is seen.
StrandPoll ==
  \E now, rides, busy, others, runs \in BOOLEAN :
    LET fed == Fed(now, busy)
        stands == others \/ RecentlyJacked(fed) \/ SearchOver(rides)
        goes == ~busy /\ ~stands /\ SearchDue
        s == IF busy THEN strand.search
             ELSE IF stands THEN NoSearch
             ELSE IF goes THEN [attempts |-> strand.search.attempts + 1, last |-> 0] ELSE strand.search IN
    strand' = [search |-> [s EXCEPT !.last = Aged(@, RetryGap)], jacked |-> Aged(JackedAt(fed), JackGrace),
               wants |-> goes, runs |-> runs, since |-> IF now THEN 0 ELSE Aged(strand.since, JackGrace)]

\* A new process of the game forgets.
StrandNext == StrandPoll \/ strand' = Settled

-----------------------------------------------------------------------------
\* What is done to get him out of trouble is done in measure, whatever resets the
\* timers on the way.  In any window of time cars and men are moved by hand once,
\* once more for each cooldown in it, and once for each command that was on its way
\* when it opened: a command whose request gave up may be applied together with the
\* next, but none is asked for sooner than a cooldown after the last, though tasks
\* change, requests are refused and episodes start again (StuckDetector,
\* BridgeRouter, WastedBridgeScript.ApplyUnstick).  He is told to leave a car only
\* after it was seen in the water for the whole timeout without a break
\* (WaterEscalator).  And nobody's car is looked for while the one he was pulled out
\* of may still be had, though the polls that saw it had other things to do
\* (JackHandoffGate).
EmergenciesAreMeasured ==
  /\ nudges.done <= mark.asked + 1 + (nudges.time - mark.time) \div Cooldown
  /\ water.wants = "exit" => water.wet > WaterTimeout
  /\ strand.wants => strand.since >= JackGrace
=============================================================================
