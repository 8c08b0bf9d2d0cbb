------------------------------ MODULE FreeRoam ------------------------------
(***************************************************************************)
(* The free-roam slot: RoamEngine of behavior/roam.py (the menu, the lock  *)
(* and its grading), ActivityRunner of behavior/activities.py (one plan    *)
(* step per completed bridge task) and the part of main.py that keeps the  *)
(* two together (_drive_activities and what it calls).                     *)
(*                                                                         *)
(* One poll is one action: the goal is graded first, then the gates, then  *)
(* a step or a pick.  What the rest of the harness may do to the goal in   *)
(* between is Cut.  The goal's own clock is a flag; what the other clocks  *)
(* say (a cooldown, the step's timeout, his stillness, the pause between   *)
(* goals) may be anything at a poll, and so may the draw off the menu.     *)
(***************************************************************************)
EXTENDS Naturals, Sequences

\* Goals: records with the fields of Goal that the slot reads: cat, level, cost,
\* calm, heat (wants_heat), cheat, handoff, fallback, cops (override_only) and
\* plan, the kinds ("task" or "prim") of its steps.  Scenes: what a poll shows:
\* wanted, down, mission, block, held, call, hurt, forced (no job for long), still,
\* late (the step's timeout), needs (goals whose needs() hold) and cooled (goals
\* whose cooldown is over).
CONSTANTS Goals, Scenes,
          Level,           \* the chaos tier
          Budget,          \* its chaos budget of an hour, in the unit of the costs
          OfferAfter       \* completed goals before the job is offered

ASSUME RoamAssumption ==
  /\ Level \in Nat /\ Budget \in Nat /\ OfferAfter \in Nat
  /\ \A g \in Goals : g.cost \in Nat

Nothing == <<>>           \* no lock, no step machine, no goal yet
Attempts == 2              \* MAX_GOAL_ATTEMPTS
Strikes == 2               \* GOAL_STUCK_STRIKES

VARIABLE
  roam    \* lock:    RoamEngine.current, or Nothing
          \* runner:  ActivityRunner.current, or Nothing
          \* lease:   _roam_token, the goal's open lease on the wheel
          \* busy:    the planner's "a roam activity is running"
          \* arsenal: the bridge's cheat layer is on; stray: a switch was lost
          \* last, ran, spent, done: what the menu remembers

roamVars == <<roam>>

RoamInit ==
  roam = [lock |-> Nothing, runner |-> Nothing, lease |-> FALSE, busy |-> FALSE,
          arsenal |-> FALSE, stray |-> FALSE,
          last |-> Nothing, ran |-> {}, spent |-> 0, done |-> 0]

-----------------------------------------------------------------------------
(* The menu.                                                               *)

\* _filtered.  A goal that ran may still be cooling down.
Filtered(m, s, heatOnly) ==
  {g \in Goals :
     /\ ~g.cops /\ ~g.fallback
     /\ heatOnly => g.heat
     /\ g.level <= Level
     /\ g.cheat /\ m.last # Nothing => ~m.last.cheat
     /\ g \in m.ran => g \in s.cooled
     /\ g.cost + m.spent <= Budget
     /\ s.hurt => g.calm
     /\ m.last # Nothing => g # m.last /\ g.cat # m.last.cat
     /\ g \in s.needs}

Job == {g \in Goals : g.handoff}
Fallback == {g \in Goals : g.fallback}

\* available
Offered(m, s) ==
  IF s.wanted THEN {g \in Goals : g.cops} \cup Filtered(m, s, TRUE)
  ELSE IF s.forced /\ Job \cap s.needs # {} THEN Job \cup Fallback
  ELSE Filtered(m, s, FALSE) \cup Fallback
       \cup (IF m.done >= OfferAfter THEN Job \cap s.needs ELSE {})

-----------------------------------------------------------------------------
(* The end of a goal: Ended and Issued give the states the call may leave. *)

\* RoamEngine.close
Closed(m, outcome) ==
  LET n == [m EXCEPT !.lock = Nothing]
  IN IF outcome # "completed" THEN n
     ELSE IF m.lock.goal.handoff THEN [n EXCEPT !.done = 0]
     ELSE [n EXCEPT !.done = IF @ < OfferAfter THEN @ + 1 ELSE @]

\* _switch_arsenal(False): best effort, the request or its answer may be lost.
SwitchedOff(m) == {[m EXCEPT !.arsenal = FALSE], [m EXCEPT !.stray = @ \/ m.arsenal]}

\* Mutant: the goal is closed, and the step machine is left to its owner.
EndedAlone(m, outcome) ==
  LET n == [Closed(m, outcome) EXCEPT !.lease = FALSE, !.busy = FALSE]
  IN IF m.lock.goal.cheat THEN SwitchedOff(n) ELSE {n}

\* _end_activity_if_running: one slot, one owner.
Ended(m, outcome) ==
  LET n == [Closed(m, outcome) EXCEPT !.runner = Nothing, !.lease = FALSE, !.busy = FALSE]
  IN IF m.lock.goal.cheat THEN SwitchedOff(n) ELSE {n}

-----------------------------------------------------------------------------
(* The step machine.                                                       *)

Fresh == [step |-> 1, ours |-> FALSE]
Finished(m, r) == r.step > Len(m.lock.goal.plan)

\* _issue_activity_step and bind_step_task: a primitive posts no task; the wheel
\* may refuse, and nothing is bound; a post that is lost ends the goal.
Issued(m, r) ==
  {[m EXCEPT !.runner = r]} \cup
  IF m.lock.goal.plan[r.step] # "task" THEN {}
  ELSE {[m EXCEPT !.runner = [r EXCEPT !.ours = TRUE], !.lease = TRUE]}
       \cup Ended(m, "bridge_task_lost")

\* replan, and the plan posted from its first step; or the goal ends.
Replanned(m, s, otherwise) ==
  IF m.lock.attempts < Attempts /\ m.lock.goal \in s.needs /\ ~m.lock.goal.handoff
  THEN Issued([m EXCEPT !.lock.attempts = @ + 1], Fresh)
  ELSE Ended(m, otherwise)

\* next_step, of the task the snapshot shows: "ours" is the bound id, "phone" an
\* answer_call or a reject_call, "other" anything else.
Taken(r, s, task) == ~s.late /\ r.ours /\ task.whose # "ours" /\ task.running
Waits(r, s, task) == ~s.late /\ (task.running \/ (r.ours /\ task.whose # "ours"))

-----------------------------------------------------------------------------
(* One poll of _drive_activities.                                          *)

Tasks == [whose : {"ours", "phone", "other"}, running : BOOLEAN]

\* The task last_task may name: the bound one only while one is bound.
Shown(task) == task.whose = "ours" => roam.runner # Nothing /\ roam.runner.ours

\* Mutant: the goal's own clock is not asked.
VerdictUntimed(m, s, done, task) ==
  IF done THEN "completed"
  ELSE IF s.down THEN "player_down"
  ELSE IF ~m.lock.goal.cops /\ ~m.lock.goal.heat /\ s.wanted THEN "wanted_override"
  ELSE IF ~s.still \/ task.running THEN "runs"
  ELSE IF m.lock.strikes + 1 >= Strikes THEN "stuck" ELSE "escalate"

\* judge.  A running task is one that moves him, unless the phone's.
Verdict(m, s, done, task) ==
  IF done THEN "completed"
  ELSE IF s.down THEN "player_down"
  ELSE IF ~m.lock.goal.cops /\ ~m.lock.goal.heat /\ s.wanted THEN "wanted_override"
  ELSE IF m.lock.old THEN "timeout"
  ELSE IF ~s.still \/ (task.running /\ task.whose # "phone") THEN "runs"
  ELSE IF m.lock.strikes + 1 >= Strikes THEN "stuck" ELSE "escalate"

\* A verdict that ends the goal.
GoalEnds(s, done, task) ==
  /\ roam.lock # Nothing /\ Shown(task)
  /\ Verdict(roam, s, done, task) \notin {"runs", "escalate"}
  /\ roam' \in Ended(roam, Verdict(roam, s, done, task))

\* The first strike: rebuild the plan from where he is.
GoalEscalates(s, task) ==
  /\ roam.lock # Nothing /\ Shown(task)
  /\ Verdict(roam, s, FALSE, task) = "escalate"
  /\ roam' \in Replanned([roam EXCEPT !.lock.strikes = @ + 1], s, "stuck")

\* The gates: level 3, a break, a firefight, a wait or his death end nothing.
Open(s) == ~s.held /\ ~s.down
Barred(s) == s.mission \/ s.block \/ (s.wanted /\ ~(roam.lock # Nothing /\ roam.lock.goal.heat))

\* Graded and still running, with the gates open.
Goes(s, task) ==
  /\ roam.lock # Nothing /\ Shown(task) /\ Open(s)
  /\ Verdict(roam, s, FALSE, task) = "runs"

\* A mission, a trip to one, or stars: only a running step machine is ended.
Evicted(s, task) ==
  /\ Goes(s, task) /\ Barred(s) /\ roam.runner # Nothing
  /\ roam' \in Ended(roam, "mission")

\* _advance_roam_goal: the next step, or a fresh plan when they ran out; a
\* phone task that replaced the step's and is over has the plan re-issued.
GoalAdvances(s, task) ==
  /\ Goes(s, task) /\ ~Barred(s) /\ ~s.call
  /\ roam.runner # Nothing /\ ~Taken(roam.runner, s, task)
  /\ LET r == [Fresh EXCEPT !.step = roam.runner.step + 1]
     IN IF Waits(roam.runner, s, task)
        THEN /\ task.whose = "phone" /\ ~task.running
             /\ roam' \in Issued(roam, Fresh)
        ELSE IF Finished(roam, r) THEN roam' \in Replanned(roam, s, "actions_done_goal_unmet")
        ELSE roam' \in Issued(roam, r)

\* A foreign task has taken the step's place, or had before: the step machine is
\* abandoned under the goal.  A phone task is left to press its key.
GoalAbandoned(s, task) ==
  /\ Goes(s, task) /\ ~Barred(s) /\ ~s.call
  /\ roam.runner # Nothing => Taken(roam.runner, s, task)
  /\ LET m == [roam EXCEPT !.runner = Nothing]
     IN roam' \in IF task.whose = "phone" /\ task.running THEN {m}
                  ELSE Replanned(m, s, "preempted")

\* _commit
Committed(m, g) ==
  [m EXCEPT !.lock = [goal |-> g, attempts |-> 1, strikes |-> 0, old |-> FALSE],
            !.last = g, !.ran = @ \cup {g}, !.spent = @ + g.cost]

\* _switch_arsenal(True) refused or lost: the goal is closed at once.  When only
\* the answer was lost the layer is on.
Refused(m) ==
  LET n == [Closed(m, "cheat_refused") EXCEPT !.lease = FALSE]
  IN {n, [n EXCEPT !.arsenal = TRUE, !.stray = TRUE]}

\* _begin_roam_goal, with the wheel: a handoff asks the planner and gives the
\* wheel back; a cheat is switched on first.
GoalBegins(s) ==
  /\ roam.lock = Nothing /\ Open(s) /\ ~Barred(s) /\ ~s.call
  /\ \E g \in Offered(roam, s) :
       LET m == Committed(roam, g)
           n == [m EXCEPT !.lease = TRUE, !.busy = TRUE]
       IN roam' \in IF g.handoff THEN {[m EXCEPT !.busy = TRUE]}
                    ELSE IF ~g.cheat THEN Issued(n, Fresh)
                    ELSE Issued([n EXCEPT !.arsenal = TRUE], Fresh) \cup Refused(m)

-----------------------------------------------------------------------------
(* The rest of the harness, the bridge and the clocks.                     *)

\* _end_activity_if_running called by a reflex, a preempted wheel, a death, a
\* restart of the game or a phone task that was abandoned.
Cut(outcome) == roam.lock # Nothing /\ roam' \in Ended(roam, outcome)

\* The bridge's own restore: its TTL, or a death, arrest, cutscene or mission.
BridgeRestores == roam.arsenal /\ roam' = [roam EXCEPT !.arsenal = FALSE, !.stray = FALSE]

GoalAges == roam.lock # Nothing /\ ~roam.lock.old /\ roam' = [roam EXCEPT !.lock.old = TRUE]

\* An hour passes without a goal that costs chaos.
HourPasses == roam.spent > 0 /\ roam' = [roam EXCEPT !.spent = 0]

RoamNext ==
  \/ \E s \in Scenes, task \in Tasks, done \in BOOLEAN : GoalEnds(s, done, task)
  \/ \E s \in Scenes, task \in Tasks : GoalEscalates(s, task)
  \/ \E s \in Scenes, task \in Tasks : Evicted(s, task)
  \/ \E s \in Scenes, task \in Tasks : GoalAdvances(s, task)
  \/ \E s \in Scenes, task \in Tasks : GoalAbandoned(s, task)
  \/ \E s \in Scenes : GoalBegins(s)
  \/ Cut("preempted")
  \/ BridgeRestores
  \/ GoalAges
  \/ HourPasses

\* A poll that shows nothing but the time: the polls go on whatever they show,
\* so fairness is asked of this one alone.
DullPoll ==
  \E s \in Scenes, task \in Tasks :
    ~s.down /\ ~s.wanted /\ ~s.still /\ GoalEnds(s, FALSE, task)

\* The goal's clock runs, and the polls go on.
RoamFairness == WF_roamVars(GoalAges) /\ WF_roamVars(DullPoll)

RoamSpec == RoamInit /\ [][RoamNext]_roamVars /\ RoamFairness

-----------------------------------------------------------------------------
\* The step machine, the goal's open lease on the wheel and the planner's flag
\* never outlive the goal: whatever ended it (main._end_activity_if_running and
\* the early closes of _begin_roam_goal), nothing is left that waits for it.  The
\* cheat layer goes with it too, unless a switch or its answer was lost on the way
\* (main._switch_arsenal: then the bridge's TTL is what ends it).
NothingOutlivesTheGoal ==
  /\ roam.lock = Nothing => roam.runner = Nothing /\ ~roam.lease /\ ~roam.busy
  /\ roam.arsenal /\ ~roam.stray => roam.lock # Nothing /\ roam.lock.goal.cheat

\* A goal is only ever followed by the slot being free, never replaced under its
\* step machine; and neither a fresh plan nor an escalation sets its clock, its
\* attempts or its strikes back (replan keeps the lock that _commit made).
GoalKeepsItsClock ==
  roam.lock # Nothing /\ roam'.lock # Nothing =>
    /\ roam'.lock.goal = roam.lock.goal
    /\ roam.lock.old => roam'.lock.old
    /\ roam'.lock.attempts >= roam.lock.attempts /\ roam'.lock.strikes >= roam.lock.strikes

\* Every goal ends: no sequence of escalations, fresh plans, phone calls and
\* abandoned step machines keeps one locked (the timeout is graded before the
\* gates, and a re-plan does not restart it).
EveryGoalEnds == roam.lock # Nothing ~> roam.lock = Nothing
=============================================================================
