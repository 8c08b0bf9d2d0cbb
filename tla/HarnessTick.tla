---------------------------- MODULE HarnessTick ----------------------------
(***************************************************************************)
(* One iteration of main.py's loop: poll, breaks, the operator's           *)
(* directives, the reflex ladder, the phone, the budget park, the brain,   *)
(* the day plan, the free-roam slot and the mission follower, in that      *)
(* order, all on the loop thread.  What each layer sees in the snapshot is *)
(* a choice; what it may then do with the wheel is the code's.             *)
(*                                                                         *)
(* h is what the layers share: the wheel, free roam's goal and its step    *)
(* machine, the tokens of the layers that hold an open lease, and which    *)
(* owners have posted a movement task since the poll.                      *)
(***************************************************************************)
EXTENDS MovementWheel, FiniteSets

CONSTANTS
  Scenes,        \* the snapshots the bridge may answer with
  Survival,      \* the survival rungs that may fire: flip, water, ...
  PhoneEnabled, MissionsEnabled   \* Settings

None == "none"

\* What the game owns the controls for; "control" is control_enabled false.
Held == {"cutscene", "down", "switch", "retry", "control"}

ASSUME TickAssumption ==
  /\ Survival \subseteq {"flip", "water", "road_dodge", "threat"}
  /\ PhoneEnabled \in BOOLEAN /\ MissionsEnabled \in BOOLEAN
  /\ Scenes \subseteq [job : BOOLEAN, owns : Held \cup {None},
                       indoors : BOOLEAN, call : {None, "ringing", "connected"}]

VARIABLES
  pc,        \* the layer whose turn it is
  h,         \* the wheel and everything that hangs on it
  scene,     \* the snapshot of the last tick that was not a break
  blocked,   \* _screen_blocked
  level,     \* governor.level
  pending,   \* _pending_park
  block,     \* the planner's phase: "roam", "trip" or "job"
  onBreak,   \* breaks.on_break
  latch,     \* the phone latches: "armed", "answered" or "hung"
  calm,      \* neither a threat nor a vehicle intent this tick
  acted      \* _threat_has_the_wheel

tickVars == <<pc, h, scene, blocked, level, pending, block, onBreak, latch, calm,
          acted>>

Go(l) == pc' = l

-----------------------------------------------------------------------------
(* What happens to h. *)

\* _end_activity_if_running: the roam claim goes first, then goal and steps.
Ended(g) ==
  [g EXCEPT !.wheel = ReleaseOwner(@, "roam"), !.goal = None, !.runner = None]

\* Mutant: the roam hook is not registered.
LostQuietly(g, o) ==
  CASE o = "exit_interior" -> [g EXCEPT !.exiting = FALSE]
    [] o = "governor" -> [g EXCEPT !.park = FALSE]
    [] OTHER -> g

\* The preempt hooks, called with the new holder installed.
Lost(g, o) ==
  CASE o = "roam" -> Ended(g)
    [] o = "exit_interior" -> [g EXCEPT !.exiting = FALSE]
    [] o = "governor" -> [g EXCEPT !.park = FALSE]
    [] OTHER -> g

Takes(g, o, lease) ==
  Lost([g EXCEPT !.wheel = Grant(@, o, lease)], Preempted(g.wheel, o))

\* _game_owns_controls, and the narrower set _execute_action refuses a task in.
GameOwns(s) == s.owns \in Held
Unreachable(s) == s.owns \in Held \ {"control"}

\* A post may be refused by a ban, a back-off or the stalled-type latch
\* ("lost"), answer with the id of a running task of the same restart-hostile
\* type ("adopted"), reach the bridge ("sent"), or be attempted and fail
\* ("dropped").
Results == {"lost", "adopted", "sent", "dropped"}
HasId(r) == r \in {"adopted", "sent"}

\* _execute_action for a movement task under o's live token.
Executed(g, o, r) ==
  IF r \in {"sent", "dropped"}
  THEN [g EXCEPT !.wheel = MarkPosted(@, o), !.sent = @ \cup {o}, !.quiet = FALSE]
  ELSE g

\* The results this tick's flags allow.
Possible == IF Unreachable(scene) \/ blocked THEN {"lost", "adopted"} ELSE Results

\* _reflex_act: a one-tick lease, and nothing at all when it is refused.
Reflex(g, o, r) ==
  IF MayAcquire(g.wheel, o) THEN Executed(Takes(g, o, "tick"), o, r) ELSE g

InMission == scene.job \/ scene.owns = "cutscene"

TickInit ==
  /\ pc = "poll"
  /\ h = [wheel |-> FreeWheel, goal |-> None, runner |-> None, exiting |-> FALSE,
          park |-> FALSE, quiet |-> FALSE, sent |-> {}]
  /\ scene \in {s \in Scenes : s.owns = None /\ ~s.job}
  /\ level = 0 /\ block = "roam" /\ latch = "armed"
  /\ blocked = FALSE /\ pending = FALSE /\ onBreak = FALSE
  /\ calm = TRUE /\ acted = FALSE

-----------------------------------------------------------------------------
(* run(): the poll and what runs before the tick. *)

\* A quiet period runs out, and the spending window slides.
TimePasses(g) == {[g EXCEPT !.sent = {}, !.quiet = q] : q \in {FALSE, g.quiet}}

\* A good poll on which nobody is on a break: the tick begins.  The
\* blocking-screen watchdog may block or clear the screen.
Poll ==
  /\ pc = "poll"
  /\ Go("operator")
  /\ scene' \in Scenes
  /\ h' \in TimePasses(h)
  /\ blocked' \in BOOLEAN
  /\ level' \in 0 .. level
  /\ onBreak' = FALSE                \* finish_if_over, when he was on one
  /\ UNCHANGED <<pending, block, latch, calm, acted>>

\* breaks.due: the wheel is forced to idle and a stop is posted.  The flags
\* _execute_action reads are still those of the tick before.
StartBreak ==
  /\ pc = "poll" /\ ~onBreak
  /\ ~InMission
  /\ onBreak' = TRUE
  /\ blocked' \in BOOLEAN
  /\ \E t \in TimePasses(h), r \in Results \ {"adopted"} :
       /\ r \in {"sent", "dropped"} => ~Unreachable(scene) /\ ~blocked'
       /\ LET g == [t EXCEPT !.wheel = ForceIdle(BeginTick(@))]
              lost == BeginTick(t.wheel).owner
          IN h' = Executed(IF lost \in {Nobody, "idle"} THEN g ELSE Lost(g, lost),
                           "idle", r)
  /\ UNCHANGED <<pc, scene, level, pending, block, latch, calm, acted>>

\* A poll during a break: the perceptor has compared the snapshot with the
\* one before, and the loop goes round without looking at what it found.
OnBreak ==
  /\ pc = "poll" /\ onBreak
  /\ blocked' \in BOOLEAN
  /\ h' \in TimePasses(h)
  /\ UNCHANGED <<pc, scene, level, pending, block, onBreak, latch, calm, acted>>

\* _on_game_restart: every observer of the dead world is rebuilt.  The park's
\* task id and deadline are not among them.
GameRestarts ==
  /\ pc = "poll"
  /\ h' = [Ended(h) EXCEPT !.wheel = FreeWheel, !.exiting = FALSE, !.sent = {}]
  /\ block' = "roam" /\ latch' = "armed" /\ blocked' = FALSE
  /\ UNCHANGED <<pc, scene, level, pending, onBreak, calm, acted>>

-----------------------------------------------------------------------------
(* The operator's directives, applied before the movement tick opens. *)

\* blocking_reason, the part that is about the snapshot.
OperatorBlocked(goalCmd) == GameOwns(scene) \/ (goalCmd /\ scene.job)

\* One drained directive: stop, nudge or goal, task; or drive's second half, which is
\* not asked whether anything blocks it.
Directive ==
  /\ pc = "operator"
  /\ \/ /\ ~OperatorBlocked(FALSE)
        /\ \E r \in Possible \ {"adopted"} : h' = Reflex(Ended(h), "operator", r)
     \/ ~OperatorBlocked(TRUE) /\ h' = Ended(h)
     \/ \E r \in Possible : h' = Reflex(h, "operator", r)
  /\ UNCHANGED <<pc, scene, blocked, level, pending, block, onBreak, latch, calm,
                 acted>>

Drained ==
  /\ pc = "operator" /\ Go("begin")
  /\ UNCHANGED <<h, scene, blocked, level, pending, block, onBreak, latch, calm,
                 acted>>

-----------------------------------------------------------------------------
(* _reflex. *)

\* mission_active: a job that starts takes the wheel whoever holds it, and one
\* that ends gives back what it holds.
MissionActive(g) ==
  IF scene.job
  THEN LET m == [g EXCEPT !.wheel.mission = TRUE]
       IN IF ~g.wheel.mission \/ MayAcquire(g.wheel, "mission")
          THEN Takes(m, "mission", "open") ELSE m
  ELSE IF g.wheel.mission
  THEN [g EXCEPT !.wheel = [ReleaseOwner(@, "mission") EXCEPT !.mission = FALSE]]
  ELSE g

\* force_idle while the game owns the controls, mission_active otherwise.
Overridden(g) ==
  IF ~GameOwns(scene) THEN MissionActive(g)
  ELSE LET to == [g EXCEPT !.wheel = ForceIdle(@)]
       IN IF g.wheel.owner \in {Nobody, "idle"} THEN to ELSE Lost(to, g.wheel.owner)

\* _release_interior_wheel: by token, so only while it is still the holder.
InteriorReleased(g) ==
  IF g.exiting
  THEN [g EXCEPT !.wheel = ReleaseOwner(@, "exit_interior"), !.exiting = FALSE]
  ELSE g

\* interior -> null is seen every tick, whatever else is going on.
LeftInterior(g) == IF scene.indoors THEN g ELSE InteriorReleased(g)

\* begin_tick; a death or an arrest ends the goal; the overrides; coming out
\* of a building.  The screen is read by a paid call when a job starts and ends.
BeginReflex ==
  /\ pc = "begin"
  /\ LET b == [h EXCEPT !.wheel = BeginTick(@)]
         e == IF scene.owns = "down" THEN {b, Ended(b)} ELSE {b}
     IN \E g \in e :
          h' = LeftInterior(Overridden(g))
  /\ level' \in {level} \cup (IF scene.job \/ h.wheel.mission THEN level .. 3 ELSE {})
  /\ pending' = (pending \/ (level' # level /\ level' = 3))
  /\ Go(IF scene.owns = "down" THEN "phone" ELSE "survival")
  /\ calm' = TRUE /\ acted' = FALSE
  /\ UNCHANGED <<scene, blocked, block, onBreak, latch>>

\* The ladder's elif chain: one rung at most asks for the wheel.  The latch on
\* a threat may hold the post back and keep the wheel.
SurvivalRung ==
  /\ pc = "survival" /\ Go("vehicle")
  /\ \/ h' = h /\ calm' = TRUE
     \/ \E o \in Survival, r \in Possible : h' = Reflex(h, o, r) /\ calm' \in BOOLEAN
  /\ UNCHANGED <<scene, blocked, level, pending, block, onBreak, latch, acted>>

\* _vehicle_hold: sitting still is right, and why.
VehicleHold ==
  \/ GameOwns(scene) \/ blocked \/ h.quiet \/ scene.call = "connected"
  \/ level >= 3 \/ onBreak \/ h.runner = "running"

\* The vehicle reflex: keypresses are noted, tasks go through the wheel.
VehicleRung ==
  /\ pc = "vehicle" /\ Go("stuck")
  /\ \/ h' = h /\ calm' = calm
     \/ /\ calm' = FALSE
        /\ \/ h' = [h EXCEPT !.wheel = Note(@, "vehicle"), !.quiet = FALSE]
           \/ \E r \in Possible : h' = Reflex(h, "vehicle", r)
  /\ UNCHANGED <<scene, blocked, level, pending, block, onBreak, latch, acted>>

\* The stuck ladder's keypress and nudge take nothing and refuse nobody.
StuckRung ==
  /\ pc = "stuck" /\ Go(IF calm THEN "free" ELSE "resume")
  /\ h' \in {h} \cup {[h EXCEPT !.wheel = Note(@, "physical"), !.quiet = q] :
                        q \in {h.quiet, FALSE}}
  /\ UNCHANGED <<scene, blocked, level, pending, block, onBreak, latch, calm,
                 acted>>

\* _run_interior_escape: an open lease while the ladder of rungs is walked;
\* given back when the ladder gives up, dropped when the wheel refuses.
EscapeInterior ==
  /\ pc = "free" /\ Go("wander")
  /\ scene.indoors /\ ~GameOwns(scene) /\ ~scene.job
  /\ \/ h' = InteriorReleased(h)
     \/ /\ ~MayAcquire(h.wheel, "exit_interior")
        /\ h' = [h EXCEPT !.exiting = FALSE]
     \/ /\ MayAcquire(h.wheel, "exit_interior")
        /\ LET g == [Takes(h, "exit_interior", "open") EXCEPT !.exiting = TRUE]
           IN h' \in {g} \cup {Executed(g, "exit_interior", r) : r \in Possible}
  /\ UNCHANGED <<scene, blocked, level, pending, block, onBreak, latch, calm,
                 acted>>

\* The rungs below it.  A job, the day plan's trip or a call silence them; a
\* locked goal leaves the idle breaker, and that only when nothing holds him.
FreeRungs ==
  IF InMission \/ block # "roam" THEN {}
  ELSE (IF h.goal = None /\ scene.call # "connected" THEN {"house_escape", "stranded"} ELSE {})
       \cup (IF VehicleHold \/ (h.goal = None /\ scene.call = "connected") THEN {}
             ELSE {"idle_breaker"})

FreeRoamRung ==
  /\ pc = "free" /\ Go("wander")
  /\ \/ h' = h
     \/ \E o \in FreeRungs, r \in Possible : h' = Reflex(h, o, r)
  /\ UNCHANGED <<scene, blocked, level, pending, block, onBreak, latch, calm,
                 acted>>

\* Governor L2, and only L2: keep a wander alive when nothing else runs.
Wander ==
  /\ pc = "wander" /\ Go("resume")
  /\ \/ h' = h
     \/ /\ level = 2 /\ h.runner = None /\ ~InMission /\ block = "roam"
        /\ \E r \in Possible : h' = Reflex(h, "governor", r)
  /\ UNCHANGED <<scene, blocked, level, pending, block, onBreak, latch, calm,
                 acted>>

\* F6: control came back and nobody moved him.
Resume ==
  /\ pc = "resume" /\ Go("phone")
  /\ \/ h' = h
     \/ \E r \in Possible : h' = Reflex(h, "resume", r)
  /\ UNCHANGED <<scene, blocked, level, pending, block, onBreak, latch, calm,
                 acted>>

\* _phone_reflex: a ring is answered (or rejected, with jobs off), a call hung
\* up with jobs off; one attempt each that reached the game, and none on a
\* tick that has already posted.  The verb takes no wheel.
PhoneVerb ==
  \/ /\ scene.call = "ringing" /\ latch # "answered" /\ latch' = "answered"
  \/ /\ scene.call = "connected" /\ ~MissionsEnabled /\ latch # "hung"
     /\ latch' = "hung"

\* The latches re-arm when the ring, or the call, is over.
PhoneRearmed ==
  CASE scene.call = "connected" -> IF latch = "hung" /\ ~MissionsEnabled THEN latch ELSE "armed"
    [] scene.call = "ringing" -> IF latch = "hung" THEN "armed" ELSE latch
    [] OTHER -> "armed"

Phone ==
  /\ pc = "phone" /\ Go("park")
  /\ \/ /\ PhoneEnabled /\ h.wheel.posted = Nobody
        /\ ~Unreachable(scene) /\ ~blocked
        /\ PhoneVerb
        /\ acted' = TRUE /\ h' = [h EXCEPT !.quiet = FALSE]
     \/ /\ latch' = IF PhoneEnabled THEN PhoneRearmed ELSE latch
        /\ acted' = TakenByReflex(h.wheel) /\ h' = h
  /\ UNCHANGED <<scene, blocked, level, pending, block, onBreak, calm>>

-----------------------------------------------------------------------------
(* The budget stop. *)

\* _begin_scenic_park: the goal ends, then the governor asks for the wheel and
\* waits for the next tick when it is refused.  The level is not read again.
BeginPark ==
  /\ pc = "park" /\ pending /\ Go("brain")
  /\ LET e == [Ended(h) EXCEPT !.park = FALSE]
         t == Takes(e, "governor", "open")
         rel(g) == [g EXCEPT !.wheel = ReleaseOwner(@, "governor")]
     IN IF ~MayAcquire(e.wheel, "governor")
        THEN h' = e /\ pending' = TRUE
        ELSE /\ pending' = FALSE
             /\ \/ \E r \in Possible \ {"adopted"} : h' = rel(Executed(t, "governor", r))
                \/ /\ scene.owns # "down"
                   /\ \E r, s \in Possible :
                        LET d == Executed(t, "governor", r)
                        IN h' = IF HasId(r) THEN [d EXCEPT !.park = TRUE]
                                ELSE rel(Executed(d, "governor", s))
  /\ UNCHANGED <<scene, blocked, level, block, onBreak, latch, calm, acted>>

\* _finish_scenic_park_if_arrived: awake again, or somebody else drives: the
\* claim is dropped; arrived or out of time: one stop, and the wheel is free.
FinishPark ==
  /\ pc = "park" /\ ~pending /\ Go("brain")
  /\ LET off == [h EXCEPT !.wheel = ReleaseOwner(@, "governor"), !.park = FALSE]
         p == [h EXCEPT !.park = FALSE]
     IN \/ h' = h /\ (h.park => level >= 3)
        \/ h.park /\ h' = off
        \/ /\ h.park /\ level >= 3
           /\ IF MayAcquire(p.wheel, "governor")
              THEN \E r \in Possible \ {"adopted"} :
                     LET g == Executed(Takes(p, "governor", "open"), "governor", r)
                     IN h' = [g EXCEPT !.wheel = ReleaseOwner(@, "governor")]
              ELSE h' = p
  /\ UNCHANGED <<scene, blocked, level, pending, block, onBreak, latch, calm, acted>>

-----------------------------------------------------------------------------
(* The brain. *)

\* The spend of a call may raise the level, and L3 asks for the park.
Billed ==
  /\ level' \in level .. 3
  /\ pending' = (pending \/ (level' # level /\ level' = 3))

\* _free_roam_owns_movement and blocks_foreign_action, for a locked goal.
RoamAllows == h.goal # None => scene.job

\* _wait_has_a_reason: the game's moment, a job, or stars.
WaitHasAReason(stars) ==
  InMission \/ scene.owns \in Held \ {"control"} \/ stars

\* _apply_decision with a movement task: dropped in free roam while a goal is
\* locked or a menu is on offer; then the wheel; then the goal is ended.  In a
\* job only a decision that names the locked goal survives it.
Decide ==
  /\ pc = "brain" /\ Go("plan")
  /\ scene.owns \notin {"down", "retry"} /\ level < 3
  /\ Billed
  /\ RoamAllows
  /\ IF MayAcquire(h.wheel, "brain")
     THEN \E r \in Possible : h' = Executed(Ended(Takes(h, "brain", "tick")), "brain", r)
     ELSE h' = h
  /\ UNCHANGED <<scene, blocked, block, onBreak, latch, calm, acted>>

\* A primitive, a decision that is dropped, a call that failed: no movement.
\* A wait starts a quiet period when there is something to wait for.
DecideNothing ==
  /\ pc = "brain" /\ Go("plan")
  /\ scene.owns \notin {"down", "retry"} /\ level < 3
  /\ Billed
  /\ h' \in {h, [h EXCEPT !.quiet = FALSE]}
       \cup {[h EXCEPT !.quiet = TRUE] : stars \in {b \in BOOLEAN : WaitHasAReason(b)}}
  /\ UNCHANGED <<scene, blocked, block, onBreak, latch, calm, acted>>

\* No layer of the brain fires; IdlePicker's keypress takes no wheel.
NoBrain ==
  /\ pc = "brain" /\ Go("plan")
  /\ h' \in {h, [h EXCEPT !.quiet = FALSE]}
  /\ UNCHANGED <<scene, blocked, level, pending, block, onBreak, latch, calm,
                 acted>>

-----------------------------------------------------------------------------
(* The planners. *)

\* _drive_day_plan: asleep at L3; update() always runs, its task is posted
\* when survival and a wait allow.  DayPlan.tla has the planner.
DayPlanStep ==
  /\ pc = "plan" /\ Go("activities")
  /\ IF level >= 3 THEN block' = block /\ h' = h
     ELSE /\ block' \in {"roam", "trip", "job"}
          /\ (block' = "job") <=> InMission
          /\ block' = "trip" => block # "job" /\ scene.owns \notin {"down", "switch", "retry"}
          /\ \/ h' = h
             \/ /\ block' = "trip" /\ ~acted /\ ~h.quiet
                /\ IF MayAcquire(h.wheel, "day_plan")
                   THEN \E r \in Possible :
                          h' = Executed(Takes(h, "day_plan", "open"), "day_plan", r)
                   ELSE h' = h
  /\ UNCHANGED <<scene, blocked, level, pending, onBreak, latch, calm, acted>>

\* _issue_activity_step: a primitive posts nothing; a task renews roam's lease,
\* and one that gets no id ends the goal.
Issued(g) ==
  LET s == [g EXCEPT !.runner = "running"]
  IN {s} \cup
     (IF MayAcquire(s.wheel, "roam")
      THEN {LET e == Executed(Takes(s, "roam", "open"), "roam", r)
            IN IF HasId(r) THEN e ELSE Ended(e) : r \in Possible}
      ELSE {s})

\* _judge_roam_goal when there is a verdict: an ending, or a fresh plan.
Judged(g) == {Ended(g)} \cup (IF g.goal = "plain" THEN Issued(g) ELSE {})

\* _advance_roam_goal: wait, step, run out and re-plan, or lose the step
\* machine to a phone task.  A goal handed to the planner has no plan.
Advanced(g) ==
  IF scene.call = "connected" THEN {g}
  ELSE IF g.goal = "handoff" THEN {g, Ended(g)}
  ELSE {g, Ended(g), [g EXCEPT !.runner = None]} \cup Issued(g)

\* _begin_roam_goal: the wheel first; then a pick, which may find nothing, or
\* be a goal handed to the planner, which gives the wheel straight back.
Begun(g) ==
  IF ~MayAcquire(g.wheel, "roam") THEN {g}
  ELSE LET t == Takes(g, "roam", "open")
       IN {Ended(t), [Ended(t) EXCEPT !.goal = "handoff"]}
          \cup Issued([t EXCEPT !.goal = "plain"])

\* Mutant: the level is not among the gates.
StandsDownAwake == onBreak \/ acted \/ scene.owns = "down"

\* The gates between the verdict and the step, in the code's order.
StandsDown == level >= 3 \/ onBreak \/ acted \/ scene.owns = "down"

Activities ==
  /\ pc = "activities" /\ Go("objective")
  /\ \/ h.goal # None /\ h' \in Judged(h)
     \/ StandsDown /\ h' = h
     \/ /\ ~StandsDown
        /\ \/ h' = IF h.runner # None THEN Ended(h) ELSE h   \* a job, stars, the trip
           \/ /\ ~InMission /\ block = "roam"
              /\ \/ h.quiet /\ h' = h
                 \/ ~h.quiet /\ h.goal # None /\ h' \in Advanced(h)
                 \/ ~h.quiet /\ h.goal = None /\ scene.call # "connected" /\ h' \in Begun(h)
  /\ UNCHANGED <<scene, blocked, level, pending, block, onBreak, latch, calm,
                 acted>>

\* _drive_mission_objective: renews the mission's hold and posts.
Objective ==
  /\ pc = "objective" /\ Go("end")
  /\ \/ h' = h
     \/ /\ scene.job /\ scene.owns \notin {"down", "cutscene"} /\ ~acted /\ ~h.quiet
        /\ MayAcquire(h.wheel, "mission")
        /\ \E r \in Possible : h' = Executed(Takes(h, "mission", "open"), "mission", r)
  /\ UNCHANGED <<scene, blocked, level, pending, block, onBreak, latch, calm,
                 acted>>

EndTick ==
  /\ pc = "end" /\ Go("poll")
  /\ UNCHANGED <<h, scene, blocked, level, pending, block, onBreak, latch, calm,
                 acted>>

TickNext ==
  \/ Poll \/ StartBreak \/ OnBreak \/ GameRestarts
  \/ Directive \/ Drained \/ BeginReflex
  \/ SurvivalRung \/ VehicleRung \/ StuckRung
  \/ EscapeInterior \/ FreeRoamRung \/ Wander \/ Resume \/ Phone
  \/ BeginPark \/ FinishPark \/ Decide \/ DecideNothing \/ NoBrain
  \/ DayPlanStep \/ Activities \/ Objective \/ EndTick

TickSpec == TickInit /\ [][TickNext]_tickVars

-----------------------------------------------------------------------------
(* What the arbiter is for. *)

\* At most one owner puts a movement task on the wire in a tick: whoever is
\* granted the wheel after a post would preempt a task the bridge has only
\* just started.  The operator's directives are applied before begin_tick, so
\* theirs may be followed by one of the tick's own.
OneMover == Cardinality(h.sent \ {"operator"}) <= 1

\* Whoever keeps an open lease holds the wheel.  A free-roam goal with a plan:
\* every way of losing the wheel (a hook, the end of a job, forced idle, the park,
\* a restart) ends the goal, so no goal is judged or stepped from under another
\* layer.  And the way out of a building while its token is kept, so that coming
\* out into the open gives back nobody else's claim.
ClaimsAreHeld ==
  /\ h.goal = "plain" => h.wheel.owner = "roam"
  /\ h.exiting => h.wheel.owner = "exit_interior"

\* The layers stand aside.  During a job no free-roam layer moves the player:
\* neither the day plan's trip, nor a goal that was running when the job began,
\* nor the ladder's free-roam rungs.  And once the budget stop has been obeyed
\* nothing that is paid for moves him: the brain, the day plan and free roam
\* sleep until the window has slid.
StandAside ==
  /\ scene.job /\ pc \notin {"poll", "operator"} =>
       h.sent \cap {"roam", "day_plan", "exit_interior", "house_escape", "stranded"} = {}
  /\ level = 3 /\ ~pending => h.sent \cap {"brain", "day_plan", "roam"} = {}
=============================================================================
