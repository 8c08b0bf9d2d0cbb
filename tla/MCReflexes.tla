---------------------------- MODULE MCReflexes ----------------------------
(***************************************************************************)
(* The machines the loop consults about his body, each by itself: the one  *)
(* in `part` runs, the others stay as they began.  Fairness is each module's *)
(* own.                                                                    *)
(***************************************************************************)
EXTENDS Follower, Escapes, Driving, Threat, Refusals, Screen

VARIABLE part

allVars == <<part, followerVars, escapeVars, drivingVars, threatVars, refusalsVars,
             frozenVars, focusVars, grabVars>>

Alone(p) ==
  /\ part = p /\ UNCHANGED part
  /\ IF p = "follower" THEN TRUE ELSE UNCHANGED followerVars
  /\ IF p = "escapes" THEN TRUE ELSE UNCHANGED escapeVars
  /\ IF p = "driving" THEN TRUE ELSE UNCHANGED drivingVars
  /\ IF p = "threat" THEN TRUE ELSE UNCHANGED threatVars
  /\ IF p = "refusals" THEN TRUE ELSE UNCHANGED refusalsVars
  /\ IF p = "frozen" THEN TRUE ELSE UNCHANGED frozenVars
  /\ IF p = "focus" THEN TRUE ELSE UNCHANGED focusVars
  /\ IF p = "grab" THEN TRUE ELSE UNCHANGED grabVars

Calm == [car |-> FALSE, works |-> FALSE, still |-> TRUE, mission |-> FALSE, out |-> FALSE,
         hurt |-> FALSE, named |-> "none", near |-> "none", beaten |-> FALSE, drop |-> FALSE,
         close |-> FALSE, gun |-> FALSE, wanted |-> FALSE, heat |-> FALSE]

ReflexesInit ==
  /\ part \in {"follower", "escapes", "driving", "threat", "refusals",
              "frozen", "focus", "grab"}
  /\ FollowerInit /\ EscapeInit /\ DrivingInit /\ ThreatInit /\ RefusalsInit
  /\ FrozenInit /\ FocusInit /\ GrabInit
  /\ part # "threat" => scene = Calm

ReflexesNext ==
  \/ part = "follower" /\ FollowerNext /\ Alone("follower")
  \/ part = "escapes" /\ EscapeNext /\ Alone("escapes")
  \/ part = "driving" /\ DrivingNext /\ Alone("driving")
  \/ part = "threat" /\ ThreatNext /\ Alone("threat")
  \/ part = "refusals" /\ RefusalsNext /\ Alone("refusals")
  \/ part = "frozen" /\ FrozenNext /\ Alone("frozen")
  \/ part = "focus" /\ FocusNext /\ Alone("focus")
  \/ part = "grab" /\ GrabNext /\ Alone("grab")

ReflexesFairness ==
  /\ WF_followerVars(part = "follower" /\ Elapse)
  /\ WF_followerVars(part = "follower" /\ foll.lost # "none" /\ FriendlyMissing)
  /\ WF_escapeVars(part = "escapes" /\ WalkEnds)
  /\ WF_escapeVars(part = "escapes" /\ HouseRung /\ house.suspected)
  /\ WF_drivingVars(part = "driving" /\ CoolingEnds)
  /\ WF_drivingVars(part = "driving" /\ DeadlinePasses)
  /\ WF_drivingVars(part = "driving" /\ Overdue)
  /\ SF_drivingVars(part = "driving" /\ RungDue)
  /\ WF_threatVars(part = "threat" /\ ThreatNext)
  /\ SF_threatVars(part = "threat" /\ Decide(TRUE))
  /\ WF_refusalsVars(part = "refusals" /\ RefusalsNext)
  /\ WF_grabVars(part = "grab" /\ PollTakes) /\ WF_grabVars(part = "grab" /\ WorkerSays)
  /\ WF_grabVars(part = "grab" /\ PollStarts) /\ WF_grabVars(part = "grab" /\ WorkerBegins)

ReflexesSpec == ReflexesInit /\ [][ReflexesNext]_allVars /\ ReflexesFairness

-----------------------------------------------------------------------------
(* The values.                                                             *)

Near == [handle |-> "lamar", ped |-> TRUE, riding |-> FALSE, far |-> FALSE, car |-> FALSE, still |-> FALSE]
MCDots == {Near, [Near EXCEPT !.still = TRUE], [Near EXCEPT !.far = TRUE, !.riding = TRUE],
           [Near EXCEPT !.handle = "truck", !.ped = FALSE]}

Parked == [car |-> TRUE, other |-> FALSE, speed |-> "still", task |-> "drive", hold |-> FALSE,
           mission |-> FALSE, able |-> TRUE]
MCPolls ==
  {Parked, [Parked EXCEPT !.task = "busy"], [Parked EXCEPT !.task = "idle"], [Parked EXCEPT !.hold = TRUE],
   [Parked EXCEPT !.speed = "slow"], [Parked EXCEPT !.speed = "fast"], [Parked EXCEPT !.other = TRUE, !.speed = "slow"],
   [Parked EXCEPT !.task = "idle", !.mission = TRUE], [Parked EXCEPT !.car = FALSE, !.task = "entering"],
   [Parked EXCEPT !.car = FALSE, !.task = "idle"]}

Punched == [Calm EXCEPT !.named = "fists", !.beaten = TRUE]
Shot == [Calm EXCEPT !.named = "gun", !.beaten = TRUE, !.wanted = TRUE]
MCSituations ==
  {Calm, Punched, Shot, [Punched EXCEPT !.hurt = TRUE], [Calm EXCEPT !.near = "fists"],
   [Shot EXCEPT !.mission = TRUE], [Shot EXCEPT !.gun = TRUE],
   [Punched EXCEPT !.car = TRUE, !.works = TRUE], [Calm EXCEPT !.out = TRUE],
   [Punched EXCEPT !.car = TRUE, !.works = TRUE, !.still = FALSE],
   [Calm EXCEPT !.close = TRUE, !.beaten = TRUE], [Calm EXCEPT !.drop = TRUE]}

Standing0 == [moved |-> FALSE, calm |-> TRUE, foot |-> TRUE, near |-> TRUE]
MCGlances == {Standing0, [Standing0 EXCEPT !.moved = TRUE], [Standing0 EXCEPT !.near = FALSE],
              [Standing0 EXCEPT !.calm = FALSE], [Standing0 EXCEPT !.foot = FALSE]}
=============================================================================
