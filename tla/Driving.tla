------------------------------ MODULE Driving -------------------------------
(***************************************************************************)
(* behavior/vehicle.py, the two machines beside the movement wheel:        *)
(* VehicleController ("he is in a car and nothing happens", "we told the   *)
(* car to drive and it did not") and ControlRegained (the stopwatch that   *)
(* runs from the moment the game gives the controls back).                 *)
(*                                                                         *)
(* A clock is "off", "new" or "old"; ClockRuns ages it.  The gap between  *)
(* two rungs and the hold after a drive-away may be over at any poll.      *)
(***************************************************************************)
EXTENDS Naturals

\* What a poll may show: car (seated in one), other (another one than before),
\* speed ("still", "slow", "fast"), task ("idle", "drive", "entering", "busy"),
\* hold, mission, able (it could drive away).
CONSTANT Polls

ASSUME PollsAssumption ==
  \A p \in Polls : {p.car, p.other, p.hold, p.mission, p.able} \subseteq BOOLEAN

NoIntent == "none"
RecoveryLadder == <<"reverse_out", "swerve", "repost_drive", "exit_vehicle">>

VARIABLES
  car,       \* VehicleController
  intent,    \* what feed() returned on the last poll
  regained   \* ControlRegained: edge armed, answered, reported, age;
             \* owed: nothing has moved him, or been asked to, since the edge

drivingVars == <<car, intent, regained>>

OutOfCar ==
  [phase |-> "on_foot", seated |-> FALSE, moved |-> FALSE, window |-> "off",
   idle |-> "off", rung |-> 0, cooling |-> FALSE]

DrivingInit ==
  /\ car = OutOfCar /\ intent = NoIntent
  /\ regained = [edge |-> FALSE, answered |-> TRUE, reported |-> FALSE, age |-> "off",
                 owed |-> FALSE]

-----------------------------------------------------------------------------
(* VehicleController.feed                                                  *)

\* _track_vehicle: a different car, or none, is a clean machine.
Tracked(c, p) ==
  IF p.car = c.seated /\ ~p.other THEN [c EXCEPT !.moved = @ \/ (p.car /\ p.speed # "still")]
  ELSE [OutOfCar EXCEPT !.phase = c.phase, !.seated = p.car,
                        !.moved = p.car /\ p.speed # "still"]

\* _base_phase: a car that still rolls keeps the phase it had.
BasePhase(c, p) ==
  IF ~p.car THEN IF p.task = "entering" THEN "entering" ELSE "on_foot"
  ELSE IF p.speed = "fast" \/ (c.phase = "moving" /\ p.speed = "slow") THEN "moving"
  ELSE "seated"

\* The moving branch: the ladder stands down.
Rolling(c) ==
  [c EXCEPT !.phase = "moving", !.moved = TRUE, !.window = "off", !.idle = "off", !.rung = 0]

\* Mutant: the ladder stands down whenever no drive task runs.
WatchedAfresh(c, p) ==
  IF p.task = "drive" /\ ~c.moved
  THEN [c EXCEPT !.window = IF @ = "off" THEN "new" ELSE @]
  ELSE [c EXCEPT !.window = "off", !.rung = 0]

\* _seated_tick, the watchdog's window: only in a car that has never moved.
Watched(c, p) ==
  IF p.task = "drive" /\ ~c.moved
  THEN [c EXCEPT !.window = IF @ = "off" THEN "new" ELSE @]
  ELSE [c EXCEPT !.window = "off"]

\* The other clock: a run of doing nothing, held by nobody.
IdleClock(c, p) ==
  [c EXCEPT !.phase = "seated",
            !.idle = IF p.hold \/ p.task # "idle" THEN "off" ELSE IF @ = "off" THEN "new" ELSE @]

\* May a drive-away be posted?
DrivesAway(c, p) ==
  ~p.hold /\ p.task = "idle" /\ ~p.mission /\ p.able /\ c.idle = "old"

\* _recover: one rung; after the last, a rest.
Recover(c) ==
  IF c.rung = 4 THEN /\ car' = [c EXCEPT !.rung = 0, !.cooling = TRUE] /\ intent' = NoIntent
  ELSE /\ car' = [c EXCEPT !.rung = @ + 1,
                           !.phase = IF c.rung = 3 THEN "stuck" ELSE @]
       /\ intent' = RecoveryLadder[c.rung + 1]

\* feed, for a poll p; gap: the rung's gap, or the drive-away's hold, is over.
Feed(p, gap) ==
  LET c == Tracked(car, p)
      base == BasePhase(c, p)
      w == Watched(c, p)
      i == IdleClock(w, p)
      blocked == [w EXCEPT !.phase = "blocked"]
  IN /\ UNCHANGED regained
     /\ IF base \in {"on_foot", "entering"} THEN car' = [c EXCEPT !.phase = base] /\ intent' = NoIntent
        ELSE IF base = "moving" THEN car' = Rolling(c) /\ intent' = NoIntent
        ELSE IF w.window = "old"
          THEN IF p.hold \/ w.cooling \/ ~gap THEN car' = blocked /\ intent' = NoIntent
               ELSE Recover(blocked)
        ELSE car' = i /\ intent' = IF DrivesAway(i, p) /\ gap THEN "drive_away" ELSE NoIntent

ClockRuns ==
  \/ car.window = "new" /\ car' = [car EXCEPT !.window = "old"]
  \/ car.idle = "new" /\ car' = [car EXCEPT !.idle = "old"]
  \/ car.cooling /\ car' = [car EXCEPT !.cooling = FALSE]

-----------------------------------------------------------------------------
(* ControlRegained                                                         *)

\* feed, on an edge: the deadline runs from the latest.
Armed(r) ==
  [r EXCEPT !.edge = TRUE, !.answered = FALSE, !.reported = FALSE, !.age = "new",
            !.owed = TRUE]

ControlBack == regained' = Armed(regained) /\ UNCHANGED <<car, intent>>

\* moved: a movement task other than stop and set_waypoint reached the bridge.
MovementPosted ==
  /\ regained.edge /\ ~regained.answered
  /\ regained' = [regained EXCEPT !.answered = TRUE, !.owed = FALSE]
  /\ UNCHANGED <<car, intent>>

\* overdue: once for each arming; main then asks resume_action for a way to move.
Overdue ==
  /\ regained.edge /\ ~regained.answered /\ ~regained.reported /\ regained.age = "old"
  /\ regained' = [regained EXCEPT !.reported = TRUE, !.owed = FALSE]
  /\ UNCHANGED <<car, intent>>

DeadlinePasses ==
  regained.age = "new" /\ regained' = [regained EXCEPT !.age = "old"] /\ UNCHANGED <<car, intent>>

\* reset of both, on a new game process.
DrivingReset ==
  /\ car' = OutOfCar /\ intent' = NoIntent
  /\ regained' = [edge |-> FALSE, answered |-> TRUE, reported |-> FALSE, age |-> "off",
                  owed |-> FALSE]

DrivingNext ==
  \/ \E p \in Polls, gap \in BOOLEAN : Feed(p, gap)
  \/ ClockRuns /\ UNCHANGED <<intent, regained>>
  \/ ControlBack \/ MovementPosted \/ Overdue \/ DeadlinePasses \/ DrivingReset

\* A poll that finds the window over, nobody holding and the gap passed.
RungDue == \E p \in Polls :
  /\ car.window = "old" /\ p.car /\ ~p.other /\ p.speed = "still" /\ p.task = "drive" /\ ~p.hold
  /\ Feed(p, TRUE)

CoolingEnds == car.cooling /\ car' = [car EXCEPT !.cooling = FALSE] /\ UNCHANGED <<intent, regained>>

\* Time passes, every poll asks overdue, and while a car is blocked some poll
\* finds the next rung due.
DrivingFairness ==
  /\ WF_drivingVars(CoolingEnds) /\ WF_drivingVars(DeadlinePasses) /\ WF_drivingVars(Overdue)
  /\ SF_drivingVars(RungDue)

DrivingSpec == DrivingInit /\ [][DrivingNext]_drivingVars /\ DrivingFairness

-----------------------------------------------------------------------------
\* Driving answers for itself.  A car that never moves is left: when drive tasks keep running in it and the
\* window keeps running out, the ladder reaches exit_vehicle, though every rung
\* it posts replaces the drive task it is judging (VehicleController._recover).  And a deadline that has passed is answered, by a movement or by the fallback,
\* unless the controls change hands again first; an edge that was reported does
\* not silence the next one (ControlRegained.feed, moved, overdue).
DrivingAnswers ==
  /\ ([]<>(car.window = "old") /\ <>[](car.seated /\ ~car.moved)) => []<>(intent = "exit_vehicle")
  /\ (regained.owed /\ regained.age = "old") ~> (~regained.owed \/ regained.age = "new")
=============================================================================
