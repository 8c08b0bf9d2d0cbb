------------------------------- MODULE DayPlan ------------------------------
(***************************************************************************)
(* The jobs of the day: MissionTracker (behavior/missions.py) turning the  *)
(* game's flags into mission events, main._handle_mission_events reading   *)
(* the outcome off the screen and writing the missions row, and DayPlanner *)
(* (behavior/planner.py) alternating roam blocks with trips to a marker.   *)
(*                                                                         *)
(* The planner's clock is an age per deadline, which Later may advance.    *)
(***************************************************************************)
EXTENDS Naturals, FiniteSets

CONSTANTS
  MissionsEnabled,   \* Settings.missions_enabled
  Moments,           \* what a snapshot may show: well, fight, marker, close
  MaxJobs            \* bound: jobs the game begins

LOCAL None == "none"
MaxFails == 3        \* MAX_CONSECUTIVE_MISSION_FAILS
BackoffBlocks == 1   \* FAIL_BACKOFF_BLOCKS
BlocksAfterJob == 1  \* ROAM_BLOCKS_AFTER_A_MISSION

ASSUME DayAssumption == MissionsEnabled \in BOOLEAN /\ MaxJobs \in Nat

VARIABLES
  job,      \* the game: the flags now, those of the last poll, jobs so far
  stamp,    \* _mission_started_iso: the job whose start was seen, 0 for none
  day,      \* the planner
  rowed     \* the start the last missions row carries; whether one got two

dayVars == <<job, stamp, day, rowed>>

NewDay ==
  [phase |-> "roam", age |-> "new", owed |-> 0, fails |-> 0, hurt |-> FALSE,
   asked |-> FALSE, busy |-> FALSE, last |-> "never", late |-> FALSE,
   there |-> None, bound |-> FALSE]

DayInit ==
  /\ job = [active |-> FALSE, cut |-> FALSE, polled |-> FALSE, count |-> 0]
  /\ stamp = 0
  /\ day = NewDay
  /\ rowed = [last |-> 0, twice |-> FALSE]

-----------------------------------------------------------------------------
(* The tracker. *)

Started == job.active /\ ~job.polled
EndedNow == ~job.active /\ job.polled

\* feed on a start, and the stamp main keeps for the row.  The attempt number
\* and the deaths a row carries are not kept.
TrackStart == job.count

\* Mutant: the stamp outlives the row.
TrackEndStamped(start, o) == start

\* feed on an end with the player down, or resolve_outcome after the screen was
\* read; an unread screen reports nothing and leaves the start's stamp.
Outcomes(down) == IF down THEN {"failed"} ELSE {"failed", "passed", "unknown"}
TrackEnd(start, o) == IF o = "unknown" THEN start ELSE 0

\* _write_mission_row: only with a known outcome and an observed start.
RowsAfter(o) ==
  IF o = "unknown" \/ stamp = 0 THEN rowed
  ELSE [last |-> stamp, twice |-> rowed.twice \/ rowed.last = stamp]

\* observe_mission_event.
Owe(p, n) == [p EXCEPT !.owed = IF n > @ THEN n ELSE @]
SeeStart(p) == [p EXCEPT !.last = "recent", !.hurt = FALSE]
SeeFail(p) ==
  LET n == IF p.fails < MaxFails THEN p.fails + 1 ELSE p.fails
      q == [p EXCEPT !.hurt = TRUE, !.fails = n]
  IN IF n >= MaxFails THEN Owe(q, BackoffBlocks) ELSE q

-----------------------------------------------------------------------------
(* The planner.  w is what the snapshot shows of the moment: nothing that    *)
(* aborts a trip, a hostile close by, a marker he can use, himself in it.    *)

InJob == job.active \/ job.cut

\* _start_roam_block
RoamBlock(p) ==
  [p EXCEPT !.phase = "roam", !.asked = FALSE, !.age = "new", !.late = FALSE,
            !.there = None, !.bound = FALSE]

\* _roam_block_over
BlockOver(p, bored) ==
  \/ p.asked
  \/ p.age = "over"
  \/ p.age = "grown" /\ p.owed = 0 /\ ~p.busy
       /\ (bored \/ (MissionsEnabled /\ p.last # "recent"))

\* _serve_one_owed_block
Serve(p) ==
  IF p.owed = 0 THEN p
  ELSE [p EXCEPT !.owed = @ - 1,
                 !.fails = IF p.owed = 1 /\ @ >= MaxFails THEN 0 ELSE @]

\* _mission_block_allowed; well: not down, no stars, no cutscene, no switch, no
\* retry, and healthy.
Allowed(p, w) == w.well /\ ~w.fight /\ p.owed = 0 /\ w.marker

\* _begin_trip
Trip(p) ==
  [p EXCEPT !.phase = "trip", !.asked = FALSE, !.age = "new", !.late = FALSE,
            !.there = None, !.bound = FALSE]

\* _navigation: nothing while a task runs, ours or not.  slot: last_task as the
\* snapshot has it; ours only when an id is bound.
Slots(p) == {"free", "other"} \cup (IF p.bound THEN {"ours", "done"} ELSE {})
Navigates(slot) == slot \in {"free", "done"}

\* _drive_day_plan and bind_task: the post may be held, refused or lost.
Navigated(p, slot) ==
  LET q == IF slot = "done" THEN [p EXCEPT !.bound = FALSE] ELSE p
  IN IF Navigates(slot)
     THEN {q, [q EXCEPT !.bound = TRUE], [q EXCEPT !.bound = FALSE]} ELSE {q}

\* _advance_trip: abort; pause for a fight; out of time, no marker left, or
\* stood in it for too long; otherwise go on.
Advance(p, w, slot) ==
  IF w.well /\ w.fight THEN {[p EXCEPT !.there = None]}
  ELSE IF ~w.well \/ p.late \/ ~w.marker \/ p.there = "long"
  THEN {RoamBlock(p)}
  ELSE Navigated([p EXCEPT !.there = IF ~w.close THEN None
                                     ELSE IF @ = None THEN "new" ELSE @], slot)

\* update()
Updated(p, w, slot, bored) ==
  IF InJob
  THEN {IF p.phase = "job" THEN p
        ELSE [p EXCEPT !.phase = "job", !.hurt = FALSE, !.there = None, !.bound = FALSE,
                       !.last = IF @ = "never" THEN "recent" ELSE @]}
  ELSE IF p.phase = "job"
  THEN {RoamBlock(Owe([p EXCEPT !.fails = IF p.hurt THEN @ ELSE 0, !.hurt = FALSE],
                      BlocksAfterJob))}
  ELSE IF p.phase = "trip" THEN Advance(p, w, slot)
  ELSE IF ~BlockOver(p, bored) THEN {p}
  ELSE LET q == Serve(p)
       IN IF Allowed(q, w) THEN Navigated(Trip(q), slot) ELSE {RoamBlock(q)}

-----------------------------------------------------------------------------
\* A tick: the events of the tracker first, then, unless he is asleep at L3,
\* the planner.
Tick(awake) ==
  \E w \in Moments, down, bored \in BOOLEAN, o \in {"failed", "passed", "unknown"} :
    /\ down => ~w.well
    /\ o \in Outcomes(down) /\ (~EndedNow => o = "unknown")
    /\ stamp' = IF Started THEN TrackStart
                ELSE IF EndedNow THEN TrackEnd(stamp, o) ELSE stamp
    /\ LET p == IF Started THEN SeeStart(day)
                ELSE IF EndedNow /\ o = "failed" THEN SeeFail(day) ELSE day
       IN /\ rowed' = IF EndedNow THEN RowsAfter(o) ELSE rowed
          /\ IF awake THEN \E slot \in Slots(p) : day' \in Updated(p, w, slot, bored)
                      ELSE day' = p
    /\ job' = [job EXCEPT !.polled = job.active]

TickAwake == Tick(TRUE)
TickAsleep == Tick(FALSE)

\* A break's poll: the perceptor compares, nobody listens.
TickOnBreak ==
  /\ job.polled # job.active
  /\ job' = [job EXCEPT !.polled = job.active]
  /\ UNCHANGED <<stamp, day, rowed>>

\* The game begins and ends jobs and cutscenes.
GameMoves ==
  /\ \/ ~job.active /\ job.count < MaxJobs
        /\ job' = [job EXCEPT !.active = TRUE, !.count = @ + 1]
     \/ job.active /\ job' = [job EXCEPT !.active = FALSE]
     \/ job' = [job EXCEPT !.cut = ~@]
  /\ UNCHANGED <<stamp, day, rowed>>

\* _on_game_restart: tracker and planner anew, and the row's stamp dropped.
DayRestarts ==
  /\ job' = [job EXCEPT !.active = FALSE, !.cut = FALSE, !.polled = FALSE]
  /\ stamp' = 0 /\ day' = NewDay
  /\ UNCHANGED rowed

\* request_mission_block, and the runner telling of its activities.
RoamTells ==
  /\ day.phase = "roam"
  /\ \/ MissionsEnabled /\ ~day.asked /\ day' = [day EXCEPT !.asked = TRUE]
     \/ day' = [day EXCEPT !.busy = ~@]
  /\ UNCHANGED <<job, stamp, rowed>>

\* The windows pass: the block's floor and length, the trip's deadline, the
\* wait in the corona, the time since the last job.
Later ==
  /\ \/ day.age = "new" /\ day' = [day EXCEPT !.age = "grown"]
     \/ day.age = "grown" /\ day' = [day EXCEPT !.age = "over"]
     \/ day.phase = "trip" /\ ~day.late /\ day' = [day EXCEPT !.late = TRUE]
     \/ day.there = "new" /\ day' = [day EXCEPT !.there = "long"]
     \/ day.last = "recent" /\ day' = [day EXCEPT !.last = "old"]
  /\ UNCHANGED <<job, stamp, rowed>>

DayNext == TickAwake \/ TickAsleep \/ TickOnBreak \/ GameMoves \/ DayRestarts \/ RoamTells \/ Later

DaySpec == DayInit /\ [][DayNext]_dayVars

-----------------------------------------------------------------------------
\* At most one missions row carries a start that was observed, though a start
\* may be missed in a break and an unread ending leaves its stamp behind.
OneRowPerStart == ~rowed.twice
=============================================================================
