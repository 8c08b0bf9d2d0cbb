------------------------------ MODULE Follower ------------------------------
(***************************************************************************)
(* MissionFollower of behavior/missions.py: structural pursuit of the      *)
(* mission's objective, the marker when the game shows one and the blue    *)
(* dot when it does not.  One action per branch of plan(), each with the   *)
(* post main._drive_mission_objective makes of what it returns.            *)
(*                                                                         *)
(* Clocks are ages: "new" until the code's window has passed, which Elapse *)
(* may declare at any time.  last_task is a choice: ours only when an id   *)
(* is bound, and possibly the one of the tick before.                      *)
(***************************************************************************)
EXTENDS Naturals

\* What the snapshots may show of the blue dot: the handle, whether it is a
\* ped with a position, whether it sits in a car, whether the gap has widened,
\* whether the player is in a car, whether both stand still.
CONSTANT Dots

ASSUME DotsAssumption ==
  \A o \in Dots : {o.ped, o.riding, o.far, o.car, o.still} \subseteq BOOLEAN

Nobody == "none"

VARIABLES
  foll,         \* the follower
  out,          \* what plan() returned on its last call
  ownRunning    \* that call's snapshot showed the bound task running

followerVars == <<foll, out, ownRunning>>

Rungs == <<"vehicle_handoff", "nearest_vehicle", "reacquire", "exhausted">>

FreshLadder(f) == [f EXCEPT !.tried = {}, !.paced = TRUE, !.held = Nobody]

\* _end_follow
EndFollow(f) ==
  FreshLadder([f EXCEPT !.handle = Nobody, !.lost = Nobody, !.gap = Nobody, !.sig = <<>>,
                        !.stall = Nobody, !.place = FALSE, !.ride = FALSE])

ForgetBlip(f) == [f EXCEPT !.chasing = FALSE, !.age = "new"]

SetMode(f, m) == [f EXCEPT !.changed = @ \/ f.mode # m, !.mode = m]

Reset(f) ==
  [ForgetBlip(EndFollow(f)) EXCEPT !.mode = "idle", !.changed = FALSE, !.bound = FALSE]

FollowerInit ==
  /\ foll = [mode |-> "idle", changed |-> FALSE, bound |-> FALSE, chasing |-> FALSE,
             age |-> "new", handle |-> Nobody, lost |-> Nobody, held |-> Nobody,
             tried |-> {}, paced |-> TRUE, gap |-> Nobody, stall |-> Nobody,
             rested |-> TRUE, sig |-> <<>>, place |-> FALSE, ride |-> FALSE]
  /\ out = Nobody /\ ownRunning = FALSE

-----------------------------------------------------------------------------
\* _someone_else_has_the_wheel: the bound task and any other running task are
\* left alone, save our own on the tick the mode changes.  mine: last_task is
\* the bound one.
Busy(f, mine, running) == running /\ ~(f.changed /\ mine)
Looked(f, mine, running) ==
  [f EXCEPT !.changed = FALSE, !.bound = @ /\ ~(mine /\ (f.changed \/ ~running))]

\* _drive_mission_objective: the wheel may refuse, the post may be lost.
Posted(f, p) == [f EXCEPT !.bound = IF p = "refused" THEN @ ELSE p = "sent"]
Posts == {"refused", "lost", "sent"}

Give(f, what) == \E p \in Posts : foll' = Posted(f, p) /\ out' = what
Hold(f) == foll' = f /\ out' = Nobody

GiveUnlessBusy(f, mine, running, what) ==
  IF Busy(f, mine, running) THEN Hold(Looked(f, mine, running))
                            ELSE Give(Looked(f, mine, running), what)

Sees(mine, running) == (mine => foll.bound) /\ ownRunning' = (mine /\ running)

\* No job, or its cutscene.
StandBack == Hold(Reset(foll)) /\ ownRunning' = FALSE

\* _chase_blip: back off once the distance has not improved for the window,
\* until the marker moves or it does.
ChaseBlip ==
  \E mine, running, better \in BOOLEAN :
    LET f == SetMode(EndFollow(foll), "blip")
        g == [f EXCEPT !.chasing = TRUE,
                       !.age = IF better \/ ~f.chasing THEN "new" ELSE @]
    IN /\ Sees(mine, running)
       /\ IF g.age = "old" THEN Hold(g) ELSE GiveUnlessBusy(g, mine, running, "drive")

-----------------------------------------------------------------------------
(* The blue dot.                                                           *)

\* The bookkeeping at the head of _follow_friendly: a new companion is a new
\* tail; the same one regained keeps the ladder until he has been held.
Regained(f, o) ==
  IF o.handle # f.handle THEN [EndFollow(f) EXCEPT !.handle = o.handle]
  ELSE LET g == [f EXCEPT !.lost = Nobody,
                          !.held = IF f.lost # Nobody /\ @ = Nobody THEN "new" ELSE @]
       IN IF g.held = "old" THEN FreshLadder(g) ELSE g

\* Last-seen truth, and the widening gap.
Noted(f, o) ==
  [f EXCEPT !.place = @ \/ o.ped,
            !.ride = IF o.ped THEN o.riding ELSE @,
            !.gap = IF ~o.far THEN Nobody ELSE IF @ = Nobody THEN "new" ELSE @]

\* _mutual_stall, asked only when the last break is long enough ago.  Without
\* a position the clock is cleared and starts again with the next movement.
Stalled(f, o) ==
  IF ~f.rested THEN f
  ELSE [f EXCEPT !.stall =
          IF ~o.ped THEN (IF @ = Nobody THEN Nobody ELSE "off")
          ELSE IF @ = Nobody \/ ~o.still THEN "new" ELSE @]

Want(f, o) == IF f.gap # "old" THEN "tail" ELSE IF o.car THEN "chase" ELSE "car"

Signature(f, o) ==
  IF Want(f, o) = "car" THEN <<"car">> ELSE <<Want(f, o), o.handle, o.car>>

\* The latch: post on a change of signature, over whatever runs; otherwise
\* only into a free slot.
TailHim(f, o, mine, running) ==
  IF Signature(f, o) # f.sig
  THEN Give([f EXCEPT !.sig = Signature(f, o), !.changed = FALSE, !.bound = FALSE],
            Want(f, o))
  ELSE GiveUnlessBusy(f, mine, running, Want(f, o))

\* _break_deadlock always has something: a car, closing in, a look around; the
\* latch is cleared with it.
Break(f) ==
  Give([f EXCEPT !.stall = "new", !.rested = FALSE, !.sig = <<>>, !.bound = FALSE], "break")

FollowFriendly ==
  \E o \in {b \in Dots : b.far => b.handle = foll.handle}, mine, running \in BOOLEAN :
    LET f == Noted(Regained(SetMode(ForgetBlip(foll), "follow"), o), o)
        g == Stalled(f, o)
    IN /\ Sees(mine, running)
       /\ IF f.rested /\ o.ped /\ o.still /\ g.stall = "old"
          THEN Break(g) ELSE TailHim(g, o, mine, running)

\* Mutant: giving up does not wait for its own clock but for a ped's return.
AppliesNever(f, rung, nearCar) ==
  CASE rung = "vehicle_handoff" -> f.ride
    [] rung = "nearest_vehicle" -> f.place /\ nearCar
    [] rung = "reacquire" -> f.place
    [] rung = "exhausted" -> FALSE

\* _recovery_rung_action: a rung without its data does not apply.
Applies(f, rung, nearCar) ==
  CASE rung = "vehicle_handoff" -> f.ride
    [] rung = "nearest_vehicle" -> f.place /\ nearCar
    [] rung = "reacquire" -> f.place
    [] rung = "exhausted" -> f.lost = "old"

\* _friendly_missing and _try_recovery_rungs: the first rung not yet tried
\* that applies, a gap apart; the last one ends the tail.  A map dot would
\* have been taken for the companion before this is reached.
FriendlyMissing ==
  \E nearCar \in BOOLEAN :
    LET s == SetMode(ForgetBlip(foll), "follow")
        f == IF s.lost = Nobody THEN [s EXCEPT !.lost = "new", !.held = Nobody] ELSE s
        open == {i \in DOMAIN Rungs : Rungs[i] \notin f.tried /\ Applies(f, Rungs[i], nearCar)}
    IN /\ ownRunning' = FALSE
       /\ IF s.handle = Nobody THEN Hold(s)
          ELSE IF ~f.paced \/ open = {} THEN Hold(f)
          ELSE LET r == Rungs[CHOOSE i \in open : \A j \in open : i <= j]
                   g == [f EXCEPT !.tried = @ \cup {r}, !.paced = FALSE]
               IN Give(IF r = "exhausted" THEN [EndFollow(g) EXCEPT !.bound = FALSE] ELSE g, r)

\* Time: each window may have passed.
Ages == {"age", "lost", "held", "gap", "stall"}

Elapse ==
  /\ \/ \E k \in Ages : foll[k] = "new" /\ (k = "age" => foll.chasing)
                       /\ foll' = [foll EXCEPT ![k] = "old"]
     \/ \E k \in {"paced", "rested"} : ~foll[k] /\ foll' = [foll EXCEPT ![k] = TRUE]
  /\ ownRunning' = FALSE /\ UNCHANGED out

Plan == StandBack \/ ChaseBlip \/ FollowFriendly \/ FriendlyMissing

FollowerNext == Plan \/ Elapse

\* The clocks run, and while the companion is missing plan() is called.
FollowerFairness ==
  WF_followerVars(Elapse) /\ WF_followerVars(foll.lost # "none" /\ FriendlyMissing)

FollowerSpec == FollowerInit /\ [][FollowerNext]_followerVars /\ FollowerFairness

-----------------------------------------------------------------------------
\* A companion who is gone for good is given up: the ladder of rungs is
\* bounded and ends in a stop, whatever data it has and however the tail got
\* there; only his return or the end of the job comes before that.
LostIsGivenUp == foll.lost # Nobody ~> foll.lost = Nobody
=============================================================================
