------------------------------ MODULE Escapes -------------------------------
(***************************************************************************)
(* The two ways out of a building of behavior/roam.py: InteriorEscape, a   *)
(* ladder of two walks run off player.interior, with the part of main.py   *)
(* that runs it (_run_interior_escape and the hook of a lost wheel), and   *)
(* HouseEscape, the six rungs of a bridge that does not send the field.    *)
(*                                                                         *)
(* A rung's 30 seconds and the gap between house rungs are choices: either *)
(* may be over at any poll.                                                *)
(***************************************************************************)
EXTENDS Naturals

CONSTANT Rooms,        \* interior ids
         MaxEscapeRungs

ASSUME EscapesAssumption == MaxEscapeRungs \in Nat

Nowhere == "none"

VARIABLES
  indoors,    \* InteriorEscape: room (interior_id), rung (step), posted, gaveUp,
              \* before (_prev_interior_id), exits (rooms with a learned exit)
  here,       \* the world: the room he is in, or Nowhere
  disturbed,  \* the last poll's rung was refused, lost or preempted
  house       \* HouseEscape: rung, suspected, gaveUp, walked

escapeVars == <<indoors, here, disturbed, house>>

NoEscape(e) == [e EXCEPT !.room = Nowhere, !.rung = 0, !.posted = FALSE, !.gaveUp = FALSE]
NoHouse == [rung |-> 0, suspected |-> FALSE, gaveUp |-> FALSE, walked |-> FALSE]

EscapeInit ==
  /\ indoors = [room |-> Nowhere, rung |-> 0, posted |-> FALSE, gaveUp |-> FALSE,
                before |-> Nowhere, exits |-> {}]
  /\ here = Nowhere /\ disturbed = FALSE /\ house = NoHouse

-----------------------------------------------------------------------------
(* InteriorEscape                                                          *)

\* observe, and main on the tick he is out of doors: the exit is learned, the
\* ladder forgotten.
Observed(e) ==
  LET n == [e EXCEPT !.before = here]
  IN IF e.before = Nowhere \/ here = e.before THEN n
     ELSE IF here # Nowhere THEN n
     ELSE NoEscape([n EXCEPT !.exits = @ \cup {e.before}])

\* check's first half: another room is a new ladder.
ForThisRoom(e) == IF e.room = here THEN e ELSE [NoEscape(e) EXCEPT !.room = here]

\* The rungs that have somewhere to walk to: where he came in, when the bridge
\* saw it near enough, and the learned exit.
Targets(e, cameIn) ==
  (IF cameIn THEN {1} ELSE {}) \cup (IF e.room \in e.exits THEN {2} ELSE {})

\* Mutant: a walk that ended is waited for like one that runs.
NextRungAfterTimeout(e, cameIn, over) ==
  IF e.posted THEN e
  ELSE LET left == {r \in Targets(e, cameIn) : r > e.rung}
       IN IF left = {} THEN [e EXCEPT !.rung = 2, !.gaveUp = TRUE]
          ELSE [e EXCEPT !.rung = CHOOSE r \in left : \A q \in left : r <= q]

\* check: wait for the rung that runs; then the next that has a target; or up.
NextRung(e, cameIn, over) ==
  IF e.posted /\ ~over THEN e
  ELSE LET left == {r \in Targets(e, cameIn) : r > e.rung}
           n == [e EXCEPT !.posted = FALSE]
       IN IF left = {} THEN [n EXCEPT !.rung = 2, !.gaveUp = TRUE]
          ELSE [n EXCEPT !.rung = CHOOSE r \in left : \A q \in left : r <= q]

\* retry_step
Retried(e) == [e EXCEPT !.rung = IF @ = 0 THEN 0 ELSE @ - 1, !.posted = FALSE]

\* A poll on which the ladder applies and the wheel is his: the rung is posted,
\* or the post is refused downstream and asked for again.
Climb(posts) ==
  /\ here # Nowhere /\ ~ForThisRoom(Observed(indoors)).gaveUp
  /\ \E cameIn, over \in BOOLEAN :
       LET e == ForThisRoom(Observed(indoors))
           n == NextRung(e, cameIn, over)
           walks == ~n.gaveUp /\ (~e.posted \/ over)
       IN /\ indoors' = IF ~walks THEN n
                        ELSE IF posts THEN [n EXCEPT !.posted = TRUE] ELSE Retried(n)
          /\ disturbed' = (walks /\ ~posts)
  /\ UNCHANGED <<here, house>>

\* A poll on which the wheel is refused: check has moved on all the same.
Outranked ==
  /\ here # Nowhere /\ ~ForThisRoom(Observed(indoors)).gaveUp
  /\ \E cameIn, over \in BOOLEAN :
       indoors' = NextRung(ForThisRoom(Observed(indoors)), cameIn, over)
  /\ disturbed' = TRUE /\ UNCHANGED <<here, house>>

\* _interior_preempted
Preempted ==
  /\ indoors.room # Nowhere /\ ~indoors.gaveUp
  /\ indoors' = Retried(indoors) /\ disturbed' = TRUE /\ UNCHANGED <<here, house>>

\* A poll on which it does not apply (a car, a mission, no control): the tick
\* does not ask it, and only what he left is seen.
LooksOnly ==
  /\ indoors' = Observed(indoors) /\ indoors' # indoors
  /\ UNCHANGED <<here, disturbed, house>>

\* He walks, is carried or wakes up in another room.
RungGoes ==
  /\ \E r \in Rooms \cup {Nowhere} : here' = r
  /\ disturbed' = TRUE /\ UNCHANGED <<indoors, house>>

-----------------------------------------------------------------------------
(* HouseEscape                                                             *)

\* In a car, dead or arrested, or moving again after a walk.
HouseOver ==
  /\ house # NoHouse /\ house' = NoHouse /\ UNCHANGED <<indoors, here, disturbed>>

\* A rung handed out: rungs 0, 2 and 5 on walk nowhere.
RungOf(h, walks) ==
  [h EXCEPT !.suspected = TRUE, !.rung = @ + 1, !.walked = @ \/ walks]

\* check: looks_indoors starts it, the gap spaces it, the sixth rung exhausts it.
HouseRung ==
  /\ ~house.gaveUp
  /\ IF house.rung >= MaxEscapeRungs THEN house' = [house EXCEPT !.gaveUp = TRUE]
     ELSE \E walks \in BOOLEAN :
            /\ walks => house.rung \notin {0, 2} /\ house.rung < 5
            /\ house' = RungOf(house, walks)
  /\ UNCHANGED <<indoors, here, disturbed>>

EscapeNext ==
  \/ \E posts \in BOOLEAN : Climb(posts)
  \/ Outranked \/ Preempted \/ LooksOnly \/ RungGoes \/ HouseOver \/ HouseRung

\* A poll that finds the rung's walk over, and one that finds the gap over.
WalkEnds == \E cameIn \in BOOLEAN :
  /\ here # Nowhere /\ ~ForThisRoom(Observed(indoors)).gaveUp
  /\ indoors' = LET n == NextRung(ForThisRoom(Observed(indoors)), cameIn, TRUE)
                IN IF n.gaveUp THEN n ELSE [n EXCEPT !.posted = TRUE]
  /\ disturbed' = FALSE /\ UNCHANGED <<here, house>>

EscapeFairness ==
  WF_escapeVars(WalkEnds) /\ WF_escapeVars(HouseRung /\ house.suspected)

EscapeSpec == EscapeInit /\ [][EscapeNext]_escapeVars /\ EscapeFairness

-----------------------------------------------------------------------------
\* The ladders let go.  In an interior: once nothing refuses, loses or preempts its
\* walks and he stays where he is, it gives up and hands the wheel back rather
\* than walk him into a wall for ever (InteriorEscape.check).  In a house: a suspicion ends, in movement or in giving up
\* (HouseEscape.check).
LaddersLetGo ==
  /\ <>[][~disturbed']_escapeVars => []<>(here = Nowhere \/ indoors.gaveUp)
  /\ house.suspected ~> (~house.suspected \/ house.gaveUp)
=============================================================================
