------------------------------- MODULE Threat -------------------------------
(***************************************************************************)
(* The survival rung: threat_action, ThreatLatch and DamageTracker of      *)
(* behavior/recovery.py as _reflex of main.py uses them.  A tick reads a   *)
(* scene, decides one order without a model call, and posts it unless the  *)
(* latch says the game is at it already.                                   *)
(*                                                                         *)
(* The harness reads the task slot off a snapshot; Lag says for how many   *)
(* ticks a post may still be missing from it.                              *)
(***************************************************************************)
EXTENDS Naturals

\* Scenes: what a tick sees.  still: the car stands; works: it can drive away;
\* named: the attacker's weapon class; near: the nearest hostile's; beaten: the
\* damage tracker's verdict; drop: a big fall in health; close: somebody within
\* arm's reach; gun: a loaded gun for that distance.
CONSTANTS Situations, LatchHold, Lag
ASSUME HoldOutlastsLag == LatchHold \in Nat /\ Lag \in Nat /\ Lag < LatchHold

VARIABLES
  scene,   \* this tick's scene
  slot,    \* the bridge's task: its order and whether it runs
  late,    \* ticks until the snapshot shows the slot as it is
  glimpsed,   \* the order the snapshot says is running, or no order
  latch,   \* ThreatLatch: the last order posted and the ticks since
  turn     \* whose turn it is: the harness decides, or the game goes on

threatVars == <<scene, slot, late, glimpsed, latch, turn>>

NoOrder == [type |-> "none", at |-> "none"]
Order(type, at) == [type |-> type, at |-> at]

ThreatInit ==
  /\ scene \in Situations
  /\ slot = [order |-> NoOrder, runs |-> FALSE]
  /\ late = 0 /\ glimpsed = NoOrder
  /\ latch = [order |-> NoOrder, age |-> LatchHold]
  /\ turn = "harness"

-----------------------------------------------------------------------------
(* threat_action.                                                          *)

Ranged == {"gun"}
Leaving == {"drive_to", "wander_drive", "flee_police"}
Escapable(s) == s.car /\ s.works

\* break_contact: drive off in a working car, take cover otherwise.
BreakContact(s) == IF Escapable(s) THEN Order("wander_drive", "none") ELSE Order("seek_cover", "none")

\* Out of a gun's way with nothing to answer it: the police are fled from.
Outgunned(s) ==
  IF s.wanted /\ ~s.mission THEN Order("flee_police", "none") ELSE BreakContact(s)

Hurt(s) ==
  IF ~s.car /\ s.named = "fists" THEN Order("flee_ped", "named") ELSE BreakContact(s)

Attacked(s) == s.beaten \/ s.drop \/ s.named # "none"

\* Rung 3: hit back, unless a working car is the better answer.
Answers(s) == ~Escapable(s) /\ Attacked(s) /\ (s.named # "none" \/ s.close)

Fight(s) == IF s.named # "none" THEN Order("fight_ped", "named") ELSE Order("fight_hated", "none")

\* Rung 4: somebody hostile in reach, and nobody has hit him yet.
Hostile(s, running) ==
  IF Escapable(s) /\ ~s.mission
    THEN IF s.still /\ running.type \notin Leaving THEN Order("wander_drive", "none") ELSE NoOrder
    ELSE IF s.near \in Ranged /\ ~s.gun THEN Outgunned(s) ELSE Order("fight_ped", "near")

\* Rungs 5 and 6: blood from nowhere; stars, unless the goal wants them.
Otherwise(s) ==
  IF s.drop \/ (s.beaten /\ ~s.car) THEN BreakContact(s)
  ELSE IF s.wanted /\ ~s.mission /\ ~s.heat THEN Order("flee_police", "none") ELSE NoOrder

\* The first rung that applies decides.  out: dead, arrested, a cutscene, a switch, a retry.
ThreatAction(s, running) ==
  IF s.out THEN NoOrder
  ELSE IF s.hurt THEN Hurt(s)
  ELSE IF Attacked(s) /\ Escapable(s) /\ s.still /\ ~s.mission THEN Order("wander_drive", "none")
  ELSE IF s.named \in Ranged /\ ~Escapable(s) /\ ~s.gun THEN Outgunned(s)
  ELSE IF Answers(s) THEN Fight(s)
  ELSE IF s.near # "none" /\ Hostile(s, running) # NoOrder THEN Hostile(s, running)
  ELSE Otherwise(s)

-----------------------------------------------------------------------------
(* ThreatLatch.                                                            *)

\* The game is at it already; or the same order went out a moment ago, unless
\* it names somebody else.
ShouldIssue(o) ==
  /\ glimpsed.type # o.type
  /\ \/ latch.order.type # o.type
     \/ latch.age >= LatchHold
     \/ o.at # "none" /\ latch.order.at # "none" /\ o.at # latch.order.at

\* Mutant: asking starts the hold anew, posted or not.
LatchedByAsking(o, posted) == [order |-> o, age |-> 0]

\* issued: only a post that reached the game starts the hold.
Latched(o, posted) == IF posted THEN [order |-> o, age |-> 0] ELSE latch

\* _reflex, the survival branch: decide on the snapshot and perhaps post.  A post
\* can be lost (bridge down, refused at the choke point): then it never happened.
Decide(reached) ==
  LET o == ThreatAction(scene, glimpsed)
      posted == o # NoOrder /\ ShouldIssue(o) /\ reached IN
  /\ turn = "harness" /\ turn' = "game"
  /\ latch' = IF o # NoOrder THEN Latched(o, posted) ELSE latch
  /\ IF posted THEN slot' = [order |-> o, runs |-> TRUE] /\ late' = Lag
               ELSE UNCHANGED <<slot, late>>
  /\ UNCHANGED <<scene, glimpsed>>

\* Until the next tick: the world changes, the task ends or another owner's takes
\* the slot, time passes, and a snapshot is read that may lag behind.
Passes(s, next) ==
  /\ turn = "game" /\ turn' = "harness"
  /\ scene' = s /\ slot' = next
  /\ late' = IF late > 0 THEN late - 1 ELSE 0
  /\ glimpsed' = IF late > 0 THEN glimpsed ELSE IF next.runs THEN next.order ELSE NoOrder
  /\ latch' = [latch EXCEPT !.age = IF @ < LatchHold THEN @ + 1 ELSE @]

NextSlots == {slot, [slot EXCEPT !.runs = FALSE], [order |-> Order("drive_to", "none"), runs |-> TRUE]}

ThreatTurn == \E s \in Situations, next \in NextSlots : Passes(s, next)
ThreatNext == (\E reached \in BOOLEAN : Decide(reached)) \/ ThreatTurn

\* The loop polls; the bridge does not lose every post for good.
ThreatFairness == WF_threatVars(ThreatNext) /\ SF_threatVars(Decide(TRUE))

ThreatSpec == ThreatInit /\ [][ThreatNext]_threatVars /\ ThreatFairness

-----------------------------------------------------------------------------
(* Properties.                                                             *)

\* An order of survival's that the game is carrying out is not posted again over
\* itself, though the snapshot may not show it yet: a fight restarted at every
\* poll never gets to its first blow.  And a man who keeps being threatened in
\* one way keeps being answered: the latch may hold an order back, never for good
\* (ThreatLatch.should_issue, _reflex).
NotAtItTwice == turn = "harness" /\ slot.runs /\ slot.order = ThreatAction(scene, glimpsed)
                  => ~ShouldIssue(slot.order)
SurvivalActs ==
  /\ []NotAtItTwice
  /\ \A type \in {"fight_ped", "flee_ped", "seek_cover", "wander_drive", "flee_police"} :
       (<>[](ThreatAction(scene, glimpsed).type = type)) => []<>(slot.runs /\ slot.order.type = type)
=============================================================================
