------------------------------ MODULE MCPlans ------------------------------
(***************************************************************************)
(* What plans, carries out and keeps count, each by itself: the one in     *)
(* `part` runs, the others stay as they began.  The bridge runs in two     *)
(* parts: "steps" are goals and other owners at its task slot, with no     *)
(* clip and one thing that goes wrong; "dips" are the clip thread and the  *)
(* guard at the world's speed, with no tasks and three things that go      *)
(* wrong.  Fairness is each module's own, while its part is the one that   *)
(* runs: nothing is asked of the parts that stand still.                   *)
(***************************************************************************)
EXTENDS DayPlan, FreeRoam, Bridge, Ledger, BaseRate, Offers, Brain

VARIABLE part

allVars == <<part, dayVars, roamVars, bridgeVars, ledgerVars, baseRateVars, offersVars,
             brainVars>>

Alone(p) ==
  /\ part = p /\ UNCHANGED part
  /\ IF p = "day" THEN TRUE ELSE UNCHANGED dayVars
  /\ IF p = "roam" THEN TRUE ELSE UNCHANGED roamVars
  /\ IF p \in {"steps", "dips"} THEN TRUE ELSE UNCHANGED bridgeVars
  /\ IF p = "ledger" THEN TRUE ELSE UNCHANGED ledgerVars
  /\ IF p = "odds" THEN TRUE ELSE UNCHANGED baseRateVars
  /\ IF p = "offers" THEN TRUE ELSE UNCHANGED offersVars
  /\ IF p = "brain" THEN TRUE ELSE UNCHANGED brainVars

BridgeSteps == BridgeNext /\ clip' = clip /\ used'.mishaps + used'.lost <= 1
BridgeDips ==
  /\ BridgeNext /\ used'.mishaps + used'.lost <= 3
  /\ \A t \in Threads : threads'[t].cmd.kind = "speed"

PlansInit ==
  /\ part \in {"day", "roam", "steps", "dips", "ledger", "odds", "offers", "brain"}
  /\ DayInit /\ RoamInit /\ BridgeInit /\ LedgerInit /\ BaseRateInit /\ OffersInit
  /\ BrainInit

PlansNext ==
  \/ part = "day" /\ DayNext /\ Alone("day")
  \/ part = "roam" /\ RoamNext /\ Alone("roam")
  \/ part = "steps" /\ BridgeSteps /\ Alone("steps")
  \/ part = "dips" /\ BridgeDips /\ Alone("dips")
  \/ part = "ledger" /\ LedgerNext /\ Alone("ledger")
  \/ part = "odds" /\ BaseRateNext /\ Alone("odds")
  \/ part = "offers" /\ OffersNext /\ Alone("offers")
  \/ part = "brain" /\ BrainNext /\ Alone("brain")

InBridge(A) == part \in {"steps", "dips"} /\ A

PlansFairness ==
  /\ WF_roamVars(part = "roam" /\ GoalAges) /\ WF_roamVars(part = "roam" /\ DullPoll)
  /\ WF_brainVars(part = "brain" /\ Attempt) /\ WF_brainVars(part = "brain" /\ UnitPasses)
  /\ WF_bridgeVars(InBridge(Drain)) /\ WF_bridgeVars(InBridge(Publish))
  /\ WF_bridgeVars(InBridge(Respawn))
  /\ \A t \in Threads : WF_bridgeVars(InBridge(Http(t)))
  /\ SF_brainVars(part = "brain" /\ AwakeTurn) /\ SF_bridgeVars(InBridge(GuardAsks))

PlansSpec == PlansInit /\ [][PlansNext]_allVars /\ PlansFairness

-----------------------------------------------------------------------------
(* The values.                                                             *)

MCMoments == LET w == [well |-> TRUE, fight |-> FALSE, marker |-> TRUE, close |-> FALSE] IN
  {w, [w EXCEPT !.close = TRUE], [w EXCEPT !.marker = FALSE], [w EXCEPT !.fight = TRUE],
   [w EXCEPT !.well = FALSE]}

Goal(id, cat, level, cost) ==
  [id |-> id, cat |-> cat, level |-> level, cost |-> cost, calm |-> FALSE, heat |-> FALSE,
   cheat |-> FALSE, handoff |-> FALSE, fallback |-> FALSE, cops |-> FALSE, plan |-> <<"task">>]
MCGoals ==
  {[Goal("burn_the_city", "trouble", 3, 2) EXCEPT !.heat = TRUE, !.cheat = TRUE, !.plan = <<"task", "prim">>],
   [Goal("start_nearest_mission", "mission", 1, 0) EXCEPT !.calm = TRUE, !.handoff = TRUE, !.plan = <<>>],
   [Goal("roam_the_block", "errand", 1, 0) EXCEPT !.calm = TRUE, !.fallback = TRUE]}
Out == [wanted |-> FALSE, down |-> FALSE, mission |-> FALSE, block |-> FALSE, held |-> FALSE,
        call |-> FALSE, hurt |-> FALSE, forced |-> FALSE, still |-> FALSE, late |-> FALSE,
        needs |-> MCGoals, cooled |-> MCGoals]
MCScenes ==
  {Out, [Out EXCEPT !.wanted = TRUE], [Out EXCEPT !.down = TRUE], [Out EXCEPT !.mission = TRUE],
   [Out EXCEPT !.needs = {}, !.still = TRUE, !.cooled = {}], [Out EXCEPT !.hurt = TRUE, !.call = TRUE],
   [Out EXCEPT !.still = TRUE], [Out EXCEPT !.late = TRUE], [Out EXCEPT !.forced = TRUE]}

MCAsking == {"survives_a_chase", "survives_a_fight", "two_star_standoff", "pulls_off_a_goal"}
Quiet == [down |-> FALSE, stars |-> 0, gain |-> 0, died |-> FALSE, fight |-> FALSE, mission |-> FALSE,
          cutscene |-> FALSE, believed |-> TRUE, session |-> TRUE, measured |-> {"pulls_off_a_goal"}]
MCInstants == {Quiet, [Quiet EXCEPT !.stars = 2, !.gain = 2], [Quiet EXCEPT !.stars = 1, !.gain = 1],
               [Quiet EXCEPT !.fight = TRUE]}
=============================================================================
