------------------------------ MODULE MCHarness -----------------------------
(***************************************************************************)
(* The loop's tick, and the reflexes with clocks of their own: the one in  *)
(* `part` runs, the others stay as they began.                             *)
(***************************************************************************)
EXTENDS HarnessTick, Deaths, Emergencies

VARIABLE part

harnessVars == <<part, tickVars, deathVars, nudgeVars, waterVars, strandVars>>

Alone(p) ==
  /\ part = p /\ UNCHANGED part
  /\ IF p = "tick" THEN TRUE ELSE UNCHANGED tickVars
  /\ IF p = "deaths" THEN TRUE ELSE UNCHANGED deathVars
  /\ IF p = "nudge" THEN TRUE ELSE UNCHANGED nudgeVars
  /\ IF p = "water" THEN TRUE ELSE UNCHANGED waterVars
  /\ IF p = "strand" THEN TRUE ELSE UNCHANGED strandVars

Free == [job |-> FALSE, owns |-> "none", indoors |-> FALSE, call |-> "none"]

HarnessInit ==
  /\ part \in {"tick", "deaths", "nudge", "water", "strand"}
  /\ TickInit /\ DeathsInit /\ NudgeInit /\ WaterInit /\ StrandInit
  /\ part # "tick" => scene = Free

HarnessNext ==
  \/ part = "tick" /\ TickNext /\ Alone("tick")
  \/ part = "deaths" /\ DeathsNext /\ Alone("deaths")
  \/ part = "nudge" /\ NudgeNext /\ Alone("nudge")
  \/ part = "water" /\ WaterNext /\ Alone("water")
  \/ part = "strand" /\ StrandNext /\ Alone("strand")

HarnessSpec == HarnessInit /\ [][HarnessNext]_harnessVars

-----------------------------------------------------------------------------
(* The values.                                                             *)

MCScenes ==
  {Free} \cup {[Free EXCEPT !.job = TRUE, !.owns = o] : o \in {"none", "cutscene"}}
  \cup {[Free EXCEPT !.owns = o] : o \in {"down", "control"}}
  \cup {[Free EXCEPT !.indoors = TRUE]}
  \cup {[Free EXCEPT !.call = c] : c \in {"ringing", "connected"}}
=============================================================================
