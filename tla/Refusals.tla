------------------------------- MODULE Refusals -------------------------------
(***************************************************************************)
(* The three memories that refuse a task type for a while, and the last    *)
(* resort they stand in the way of: TaskStallDetector, ClearedByGame-      *)
(* Backoff and IdleBreaker of behavior/recovery.py, and the gates of       *)
(* _execute_action (main.py) that consult them.  One step is one poll, of *)
(* fifteen seconds: waits are rounded to that.                             *)
(***************************************************************************)
EXTENDS Naturals, FiniteSets

\* Glances: what a poll sees.  moved: he has covered ground; calm: nothing that
\* keeps the poll from the breaker: no attack and no car to be driven off, no escape
\* ladder, no mission and no mission block of the plan, no call, not just pulled out
\* of his car, not stranded, no hold that has a name (_vehicle_hold), no black
\* screen, not down; foot: on foot and in control; near: somebody within reach.
CONSTANT Glances

VARIABLES
  task,     \* the bridge's task as the snapshot shows it
  stall,    \* TaskStallDetector: anchor, the task it watches, the block
  spell,    \* ClearedByGameBackoff: per type, the wait, the strikes, the last clear
  idle,     \* IdleBreaker: still time, hold, rung, bans
  posted,   \* what this poll posted and for whom, and whether he just stood there
  stood     \* how long this task has been seen running with nothing moving

refusalsVars == <<task, stall, spell, idle, posted, stood>>

Kinds == {"walk_to", "fight_ped"}
StallWindow == 2
StallGap == 2
StallBlock == 3
FirstClear == 1
LongestClear == 2
Forget == 3
IdleWindow == 2
RungHold == 1
TypeBan == 2

Less(n) == IF n > 0 THEN n - 1 ELSE 0
Upto(n, top) == IF n < top THEN n + 1 ELSE top

NoTask == [type |-> "none", status |-> "idle"]
RefusalsInit ==
  /\ task = NoTask
  /\ stall = [anchored |-> FALSE, still |-> 0, knows |-> FALSE, since |-> StallGap, type |-> "none", left |-> 0]
  /\ spell = [seen |-> FALSE, wait |-> [t \in Kinds |-> 0], strikes |-> [t \in Kinds |-> 0],
              since |-> [t \in Kinds |-> Forget]]
  /\ idle = [anchored |-> FALSE, still |-> 0, hold |-> RungHold, rung |-> 0, ban |-> [t \in Kinds |-> 0]]
  /\ posted = [who |-> "none", quiet |-> FALSE] /\ stood = 0

-----------------------------------------------------------------------------
(* ClearedByGameBackoff.feed: a task the game cleared is a "not now", for  *)
(* longer each time.  Every id is read once, in the state it is first seen.*)

Struck(t) == IF spell.since[t] >= Forget THEN 1 ELSE Upto(spell.strikes[t], 2)

Fed ==
  LET t == task.type IN
  IF task.status = "cleared" /\ ~spell.seen
    THEN [seen |-> TRUE, strikes |-> [spell.strikes EXCEPT ![t] = Struck(t)],
          since |-> [spell.since EXCEPT ![t] = 0],
          wait |-> [spell.wait EXCEPT ![t] = IF Struck(t) = 1 THEN FirstClear ELSE LongestClear]]
    ELSE [spell EXCEPT !.seen = @ \/ t # "none"]

-----------------------------------------------------------------------------
(* TaskStallDetector.feed: a running task that moves nobody is stopped.    *)

Watching(g) == g.calm /\ task.status = "running"

\* Mutant: the window of the last task is held against the next one.
SameAnchorWhateverId(g) == stall.anchored /\ ~g.moved

\* A new task id and a step of two metres both start the window afresh.
SameAnchor(g) == stall.anchored /\ stall.knows /\ ~g.moved

Intervenes(g) == Watching(g) /\ SameAnchor(g) /\ stall.still >= StallWindow /\ stall.since >= StallGap

StallFed(g) ==
  CASE ~Watching(g) -> [stall EXCEPT !.anchored = FALSE]
    [] Intervenes(g) -> [stall EXCEPT !.still = 0, !.since = 0, !.type = task.type, !.left = StallBlock]
    [] Watching(g) /\ SameAnchor(g) /\ ~Intervenes(g) -> stall
    [] OTHER -> [stall EXCEPT !.anchored = TRUE, !.still = 0, !.knows = TRUE]

Blocked(t) == stall.left > 0 /\ t = stall.type

-----------------------------------------------------------------------------
(* IdleBreaker.                                                            *)

\* observe: six metres or lost blood start over.
IdleSeen(g) == IF idle.anchored /\ ~g.moved THEN idle
            ELSE [idle EXCEPT !.anchored = TRUE, !.still = 0, !.rung = IF idle.anchored THEN 0 ELSE @]
\* reset: down, cutscene, no control, in a car.
IdleReset == [idle EXCEPT !.anchored = FALSE, !.still = 0, !.rung = 0, !.hold = RungHold]

BreakerFires(g) == g.foot /\ idle.anchored /\ ~g.moved
                /\ idle.still >= IdleWindow /\ idle.hold >= RungHold

\* Mutant: the ladder stays on the rung it is on.
SameRung(r) == r
NextRungOf(r) == (r + 1) % 4

\* He walks somewhere; on the second rung he picks a fight if there is anybody.
RungType(g, r) == IF r = 1 /\ g.near THEN "fight_ped" ELSE "walk_to"

\* check: when it fires, the task that failed last is banned, then a rung is taken.
IdleFired(g) ==
  LET i == IdleSeen(g) IN
  [i EXCEPT !.hold = 0, !.rung = NextRungOf(i.rung),
            !.ban = IF task.status \in {"failed", "cleared"} THEN [@ EXCEPT ![task.type] = TypeBan] ELSE @]

Consulted(g) == IF ~g.foot THEN IdleReset ELSE IF BreakerFires(g) THEN IdleFired(g) ELSE IdleSeen(g)

-----------------------------------------------------------------------------
(* A poll.                                                                 *)

\* _execute_action's gates: only a type none of the three refuses is posted.
Accepts(t) == Fed.wait[t] = 0 /\ ~Blocked(t)

\* Time goes on; a task may end, of itself or by the game's hand.
Endings == IF task.status = "running" THEN {"running", "idle", "failed", "cleared"} ELSE {task.status}

Settles(g, s, i, t, who, status) ==
  /\ task' = IF who = "none" THEN [task EXCEPT !.status = status]
             ELSE IF t = "stop" THEN NoTask ELSE [type |-> t, status |-> status]
  /\ posted' = [who |-> who, quiet |-> who # "other" /\ g.calm /\ g.foot /\ g.near /\ ~g.moved]
  /\ stall' = [s EXCEPT !.knows = @ /\ who = "none", !.since = Upto(@, StallGap), !.left = Less(@),
                        !.still = IF s.anchored THEN Upto(@, StallWindow) ELSE @]
  /\ spell' = [Fed EXCEPT !.seen = @ /\ who = "none", !.wait = [k \in Kinds |-> Less(@[k])],
                          !.since = [k \in Kinds |-> Upto(@[k], Forget)]]
  /\ idle' = [i EXCEPT !.still = IF i.anchored THEN Upto(@, IdleWindow) ELSE @, !.hold = Upto(@, RungHold),
                       !.ban = [k \in Kinds |-> Less(@[k])]]
  /\ stood' = IF who = "none" /\ Watching(g) THEN IF g.moved THEN 1 ELSE Upto(stood, StallWindow) ELSE 0

\* The stall rung: `stop`, which no memory refuses.  The breaker may be asked below
\* it all the same, and spends a rung: the wheel refuses what it wants to post.
StopTheTask(g) ==
  /\ Intervenes(g)
  /\ \E i \in {idle, Consulted(g)} : Settles(g, StallFed(g), i, "stop", "stall", "idle")

\* Somebody above the breaker wants a task, and gets it unless it is refused.
OthersAct(g, t, status) ==
  /\ ~Intervenes(g)
  /\ IF Accepts(t) /\ idle.ban[t] = 0 THEN Settles(g, StallFed(g), idle, t, "other", status)
     ELSE status \in Endings /\ Settles(g, StallFed(g), idle, "none", "none", status)

\* Nobody wants anything: the breaker is asked, unless something has hold of him.
BreakerAsked(g, status) ==
  LET i == IF g.calm THEN Consulted(g) ELSE idle
      t == RungType(g, IdleSeen(g).rung)
      goes == g.calm /\ BreakerFires(g) /\ Accepts(t) /\ i.ban[t] = 0 IN
  /\ ~Intervenes(g)
  /\ IF goes THEN Settles(g, StallFed(g), i, t, "breaker", status)
     ELSE status \in Endings /\ Settles(g, StallFed(g), i, "none", "none", status)

Afterwards == {"running", "failed", "cleared", "idle"}

RefusalsNext ==
  \/ \E g \in Glances : StopTheTask(g)
  \/ \E g \in Glances, status \in Afterwards : OthersAct(g, "walk_to", status)
  \/ \E g \in Glances, status \in Afterwards : BreakerAsked(g, status)

\* The loop polls.
RefusalsFairness == WF_refusalsVars(RefusalsNext)
RefusalsSpec == RefusalsInit /\ [][RefusalsNext]_refusalsVars /\ RefusalsFairness

-----------------------------------------------------------------------------
(* Properties.                                                             *)

\* What refuses his tasks neither stops him too soon nor for good.  A task is cut
\* short only when it, and not the one before it, has run for the whole window
\* without moving him (StallDetector).  And a man who stands there with somebody
\* near, while nobody above wants anything, is set going again: the breaker bans
\* what failed, and its ladder reaches a type that neither the bans, the block nor
\* the backoff refuses (IdleBreaker).
StopsAreEarned == posted'.who = "stall" => stood >= StallWindow
RefusalsLetHimAct ==
  /\ [][StopsAreEarned]_refusalsVars
  /\ <>[]posted.quiet => []<>(posted.who = "breaker")
=============================================================================
