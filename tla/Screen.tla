-------------------------------- MODULE Screen --------------------------------
(***************************************************************************)
(* The game as the harness's machine shows it: the watchdog of a frozen    *)
(* screen with the trackers around the poll, the keeper of the foreground, *)
(* and the capture that may not hold up the loop (recovery.py, main.py).   *)
(***************************************************************************)
EXTENDS Naturals

\* Durations, in the section's own unit of time, and limits.
CONSTANTS
  StallTimeout, KeyGap, MaxAttempts,          \* BlockingScreenWatchdog
  Grace, FastGap, SlowGap, FlapWindow, Fast,  \* ForegroundKeeper
  GrabWindow, MaxGrabFailures                 \* OffLoopGrab
ASSUME ScreenConstants ==
  /\ {StallTimeout, KeyGap, Grace, FastGap, SlowGap, FlapWindow, GrabWindow + 1} \subseteq 1 .. 98
  /\ GrabWindow \in Nat \ {0}
  /\ {MaxAttempts, Fast, MaxGrabFailures} \subseteq Nat /\ FastGap <= SlowGap

VARIABLES
  game,    \* the process: what it does, its tick against the last one polled, the freeze
  watch,   \* BlockingScreenWatchdog, and whether a job's context is held
  desk,    \* the desktop: who is in front, whose session, what the keeper saw and asked
  keeper,  \* ForegroundKeeper
  grab     \* OffLoopGrab and its worker

frozenVars == <<game, watch>>
focusVars == <<desk, keeper>>
grabVars == <<grab>>

\* Later than any duration.
Never == 99
Elapsed(n, top) == IF n = Never THEN n ELSE IF n < top THEN n + 1 ELSE top

-----------------------------------------------------------------------------
(* A frozen screen.                                                        *)

FreshWatch == [seen |-> FALSE, age |-> 0, cut |-> FALSE, attempts |-> 0, gap |-> 0,
               gaveUp |-> FALSE, blocked |-> FALSE, job |-> FALSE, pressed |-> FALSE]

FrozenInit ==
  /\ game = [ticks |-> TRUE, cut |-> FALSE, tick |-> "later", still |-> 0, keys |-> 0]
  /\ watch = FreshWatch

\* feed, on a tick that moved: the script thread is alive.
Alive == [watch EXCEPT !.seen = TRUE, !.age = 0, !.cut = game.cut, !.attempts = 0,
                       !.gaveUp = FALSE, !.blocked = FALSE]

\* feed, on the same tick once more: a cutscene may hold still.
Unmoved == watch.age >= StallTimeout

\* Mutant: the cutscene of the last tick is not looked at.
StandsStillAnyway == FALSE

StandsStill == watch.cut

KeyDue == /\ Unmoved /\ ~watch.gaveUp /\ watch.attempts < MaxAttempts
          /\ watch.attempts = 0 \/ watch.gap >= KeyGap

Repeated ==
  CASE StandsStill -> [watch EXCEPT !.blocked = FALSE]
    [] ~StandsStill /\ KeyDue ->
         [watch EXCEPT !.blocked = TRUE, !.attempts = @ + 1, !.gap = 0, !.pressed = TRUE]
    [] OTHER ->
         [watch EXCEPT !.blocked = Unmoved, !.gaveUp = @ \/ (Unmoved /\ watch.attempts = MaxAttempts)]

\* GameRestartDetector.check: the tick went back.
Restarted == game.tick = "earlier"

\* run: with a new process everything is reset; on entering a blocked screen the
\* context of the job is dropped.
Poll ==
  /\ game' = [game EXCEPT !.tick = "same"]
  /\ IF Restarted THEN watch' = FreshWatch
     ELSE LET fed == IF ~watch.seen \/ game.tick = "later" THEN Alive ELSE Repeated IN
          watch' = [fed EXCEPT !.job = @ /\ ~(fed.blocked /\ ~watch.blocked)]

\* The key reaches a game that may have come back meanwhile.
Press ==
  /\ watch.pressed /\ watch' = [watch EXCEPT !.pressed = FALSE]
  /\ game' = [game EXCEPT !.keys = IF game.still > 0 THEN @ + 1 ELSE @]

SecondPasses ==
  /\ ~watch.pressed
  /\ watch' = [watch EXCEPT !.age = Elapsed(@, StallTimeout), !.gap = Elapsed(@, KeyGap)]
  /\ game' = IF game.ticks
             THEN [game EXCEPT !.tick = IF @ = "same" THEN "later" ELSE @, !.still = 0, !.keys = 0]
             ELSE [game EXCEPT !.still = Elapsed(@, StallTimeout)]

\* A modal screen or a cutscene stops the script thread; a key or a human lets it go on.
GameTurns ==
  /\ \/ game.ticks /\ game' = [ticks |-> TRUE, cut |-> ~game.cut, still |-> 0, keys |-> 0,
                               tick |-> IF game.tick = "same" THEN "later" ELSE game.tick]
     \/ game' = [game EXCEPT !.ticks = ~@]
  /\ UNCHANGED watch

\* A new process counts its ticks anew (another version of the bridge is told like an
\* earlier tick); that it shows the very tick last seen is left out.
Relaunched ==
  /\ \E tick \in {"earlier", "later"} :
       game' = [ticks |-> TRUE, cut |-> FALSE, tick |-> tick, still |-> 0, keys |-> 0]
  /\ UNCHANGED watch

JobStarts == watch.seen /\ ~watch.blocked /\ watch' = [watch EXCEPT !.job = TRUE] /\ UNCHANGED game

\* An iteration in which the bridge cannot be reached, or has no snapshot, feeds nothing.
FrozenNext == (Poll /\ ~watch.pressed) \/ Press \/ SecondPasses \/ GameTurns \/ Relaunched \/ JobStarts
FrozenSpec == FrozenInit /\ [][FrozenNext]_frozenVars

-----------------------------------------------------------------------------
(* The foreground.                                                         *)

FocusInit ==
  /\ desk = [front |-> "game", console |-> TRUE, held |-> Never, asked |-> 0, since |-> SlowGap]
  /\ keeper = [attempts |-> 0, lost |-> Never, tried |-> Never, regained |-> Never]

\* Not the console's session, or no window to focus: the episode is forgotten.
StoodDown == [attempts |-> 0, lost |-> Never, tried |-> Never, regained |-> Never]

\* The game is in front.  The episode is over once it has stayed there.
InFront ==
  LET back == IF keeper.lost # Never /\ keeper.attempts > 0 THEN 0 ELSE keeper.regained IN
  IF back # Never /\ back >= FlapWindow THEN StoodDown
  ELSE [keeper EXCEPT !.lost = Never, !.regained = back]

\* Another window is.
Losing == [keeper EXCEPT !.lost = IF @ = Never THEN 0 ELSE @]
GapNow == IF keeper.attempts < Fast THEN FastGap ELSE SlowGap
AskDue == /\ Losing.lost >= Grace
          /\ keeper.attempts > 0 => keeper.tried >= GapNow

\* _keep_game_foreground: another session or an operator's, or no window.
Away == ~desk.console \/ desk.front = "none"

KeeperLooks ==
  CASE Away -> keeper' = StoodDown /\ desk' = [desk EXCEPT !.held = Never, !.asked = 0, !.since = SlowGap]
    [] ~Away /\ desk.front = "game" ->
         /\ keeper' = InFront
         /\ desk' = [desk EXCEPT !.held = IF @ = Never THEN 0 ELSE @,
                                 !.asked = IF desk.held # Never /\ desk.held >= FlapWindow THEN 0 ELSE @]
    [] OTHER ->
         IF AskDue
           THEN /\ keeper' = [Losing EXCEPT !.attempts = IF @ < Fast THEN @ + 1 ELSE @, !.tried = 0]
                /\ desk' = [desk EXCEPT !.held = Never, !.since = 0,
                                        !.asked = IF @ < Fast THEN @ + 1 ELSE @]
           ELSE keeper' = Losing /\ desk' = [desk EXCEPT !.held = Never]

FocusAges ==
  /\ keeper' = [keeper EXCEPT !.lost = Elapsed(@, Grace), !.tried = Elapsed(@, SlowGap),
                              !.regained = Elapsed(@, FlapWindow)]
  /\ desk' = [desk EXCEPT !.since = Elapsed(@, SlowGap), !.held = Elapsed(@, FlapWindow)]

DeskChanges ==
  /\ \E front \in {"game", "other", "none"}, console \in BOOLEAN :
       desk' = [desk EXCEPT !.front = front, !.console = console]
  /\ UNCHANGED keeper

FocusNext == KeeperLooks \/ FocusAges \/ DeskChanges
FocusSpec == FocusInit /\ [][FocusNext]_focusVars

-----------------------------------------------------------------------------
(* The capture.                                                            *)

GrabInit ==
  grab = [worker |-> "none", done |-> FALSE, value |-> "none", waits |-> FALSE, timed |-> FALSE,
          failures |-> 0, window |-> Never, dead |-> FALSE, frame |-> FALSE, rebuild |-> FALSE]

\* _record_failure: failures count within one window, from its first on.
Failed(g) ==
  LET anew == g.window = Never \/ g.window > GrabWindow
      n == IF anew THEN 1 ELSE g.failures + 1 IN
  [g EXCEPT !.window = IF anew THEN 0 ELSE @, !.failures = n, !.dead = n >= MaxGrabFailures]

\* _pump_screen_grab: once capture is given up there is no frame any more.
Pumped(g) == grab' = [g EXCEPT !.frame = @ /\ ~g.dead]

Ready == grab.done

\* poll: a new worker, and the loop waits for it a moment.
PollStarts ==
  /\ ~grab.dead /\ grab.worker = "none" /\ ~grab.waits
  /\ grab' = [grab EXCEPT !.worker = "starts", !.done = FALSE, !.value = "none", !.timed = FALSE,
                          !.waits = TRUE]

\* poll: the result is there, in time or late.
PollTakes ==
  /\ ~grab.dead /\ grab.worker # "none" /\ Ready
  /\ LET g == [grab EXCEPT !.worker = "none", !.waits = FALSE, !.timed = FALSE, !.value = "none"] IN
     Pumped(IF grab.value = "error" THEN Failed(g)
            ELSE [g EXCEPT !.failures = 0, !.window = Never, !.frame = TRUE])

\* poll: the wait is over.  A worker that is out there is never waited for twice.
PollGivesUp ==
  /\ grab.waits /\ ~Ready
  /\ Pumped(Failed([grab EXCEPT !.waits = FALSE, !.timed = TRUE]))

\* _grab_frame_and_hash, on the worker's thread: the device is rebuilt if that was
\* asked for before it started.  The grab may take for ever; nothing escapes _run.
WorkerBegins == grab.worker = "starts" /\ grab' = [grab EXCEPT !.worker = "works", !.rebuild = FALSE]
WorkerEnds(value) == grab.worker = "works" /\ grab' = [grab EXCEPT !.worker = "over", !.value = value]
WorkerSays == grab.worker = "over" /\ ~grab.done /\ grab' = [grab EXCEPT !.done = TRUE]

\* _on_game_restart: the rebuild is only asked for here.
RebuildWanted == grab' = [grab EXCEPT !.rebuild = ~grab.dead, !.frame = FALSE]

GrabAges == ~grab.waits /\ grab' = [grab EXCEPT !.window = Elapsed(@, GrabWindow + 1)]

GrabNext ==
  \/ PollStarts \/ PollTakes \/ PollGivesUp \/ WorkerBegins \/ WorkerSays \/ RebuildWanted \/ GrabAges
  \/ \E value \in {"frame", "error"} : WorkerEnds(value)

\* The loop polls on; a worker starts, and one whose call has returned says so.
GrabFairness ==
  /\ WF_grabVars(PollTakes) /\ WF_grabVars(PollStarts)
  /\ WF_grabVars(WorkerBegins) /\ WF_grabVars(WorkerSays)

-----------------------------------------------------------------------------
\* What the harness does to the screen from outside is measured.  A key is only
\* sent to a game that has stood still for the whole timeout outside a cutscene,
\* and a limited number of times in one freeze (BlockingScreenWatchdog.feed).
\* The foreground is asked for quickly only while an episode is young, and an
\* episode is not over because the game was in front for a moment
\* (ForegroundKeeper.feed).  And the result of a grab is collected however late
\* it comes, and a device that is to be rebuilt is, so capture goes on unless it
\* was given up (OffLoopGrab.poll, _on_game_restart).
KeysAreWarranted == watch'.pressed /\ ~watch.pressed =>
                      game.still >= StallTimeout /\ ~game.cut /\ game.keys < MaxAttempts
AskedAtLeisure == desk'.since = 0 /\ desk.since > 0 =>
                    desk.asked = 0 \/ desk.since >= (IF desk.asked < Fast THEN FastGap ELSE SlowGap)
ScreenIsMinded ==
  /\ [][KeysAreWarranted]_frozenVars /\ [][AskedAtLeisure]_focusVars
  /\ (grab.worker = "over") ~> (grab.worker # "over" \/ grab.dead)
  /\ (grab.rebuild /\ grab.worker = "none") ~> (~grab.rebuild \/ grab.dead)
=============================================================================
