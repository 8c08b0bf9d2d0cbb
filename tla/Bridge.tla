------------------------------- MODULE Bridge -------------------------------
(***************************************************************************)
(* The bridge between the harness and the game.  The harness makes HTTP    *)
(* calls (BridgeClient of bridge_client.py), one at a time from its loop   *)
(* and one at a time from the clip thread beside it, and reads the         *)
(* published snapshot; an HTTP thread per request (BridgeRouter.cs,        *)
(* BridgeShared.cs) turns a call into a queued command; the game thread    *)
(* (WastedBridgeScript.cs, TaskEngine.cs) drains the queue, moves its one  *)
(* task slot on and publishes.  A call the client gave up on leaves its    *)
(* thread, and perhaps its command, behind.                                *)
(*                                                                         *)
(* The harness here is the part that lives off the answers: the clip       *)
(* thread that slows a death or an arrest down and the watchdog on slow    *)
(* motion (main.py), and the step machine of activities.py, which must     *)
(* tell its own task's end from everybody else's.                          *)
(***************************************************************************)
EXTENDS Naturals, Sequences, FiniteSets

CONSTANTS Threads,         \* HTTP threads
          QueueLimit,      \* MaxQueueDepth
          MaxIds,          \* bound: task ids handed out
          Mishaps,         \* bound: slow worlds, cutscenes, deaths and arrests
          Lost,            \* bound: calls given up on
          Clips            \* bound: clips begun

ASSUME BridgeAssumption ==
  /\ IsFiniteSet(Threads) /\ QueueLimit \in Nat
  /\ MaxIds \in Nat /\ Mishaps \in Nat /\ Lost \in Nat /\ Clips \in Nat

NoCall == <<>>
Normal == [kind |-> "speed", id |-> 0, endless |-> FALSE, slow |-> FALSE]
SlowMotion == [Normal EXCEPT !.slow = TRUE]
Task(endless) == [kind |-> "task", id |-> 0, endless |-> endless, slow |-> FALSE]

\* How the game has him: up, dead, arrested, or in a scene it slows by itself.
Fallen == {"dead", "busted"}
Silent == {"dead", "scene"}

VARIABLES
  threads,   \* [Threads -> the request each HTTP thread serves]
  depth,     \* BridgeShared._queueDepth
  queue,     \* BridgeShared._commands
  game,      \* the game thread: engine (last_task), slow, down, online
  shown,     \* BridgeShared.StateJson
  client,    \* the harness's loop: call (the thread it waits for), for, step
  clip,      \* its clip thread: at (what it does next), call
  ids,       \* NextTaskId
  used,      \* the bounds used up: mishaps, lost, clips
  ended      \* ids whose task the engine saw to its end

bridgeVars == <<threads, depth, queue, game, shown, client, clip, ids, used, ended>>

Served == [at |-> "free", cmd |-> Normal, reply |-> "none"]
Idle == [id |-> 0, status |-> "idle", endless |-> FALSE]
NoStep == [id |-> 0, credit |-> FALSE]

BridgeInit ==
  /\ threads = [t \in Threads |-> Served]
  /\ depth = 0 /\ queue = <<>>
  /\ game = [engine |-> Idle, slow |-> FALSE, down |-> "no", online |-> FALSE]
  /\ shown = [engine |-> Idle, slow |-> FALSE, down |-> "no"]
  /\ client = [call |-> NoCall, for |-> "none", step |-> NoStep]
  /\ clip = [at |-> "idle", call |-> NoCall]
  /\ ids = 0 /\ used = [mishaps |-> 0, lost |-> 0, clips |-> 0] /\ ended = {}

-----------------------------------------------------------------------------
(* HTTP threads.                                                           *)

\* The answer; that of a call nobody waits for any more goes nowhere.  Online,
\* queue_full and game_thread_stalled are one error to every caller.
Answer(t, reply) ==
  IF <<t>> \in {client.call, clip.call}
    THEN [threads[t] EXCEPT !.at = "answer", !.reply = reply] ELSE Served

\* Mutant: the queue's length is read, and the slot is taken by the enqueue.
HasSlotYet == Len(queue) < QueueLimit

\* TryEnqueue's Interlocked.Increment: a slot is taken before it is used.
HasSlot == depth < QueueLimit

\* RouteCore and its handler: refused once the online latch is set; a task gets
\* its id here, and then the depth is raised, which reserves a slot or shows
\* that there is none.
Route(t) ==
  LET cmd == threads[t].cmd IN
  /\ threads[t].at = "sent"
  /\ IF game.online
       THEN /\ threads' = [threads EXCEPT ![t] = Answer(t, "error")]
            /\ UNCHANGED <<depth, ids>>
       ELSE /\ ids' = IF cmd.kind = "task" THEN ids + 1 ELSE ids
            /\ depth' = depth + 1
            /\ threads' = [threads EXCEPT ![t].cmd.id = IF cmd.kind = "task" THEN ids' ELSE 0,
                 ![t].at = IF HasSlot THEN "reserved" ELSE "overdrawn"]
  /\ UNCHANGED <<queue, game, shown, client, clip, used, ended>>

\* The depth was raised past the bound: it is lowered again, and the answer is
\* queue_full.  Until then it keeps a slot from others that race for it.
Refuse(t) ==
  /\ threads[t].at = "overdrawn"
  /\ depth' = depth - 1
  /\ threads' = [threads EXCEPT ![t] = Answer(t, "error")]
  /\ UNCHANGED <<queue, game, shown, client, clip, ids, used, ended>>

\* A task is answered 202 at once; anything else waits for the game thread.
Enqueue(t) ==
  LET cmd == threads[t].cmd IN
  /\ threads[t].at = "reserved"
  /\ queue' = Append(queue, [cmd |-> cmd, reply |-> IF cmd.kind = "task" THEN NoCall ELSE <<t>>])
  /\ threads' = [threads EXCEPT ![t] =
       IF cmd.kind = "task" THEN Answer(t, "ok") ELSE [@ EXCEPT !.at = "waiting"]]
  /\ UNCHANGED <<depth, game, shown, client, clip, ids, used, ended>>

\* Mutant: the request that gave up takes its command back out of the queue.
AbandonWithdraws(t) ==
  /\ threads[t].at = "waiting"
  /\ threads' = [threads EXCEPT ![t] = Answer(t, "error")]
  /\ queue' = SelectSeq(queue, LAMBDA c : c.reply # <<t>>)
  /\ depth' = depth - 1
  /\ UNCHANGED <<game, shown, client, clip, ids, used, ended>>

\* RunOnGameThread gives up after GameThreadWaitMs: the reply is abandoned, the
\* command stays queued and will be applied.
Abandon(t) ==
  /\ threads[t].at = "waiting"
  /\ threads' = [threads EXCEPT ![t] = Answer(t, "error")]
  /\ queue' = [i \in DOMAIN queue |->
       IF queue[i].reply = <<t>> THEN [queue[i] EXCEPT !.reply = NoCall] ELSE queue[i]]
  /\ UNCHANGED <<depth, game, shown, client, clip, ids, used, ended>>

-----------------------------------------------------------------------------
(* The game thread.                                                        *)

\* Apply: TaskEngine.Start overwrites the one slot; a speed is set.
Applied(cmd) ==
  IF cmd.kind = "speed" THEN [game EXCEPT !.slow = cmd.slow]
  ELSE [game EXCEPT !.engine = [id |-> cmd.id, endless |-> cmd.endless, status |-> "running"]]

\* Mutant: the latched script goes on draining as before.
DrainedLatched(cmd) == Applied(cmd)

\* DrainCommands, one command; after the latch RejectQueuedCommands answers it.
DrainedBy(cmd) == IF game.online THEN game ELSE Applied(cmd)

Drain ==
  LET head == Head(queue) IN
  /\ queue # <<>>
  /\ queue' = Tail(queue) /\ depth' = depth - 1
  /\ game' = DrainedBy(head.cmd)
  /\ threads' = IF head.reply = NoCall THEN threads
                ELSE LET t == head.reply[1] IN
                     [threads EXCEPT ![t] = Answer(t, IF game.online THEN "error" ELSE "ok")]
  /\ UNCHANGED <<shown, client, clip, ids, used, ended>>

\* TaskEngine.Update: a running task may have ended; wandering only ever fails,
\* and everything fails with his death or arrest.
TaskUpdated(e) ==
  IF e.status # "running" THEN {e}
  ELSE IF game.down \in Fallen THEN {[e EXCEPT !.status = "failed"]}
  ELSE {e, [e EXCEPT !.status = "failed"]}
         \cup (IF e.endless THEN {} ELSE {[e EXCEPT !.status = "done"]})

\* The rest of TickCore: the engine's update and the snapshot.
Publish ==
  /\ queue = <<>> /\ ~game.online
  /\ \E e \in TaskUpdated(game.engine) :
       /\ game' = [game EXCEPT !.engine = e]
       /\ shown' = [engine |-> e, slow |-> game.slow, down |-> game.down]
       /\ ended' = ended \cup (IF e.status \in {"done", "failed"} THEN {e.id} ELSE {})
  /\ UNCHANGED <<threads, depth, queue, client, clip, ids, used>>

\* TickCore sees an online session: latched until the game restarts.
Latch ==
  /\ ~game.online
  /\ game' = [game EXCEPT !.online = TRUE]
  /\ UNCHANGED <<threads, depth, queue, shown, client, clip, ids, used, ended>>

\* The game's own doing, followed up to the latch: something slows the world, he
\* dies or is arrested, or a scene begins; and it is over.
World ==
  /\ ~game.online
  /\ used.mishaps < Mishaps /\ used' = [used EXCEPT !.mishaps = @ + 1]
  /\ \/ game' = [game EXCEPT !.slow = TRUE]
     \/ /\ game.down = "no"
        /\ \E how \in Fallen \cup Silent : game' = [game EXCEPT !.down = how]
  /\ UNCHANGED <<threads, depth, queue, shown, client, clip, ids, ended>>

Respawn ==
  /\ game.down # "no"
  /\ game' = [game EXCEPT !.down = "no"]
  /\ UNCHANGED <<threads, depth, queue, shown, client, clip, ids, used, ended>>

-----------------------------------------------------------------------------
(* The harness: a tick reads the snapshot, judges the step, and may call.  *)

\* Mutant: whatever task the snapshot carries is taken for the step's.
SteppedOnAny(step, task) ==
  IF step.id = 0 \/ step.credit THEN NoStep
  ELSE IF task.status \in {"done", "failed"} THEN [step EXCEPT !.credit = TRUE] ELSE step

\* next_step: the step's own end, a foreign task running, or keep waiting.
Stepped(step, task) ==
  IF step.id = 0 \/ step.credit THEN NoStep
  ELSE IF task.id # step.id
    THEN IF task.status = "running" THEN NoStep ELSE step
    ELSE IF task.status \in {"done", "failed"} THEN [step EXCEPT !.credit = TRUE] ELSE step

\* BridgeClient._request: the call goes out on a thread of the server.
Sent(t, cmd) ==
  /\ threads[t].at = "free"
  /\ threads' = [threads EXCEPT ![t] = [Served EXCEPT !.at = "sent", !.cmd = cmd]]

Calls(cmd, for, step) ==
  \E t \in Threads :
    Sent(t, cmd) /\ client' = [call |-> <<t>>, for |-> for, step |-> step]

Looking == client.call = NoCall /\ ~game.online

Unrouted == {t \in Threads : threads[t].at = "sent" /\ threads[t].cmd.kind = "task"}
MayPost == ids + Cardinality(Unrouted) < MaxIds

\* _guard_timescale asks for normal speed, when its last request is long ago.  It
\* knows nothing of the clip thread's dip, and is silent when he is dead, in a
\* cutscene and while the game's own effect has the world below the floor.
GuardAsks ==
  /\ Looking /\ shown.slow /\ shown.down \notin Silent
  /\ Calls(Normal, "guard", Stepped(client.step, shown.engine))
  /\ UNCHANGED <<depth, queue, game, shown, clip, ids, used, ended>>

\* _capture_clip_async: a death or an arrest is seen while no clip is under way;
\* _slow_the_death of the new thread asks for slow motion beside the loop.
ClipStarts ==
  /\ Looking /\ shown.down \in Fallen /\ clip.at = "idle"
  /\ used.clips < Clips /\ used' = [used EXCEPT !.clips = @ + 1]
  /\ \E t \in Threads : Sent(t, SlowMotion) /\ clip' = [at |-> "slow", call |-> <<t>>]
  /\ UNCHANGED <<depth, queue, game, shown, client, ids, ended>>

\* Its `finally`, after the sleep or at once when the dip failed.
ClipRestores ==
  /\ clip.at = "normal" /\ clip.call = NoCall
  /\ \E t \in Threads : Sent(t, Normal) /\ clip' = [clip EXCEPT !.call = <<t>>]
  /\ UNCHANGED <<depth, queue, game, shown, client, ids, used, ended>>

\* Answered or given up on, slow motion is followed by normal speed, and that by
\* nothing: a restore that failed is left to the guard.
ClipGoesOn == clip' = [at |-> IF clip.at = "slow" THEN "normal" ELSE "idle", call |-> NoCall]

\* The step is judged, and perhaps passed over for its timeout; then the goal's
\* next step is posted, or another owner's task, which ends the goal first.
Drive ==
  /\ Looking
  /\ \E step \in {Stepped(client.step, shown.engine), NoStep} :
       \/ /\ client' = [client EXCEPT !.step = step]
          /\ UNCHANGED threads
       \/ MayPost /\ step = NoStep /\ Calls(Task(FALSE), "step", NoStep)
       \/ MayPost /\ Calls(Task(TRUE), "other", NoStep)
  /\ UNCHANGED <<depth, queue, game, shown, clip, ids, used, ended>>

\* The answer: a 202 binds the step to its id; every error is "not now".
Hear(t) ==
  /\ threads[t].at = "answer" /\ threads' = [threads EXCEPT ![t] = Served]
  /\ \/ /\ client.call = <<t>>
        /\ client' = [call |-> NoCall, for |-> "none",
             step |-> IF client.for = "step" /\ threads[t].reply = "ok"
                        THEN [id |-> threads[t].cmd.id, credit |-> FALSE] ELSE client.step]
        /\ UNCHANGED clip
     \/ clip.call = <<t>> /\ ClipGoesOn /\ UNCHANGED client
  /\ UNCHANGED <<depth, queue, game, shown, ids, used, ended>>

\* The client's own timeout: BridgeDownError, and the request runs on.
GiveUp ==
  /\ used.lost < Lost /\ used' = [used EXCEPT !.lost = @ + 1]
  /\ \E t \in Threads :
       /\ threads[t].at # "answer"
       /\ \/ /\ client.call = <<t>>
             /\ client' = [client EXCEPT !.call = NoCall, !.for = "none"] /\ UNCHANGED clip
          \/ clip.call = <<t>> /\ ClipGoesOn /\ UNCHANGED client
  /\ UNCHANGED <<threads, depth, queue, game, shown, ids, ended>>

-----------------------------------------------------------------------------
Http(t) == Route(t) \/ Refuse(t) \/ Enqueue(t) \/ Abandon(t) \/ Hear(t)

BridgeNext == \/ \E t \in Threads : Http(t)
              \/ Drain \/ Publish \/ Latch \/ World \/ Respawn
              \/ GuardAsks \/ ClipStarts \/ ClipRestores \/ Drive \/ GiveUp

\* The game thread ticks again after any stall, HTTP threads run, a death, an
\* arrest and a scene end, and the guard's spacing passes at some tick while the
\* world is slow.  The clip thread itself may die at any point.
BridgeFairness ==
  /\ \A t \in Threads : WF_bridgeVars(Http(t))
  /\ WF_bridgeVars(Drain) /\ WF_bridgeVars(Publish) /\ WF_bridgeVars(Respawn)
  /\ SF_bridgeVars(GuardAsks)

BridgeSpec == BridgeInit /\ [][BridgeNext]_bridgeVars /\ BridgeFairness

-----------------------------------------------------------------------------
(* Properties.                                                             *)

\* A step of a goal is only taken as over when the engine saw that very task to
\* its end, whatever task the snapshot still carries after the post.
StepsEndOnTheirOwn == client.step.credit => client.step.id \in ended

\* However many requests race for the last slot, no more commands are queued than
\* the bound; the depth /health reports never says fewer than there are, and every
\* slot comes back: with nothing queued and no thread inside TryEnqueue it is 0.
QueueIsBounded ==
  /\ Len(queue) <= QueueLimit /\ Len(queue) <= depth
  /\ (queue = <<>> /\ \A t \in Threads : threads[t].at \notin {"reserved", "overdrawn"})
       => depth = 0

\* After the bridge saw an online session nothing queued or still in flight moves
\* the game any more, into slow motion as little as out of it.
OnlineIsLeftAlone ==
  game.online => game'.engine = game.engine /\ game'.slow = game.slow

\* A command that outlives its request does no lasting harm: the latched game is
\* left alone, and a world left in slow motion gets its speed back, though the
\* clip thread's slow motion can be applied after its restore, that restore can be
\* lost or refused, and so can the guard's own request.
LateCommandsDoNoHarm ==
  /\ [][OnlineIsLeftAlone]_bridgeVars
  /\ game.slow ~> (~game.slow \/ game.online)
=============================================================================
