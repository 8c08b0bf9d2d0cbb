---------------------------- MODULE BridgeProofs ----------------------------
(* Proofs about Bridge, for every number of HTTP threads and every queue   *)
(* limit; and about the ladders whose rungs are posted to it: Follower,    *)
(* for every sighting, Escapes, for every set of rooms and number of rungs *)
(* of a house, and Driving, for every poll.                                *)
EXTENDS Bridge, Follower, Escapes, Driving, FiniteSetTheorems, SequenceTheorems, TLAPS

-----------------------------------------------------------------------------
(* The inductive invariant                                                 *)

Commands == [kind : {"speed", "task"}, id : Nat, endless : BOOLEAN, slow : BOOLEAN]
Requests ==
  [at : {"free", "sent", "reserved", "overdrawn", "waiting", "answer"}, cmd : Commands,
   reply : {"none", "ok", "error"}]
Replies == {NoCall} \cup {<<t>> : t \in Threads}
Queued == [cmd : Commands, reply : Replies]
Engines ==
  [id : Nat, status : {"idle", "running", "done", "failed"}, endless : BOOLEAN]
Steps == [id : Nat, credit : BOOLEAN]
Downs == {"no", "dead", "busted", "scene"}
Games == [engine : Engines, slow : BOOLEAN, down : Downs, online : BOOLEAN]
Clients == [call : Replies, for : {"none", "guard", "step", "other"}, step : Steps]
ClipThreads == [at : {"idle", "slow", "normal"}, call : Replies]

BridgeTypeOK ==
  /\ threads \in [Threads -> Requests]
  /\ depth \in Nat
  /\ queue \in Seq(Queued)
  /\ game \in Games
  /\ shown \in [engine : Engines, slow : BOOLEAN, down : Downs]
  /\ client \in Clients
  /\ clip \in ClipThreads
  /\ ids \in Nat
  /\ used \in [mishaps : Nat, lost : Nat, clips : Nat]
  /\ ended \subseteq Nat

\* The threads inside TryEnqueue: those that have taken a slot and not yet used
\* it, and those that have raised the depth past the bound as well.
Reserving == {t \in Threads : threads[t].at = "reserved"}
Holding == {t \in Threads : threads[t].at \in {"reserved", "overdrawn"}}

\* The depth is what is in the queue and what is inside TryEnqueue; and every slot
\* taken below the bound is a queued command or a thread about to put one there.
SlotsCounted ==
  /\ depth = Len(queue) + Cardinality(Holding)
  /\ Len(queue) + Cardinality(Reserving) <= QueueLimit

\* A queued command answers a thread that waits for it, and no other command
\* answers the same thread: so no answer disturbs a thread that holds a slot.
RepliesWaited ==
  /\ \A i \in 1 .. Len(queue), t \in Threads :
       queue[i].reply = <<t>> => threads[t].at = "waiting"
  /\ \A i, j \in 1 .. Len(queue) :
       queue[i].reply = queue[j].reply /\ queue[i].reply # NoCall => i = j

\* What the snapshot shows as over, the engine has seen to its end.
EndsAreSeen ==
  /\ shown.engine.status \in {"done", "failed"} => shown.engine.id \in ended
  /\ StepsEndOnTheirOwn

BridgeInv == BridgeTypeOK /\ SlotsCounted /\ RepliesWaited /\ EndsAreSeen

-----------------------------------------------------------------------------
(* The operators                                                           *)

\* The answer, or the thread's return to the pool: it holds no slot.
LEMMA AnswerType ==
  ASSUME threads \in [Threads -> Requests], NEW t \in Threads,
         NEW r \in {"ok", "error"}
  PROVE  Answer(t, r) \in Requests /\ Answer(t, r).at \in {"answer", "free"}
  <1>1. Served \in Requests /\ Served.at = "free"
    BY DEF Served, Requests, Commands, Normal
  <1>2. /\ [threads[t] EXCEPT !.at = "answer", !.reply = r] \in Requests
        /\ [threads[t] EXCEPT !.at = "answer", !.reply = r].at = "answer"
    BY DEF Requests
  <1> QED
    BY <1>1, <1>2 DEF Answer

\* A function on an initial segment is a sequence.
LEMMA FunctionIsSeq ==
  ASSUME NEW S, NEW n \in Nat, NEW f \in [1 .. n -> S]
  PROVE  f \in Seq(S) /\ Len(f) = n
  OBVIOUS

\* A thread that was not inside TryEnqueue and does not enter it leaves the counts.
LEMMA HoldingSame ==
  ASSUME threads \in [Threads -> Requests], NEW t \in Threads, NEW r,
         threads[t].at \notin {"reserved", "overdrawn"},
         r.at \notin {"reserved", "overdrawn"},
         threads' = [threads EXCEPT ![t] = r]
  PROVE  Holding' = Holding /\ Reserving' = Reserving
  BY DEF Holding, Reserving

\* The threads inside TryEnqueue can be counted, and those with a slot among them.
LEMMA HoldingFinite ==
  /\ IsFiniteSet(Holding) /\ Cardinality(Holding) \in Nat
  /\ IsFiniteSet(Reserving) /\ Cardinality(Reserving) \in Nat
  /\ Cardinality(Reserving) <= Cardinality(Holding)
  <1>1. IsFiniteSet(Holding) /\ Reserving \subseteq Holding
    BY BridgeAssumption, FS_Subset DEF Holding, Reserving
  <1> QED
    BY <1>1, FS_Subset, FS_CardinalityType

\* A step is credited with the end of the very task the snapshot shows.
LEMMA SteppedType ==
  ASSUME NEW step \in Steps, NEW task \in Engines
  PROVE  /\ Stepped(step, task) \in Steps
         /\ Stepped(step, task).credit =>
              /\ task.status \in {"done", "failed"}
              /\ Stepped(step, task).id = task.id
  BY DEF Stepped, Steps, Engines, NoStep

-----------------------------------------------------------------------------
(* Every action preserves the invariant                                    *)

\* No slot is taken and nothing is shown at the start.
LEMMA BridgeInitInv == BridgeInit => BridgeInv
  <1> SUFFICES ASSUME BridgeInit PROVE BridgeInv
    OBVIOUS
  <1>1. Served \in Requests /\ Idle \in Engines /\ NoStep \in Steps
    BY DEF Served, Requests, Commands, Normal, Idle, Engines, NoStep, Steps
  <1>2. BridgeTypeOK
    BY <1>1 DEF BridgeInit, BridgeTypeOK, Replies, Games, Downs, Clients, ClipThreads
  <1>3. Holding = {} /\ Reserving = {}
    BY DEF BridgeInit, Holding, Reserving, Served
  <1>4. SlotsCounted
    BY <1>3, FS_EmptySet, BridgeAssumption DEF BridgeInit, SlotsCounted
  <1> QED
    BY <1>2, <1>4 DEF BridgeInit, BridgeInv, RepliesWaited, EndsAreSeen,
       StepsEndOnTheirOwn, Idle, NoStep

\* The depth counts the thread before it uses its slot, or finds there is none.
LEMMA RouteInv ==
  ASSUME BridgeInv, NEW t \in Threads, Route(t)
  PROVE  BridgeInv'
  <1> USE DEF BridgeInv
  <1>1. /\ threads \in [Threads -> Requests] /\ threads[t] \in Requests
        /\ threads[t].at = "sent" /\ threads[t].cmd \in Commands
        /\ UNCHANGED <<queue, game, shown, client, clip, used, ended>>
    BY DEF Route, BridgeTypeOK, Requests
  <1>2. ids' \in Nat
    BY DEF Route, BridgeTypeOK
  <1>3. CASE game.online
    <2>1. threads' = [threads EXCEPT ![t] = Answer(t, "error")] /\ depth' = depth
      BY <1>3 DEF Route
    <2>2. Answer(t, "error") \in Requests /\ Answer(t, "error").at \in {"answer", "free"}
      BY <1>1, AnswerType
    <2> HIDE DEF Answer
    <2>4. BridgeTypeOK'
      BY <1>1, <1>2, <2>1, <2>2 DEF BridgeTypeOK
    <2>5. SlotsCounted'
      BY <1>1, <2>1, <2>2, HoldingSame DEF SlotsCounted
    <2>6. RepliesWaited'
      BY <1>1, <2>1 DEF RepliesWaited
    <2> QED
      BY <1>1, <2>4, <2>5, <2>6 DEF EndsAreSeen, StepsEndOnTheirOwn
  <1>4. CASE ~game.online
    <2> DEFINE id == IF threads[t].cmd.kind = "task" THEN ids' ELSE 0
               at == IF HasSlot THEN "reserved" ELSE "overdrawn"
               r == [threads[t] EXCEPT !.cmd.id = id, !.at = at]
    <2>1. threads' = [threads EXCEPT ![t] = r] /\ depth' = depth + 1
      <3>1. depth' = depth + 1
        BY <1>4 DEF Route
      <3>2. threads' = [threads EXCEPT ![t].cmd.id = id, ![t].at = at]
        BY <1>4 DEF Route
      <3> QED
        BY <1>1, <3>1, <3>2
    <2>2. r \in Requests /\ r.at = at /\ at \in {"reserved", "overdrawn"}
      BY <1>1, <1>2 DEF Requests, Commands
    <2> HIDE DEF r, at
    <2>3. BridgeTypeOK'
      BY <1>1, <1>2, <2>1, <2>2 DEF BridgeTypeOK
    <2>4. Holding' = Holding \cup {t} /\ t \notin Holding
      BY <1>1, <2>1, <2>2 DEF Holding
    <2>5. Cardinality(Holding') = Cardinality(Holding) + 1
      BY <2>4, HoldingFinite, FS_AddElement
    <2>6. Len(queue') + Cardinality(Reserving') <= QueueLimit
      <3>1. CASE HasSlot
        <4>1. Reserving' = Reserving \cup {t} /\ t \notin Reserving
          BY <1>1, <2>1, <2>2, <3>1 DEF Reserving, at
        <4>2. Cardinality(Reserving') = Cardinality(Reserving) + 1
          BY <4>1, HoldingFinite, FS_AddElement
        <4>3. Len(queue) \in Nat /\ depth < QueueLimit
          BY <3>1, LenProperties DEF HasSlot, BridgeTypeOK
        <4> QED
          BY <1>1, <4>2, <4>3, HoldingFinite, BridgeAssumption DEF SlotsCounted
      <3>2. CASE ~HasSlot
        <4>1. Reserving' = Reserving
          BY <1>1, <2>1, <2>2, <3>2 DEF Reserving, at
        <4> QED
          BY <1>1, <4>1 DEF SlotsCounted
      <3> QED
        BY <3>1, <3>2
    <2>7. SlotsCounted'
      BY <1>1, <2>1, <2>5, <2>6, HoldingFinite, LenProperties
      DEF SlotsCounted, BridgeTypeOK
    <2>8. RepliesWaited'
      BY <1>1, <2>1 DEF RepliesWaited
    <2> QED
      BY <1>1, <2>3, <2>7, <2>8 DEF EndsAreSeen, StepsEndOnTheirOwn
  <1> QED
    BY <1>3, <1>4

\* What was raised past the bound is lowered again.
LEMMA RefuseInv ==
  ASSUME BridgeInv, NEW t \in Threads, Refuse(t)
  PROVE  BridgeInv'
  <1> USE DEF BridgeInv
  <1>1. /\ threads \in [Threads -> Requests] /\ threads[t].at = "overdrawn"
        /\ threads' = [threads EXCEPT ![t] = Answer(t, "error")]
        /\ depth' = depth - 1
        /\ UNCHANGED <<queue, game, shown, client, clip, ids, used, ended>>
    BY DEF Refuse, BridgeTypeOK
  <1>2. Answer(t, "error") \in Requests /\ Answer(t, "error").at \in {"answer", "free"}
    BY <1>1, AnswerType
  <1>3. /\ Holding' = Holding \ {t} /\ t \in Holding
        /\ Reserving' = Reserving
    BY <1>1, <1>2 DEF Holding, Reserving
  <1>4. Cardinality(Holding') = Cardinality(Holding) - 1 /\ Cardinality(Holding') \in Nat
    BY <1>3, HoldingFinite, FS_RemoveElement, FS_CardinalityType
  <1>5. Len(queue) \in Nat
    BY LenProperties DEF BridgeTypeOK
  <1>6. SlotsCounted' /\ depth' \in Nat
    BY <1>1, <1>3, <1>4, <1>5, HoldingFinite DEF SlotsCounted
  <1>7. BridgeTypeOK'
    BY <1>1, <1>2, <1>6 DEF BridgeTypeOK
  <1>8. RepliesWaited'
    BY <1>1 DEF RepliesWaited
  <1> QED
    BY <1>1, <1>6, <1>7, <1>8 DEF EndsAreSeen, StepsEndOnTheirOwn

\* The slot becomes a queued command; its thread waits, or is answered at once.
LEMMA EnqueueInv ==
  ASSUME BridgeInv, NEW t \in Threads, Enqueue(t)
  PROVE  BridgeInv'
  <1> USE DEF BridgeInv
  <1> DEFINE reply == IF threads[t].cmd.kind = "task" THEN NoCall ELSE <<t>>
             c == [cmd |-> threads[t].cmd, reply |-> reply]
             r == IF threads[t].cmd.kind = "task" THEN Answer(t, "ok")
                  ELSE [threads[t] EXCEPT !.at = "waiting"]
  <1>1. /\ threads \in [Threads -> Requests] /\ threads[t] \in Requests
        /\ threads[t].at = "reserved" /\ threads[t].cmd \in Commands
        /\ UNCHANGED <<depth, game, shown, client, clip, ids, used, ended>>
        /\ queue \in Seq(Queued)
    BY DEF Enqueue, BridgeTypeOK, Requests
  <1>2. queue' = Append(queue, c) /\ threads' = [threads EXCEPT ![t] = r]
    BY DEF Enqueue
  <1>3. c \in Queued /\ c.reply = reply
    BY <1>1 DEF Queued, Replies
  <1>4. /\ r \in Requests /\ r.at \notin {"reserved", "overdrawn"}
        /\ reply # NoCall => reply = <<t>> /\ r.at = "waiting"
    <2>1. CASE threads[t].cmd.kind = "task"
      BY <1>1, <2>1, AnswerType
    <2>2. CASE threads[t].cmd.kind # "task"
      BY <1>1, <2>2 DEF Requests
    <2> QED
      BY <2>1, <2>2
  <1> HIDE DEF c, r
  <1>5. BridgeTypeOK'
    BY <1>1, <1>2, <1>3, <1>4 DEF BridgeTypeOK
  <1>6. /\ Len(queue') = Len(queue) + 1
        /\ \A i \in 1 .. Len(queue) : queue'[i] = queue[i]
        /\ queue'[Len(queue) + 1] = c
        /\ Len(queue) \in Nat
    BY <1>1, <1>2, <1>3
  <1>7. SlotsCounted'
    <2>1. /\ Holding' = Holding \ {t} /\ t \in Holding
          /\ Reserving' = Reserving \ {t} /\ t \in Reserving
      BY <1>1, <1>2, <1>4 DEF Holding, Reserving
    <2>2. /\ Cardinality(Holding') = Cardinality(Holding) - 1
          /\ Cardinality(Reserving') = Cardinality(Reserving) - 1
      BY <2>1, HoldingFinite, FS_RemoveElement
    <2> QED
      BY <1>1, <1>6, <2>2, HoldingFinite DEF SlotsCounted
  <1>8. \A i \in 1 .. Len(queue) : queue[i].reply # <<t>>
    BY <1>1 DEF RepliesWaited
  <1>9. RepliesWaited'
    <2>1. ASSUME NEW i \in 1 .. Len(queue'), NEW u \in Threads,
                 queue'[i].reply = <<u>>
          PROVE  threads'[u].at = "waiting"
      <3>1. CASE i \in 1 .. Len(queue)
        <4>1. u # t /\ threads[u].at = "waiting"
          BY <1>6, <1>8, <2>1, <3>1 DEF RepliesWaited
        <4> QED
          BY <1>1, <1>2, <4>1
      <3>2. CASE i = Len(queue) + 1
        <4>1. reply = <<u>>
          BY <1>3, <1>6, <2>1, <3>2
        <4>2. u = t /\ reply # NoCall
          BY <4>1 DEF NoCall
        <4> QED
          BY <1>1, <1>2, <1>4, <4>2
      <3> QED
        BY <1>6, <3>1, <3>2
    <2>2. ASSUME NEW i \in 1 .. Len(queue'), NEW j \in 1 .. Len(queue'),
                 queue'[i].reply = queue'[j].reply, queue'[i].reply # NoCall
          PROVE  i = j
      <3>1. CASE i \in 1 .. Len(queue) /\ j \in 1 .. Len(queue)
        BY <1>6, <2>2, <3>1 DEF RepliesWaited
      <3>2. CASE i \in 1 .. Len(queue) /\ j = Len(queue) + 1
        BY <1>3, <1>4, <1>6, <1>8, <2>2, <3>2
      <3>3. CASE i = Len(queue) + 1 /\ j \in 1 .. Len(queue)
        BY <1>3, <1>4, <1>6, <1>8, <2>2, <3>3
      <3> QED
        BY <1>6, <3>1, <3>2, <3>3
    <2> QED
      BY <2>1, <2>2 DEF RepliesWaited
  <1> QED
    BY <1>1, <1>5, <1>7, <1>9 DEF EndsAreSeen, StepsEndOnTheirOwn

\* The command keeps its slot, and answers nobody any more.
LEMMA AbandonInv ==
  ASSUME BridgeInv, NEW t \in Threads, Abandon(t)
  PROVE  BridgeInv'
  <1> USE DEF BridgeInv
  <1>1. /\ threads \in [Threads -> Requests] /\ threads[t].at = "waiting"
        /\ UNCHANGED <<depth, game, shown, client, clip, ids, used, ended>>
        /\ queue \in Seq(Queued) /\ Len(queue) \in Nat
        /\ DOMAIN queue = 1 .. Len(queue)
        /\ threads' = [threads EXCEPT ![t] = Answer(t, "error")]
    BY LenProperties DEF Abandon, BridgeTypeOK
  <1>2. Answer(t, "error") \in Requests /\ Answer(t, "error").at \in {"answer", "free"}
    BY <1>1, AnswerType
  <1> DEFINE e(i) == IF queue[i].reply = <<t>> THEN [queue[i] EXCEPT !.reply = NoCall]
                     ELSE queue[i]
  <1>3. queue' = [i \in 1 .. Len(queue) |-> e(i)]
    BY <1>1 DEF Abandon
  <1>4. \A i \in 1 .. Len(queue) :
          /\ e(i) \in Queued
          /\ e(i).reply = IF queue[i].reply = <<t>> THEN NoCall ELSE queue[i].reply
    <2> SUFFICES ASSUME NEW i \in 1 .. Len(queue)
                 PROVE  /\ e(i) \in Queued
                        /\ e(i).reply = IF queue[i].reply = <<t>> THEN NoCall
                                        ELSE queue[i].reply
      OBVIOUS
    <2>1. queue[i] \in Queued
      BY <1>1, ElementOfSeq
    <2> QED
      BY <2>1 DEF Queued, Replies
  <1> HIDE DEF e
  <1>5. queue' \in Seq(Queued) /\ Len(queue') = Len(queue)
    <2>1. queue' \in [1 .. Len(queue) -> Queued]
      BY <1>3, <1>4
    <2> QED
      BY <1>1, <2>1, FunctionIsSeq
  <1>6. BridgeTypeOK'
    BY <1>1, <1>2, <1>5 DEF BridgeTypeOK
  <1>7. SlotsCounted'
    BY <1>1, <1>2, <1>5, HoldingSame DEF SlotsCounted
  <1>8. RepliesWaited'
    <2>1. ASSUME NEW i \in 1 .. Len(queue), NEW u \in Threads, e(i).reply = <<u>>
          PROVE  threads'[u].at = "waiting"
      <3>1. <<u>> # NoCall
        BY DEF NoCall
      <3>2. queue[i].reply = <<u>> /\ <<u>> # <<t>>
        BY <1>4, <2>1, <3>1
      <3> QED
        BY <1>1, <3>2 DEF RepliesWaited
    <2>2. ASSUME NEW i \in 1 .. Len(queue), NEW j \in 1 .. Len(queue),
                 e(i).reply = e(j).reply, e(i).reply # NoCall
          PROVE  i = j
      BY <1>4, <2>2 DEF RepliesWaited
    <2> QED
      BY <1>3, <1>5, <2>1, <2>2 DEF RepliesWaited
  <1> QED
    BY <1>1, <1>6, <1>7, <1>8 DEF EndsAreSeen, StepsEndOnTheirOwn

\* The head gives its slot back, and answers the thread that waits, if any.
LEMMA DrainInv ==
  ASSUME BridgeInv, Drain
  PROVE  BridgeInv'
  <1> USE DEF BridgeInv
  <1> DEFINE head == Head(queue)
  <1>1. /\ queue \in Seq(Queued) /\ queue # <<>> /\ queue' = Tail(queue)
        /\ depth' = depth - 1 /\ game' = DrainedBy(head.cmd)
        /\ UNCHANGED <<shown, client, clip, ids, used, ended>>
        /\ threads \in [Threads -> Requests]
    BY DEF Drain, BridgeTypeOK
  <1>2. /\ head \in Queued /\ head = queue[1]
        /\ Len(queue) \in Nat \ {0}
        /\ queue' \in Seq(Queued) /\ Len(queue') = Len(queue) - 1
        /\ \A i \in 1 .. Len(queue') : queue'[i] = queue[i + 1]
    BY <1>1, HeadTailProperties, EmptySeq
  <1> HIDE DEF head
  <1>3. game' \in Games
    <2>1. head.cmd \in Commands
      BY <1>2 DEF Queued
    <2> QED
      BY <1>1, <2>1 DEF BridgeTypeOK, DrainedBy, Applied, Engines, Commands, Games
  <1>6. /\ depth - 1 \in Nat
        /\ Len(queue') + Cardinality(Reserving) <= QueueLimit
    BY <1>2, HoldingFinite, BridgeAssumption DEF SlotsCounted
  <1>7. ASSUME Holding' = Holding, Reserving' = Reserving
        PROVE  SlotsCounted'
    <2>1. depth = Len(queue) + Cardinality(Holding) /\ depth' = depth - 1
      BY <1>1 DEF SlotsCounted
    <2>2. depth' = Len(queue') + Cardinality(Holding)
      BY <1>2, <2>1, HoldingFinite
    <2> QED
      BY <1>6, <1>7, <2>1, <2>2 DEF SlotsCounted
  <1>8. \A i \in 1 .. Len(queue') : i + 1 \in 1 .. Len(queue) /\ queue'[i] = queue[i + 1]
    BY <1>2
  <1>4. CASE head.reply = NoCall
    <2>1. threads' = threads
      BY <1>4 DEF Drain, head
    <2>2. Holding' = Holding /\ Reserving' = Reserving
      BY <2>1 DEF Holding, Reserving
    <2>3. SlotsCounted'
      BY <1>7, <2>2
    <2>4. BridgeTypeOK'
      BY <1>1, <1>2, <1>3, <1>6, <2>1 DEF BridgeTypeOK
    <2>5. RepliesWaited'
      <3>1. \A i \in 1 .. Len(queue'), u \in Threads :
              queue'[i].reply = <<u>> => threads'[u].at = "waiting"
        BY <1>8, <2>1 DEF RepliesWaited
      <3>2. ASSUME NEW i \in 1 .. Len(queue'), NEW j \in 1 .. Len(queue'),
                   queue'[i].reply = queue'[j].reply, queue'[i].reply # NoCall
            PROVE  i = j
        <4>1. i + 1 = j + 1
          BY <1>8, <3>2 DEF RepliesWaited
        <4> QED
          BY <4>1
      <3> QED
        BY <3>1, <3>2 DEF RepliesWaited
    <2> QED
      BY <1>1, <2>3, <2>4, <2>5 DEF EndsAreSeen, StepsEndOnTheirOwn
  <1>5. CASE head.reply # NoCall
    <2>1. PICK t \in Threads : head.reply = <<t>>
      BY <1>2, <1>5 DEF Queued, Replies
    <2>2. PICK r \in {"error", "ok"} : threads' = [threads EXCEPT ![t] = Answer(t, r)]
      <3>1. head.reply[1] = t
        BY <2>1
      <3>2. threads' = [threads EXCEPT ![t] = Answer(t, IF game.online THEN "error" ELSE "ok")]
        BY <1>5, <3>1 DEF Drain, head
      <3> QED
        BY <3>2, Zenon
    <2>3. Answer(t, r) \in Requests /\ Answer(t, r).at \in {"answer", "free"}
      BY <1>1, AnswerType
    <2>4. threads[t].at = "waiting"
      BY <1>2, <2>1 DEF RepliesWaited
    <2>5. Holding' = Holding /\ Reserving' = Reserving
      BY <1>1, <2>2, <2>3, <2>4, HoldingSame
    <2>6. SlotsCounted'
      BY <1>7, <2>5
    <2>7. BridgeTypeOK'
      BY <1>1, <1>2, <1>3, <1>6, <2>2, <2>3 DEF BridgeTypeOK
    <2>8. RepliesWaited'
      <3>1. ASSUME NEW i \in 1 .. Len(queue')
            PROVE  queue'[i].reply # <<t>>
        <4>1. 1 \in 1 .. Len(queue) /\ i + 1 # 1
          BY <1>2
        <4>2. queue[1].reply = <<t>> /\ queue[1].reply # NoCall
          BY <1>2, <1>5, <2>1
        <4> QED
          BY <1>8, <4>1, <4>2 DEF RepliesWaited
      <3>2. ASSUME NEW i \in 1 .. Len(queue'), NEW u \in Threads,
                   queue'[i].reply = <<u>>
            PROVE  threads'[u].at = "waiting"
        <4>1. u # t /\ threads[u].at = "waiting"
          BY <1>8, <3>1, <3>2 DEF RepliesWaited
        <4> QED
          BY <1>1, <2>2, <4>1
      <3>3. ASSUME NEW i \in 1 .. Len(queue'), NEW j \in 1 .. Len(queue'),
                   queue'[i].reply = queue'[j].reply, queue'[i].reply # NoCall
            PROVE  i = j
        <4>1. i + 1 = j + 1
          BY <1>8, <3>3 DEF RepliesWaited
        <4> QED
          BY <4>1
      <3> QED
        BY <3>2, <3>3 DEF RepliesWaited
    <2> QED
      BY <1>1, <2>6, <2>7, <2>8 DEF EndsAreSeen, StepsEndOnTheirOwn
  <1> QED
    BY <1>4, <1>5

\* What touches neither the slots nor the threads.
LEMMA QueueUntouched ==
  ASSUME BridgeInv, UNCHANGED <<threads, depth, queue>>
  PROVE  SlotsCounted' /\ RepliesWaited'
  <1>1. Holding' = Holding /\ Reserving' = Reserving
    BY DEF Holding, Reserving
  <1> QED
    BY <1>1 DEF BridgeInv, SlotsCounted, RepliesWaited

\* The game thread's own steps and the world's: the snapshot and the set of
\* tasks seen to their end move together.
LEMMA GameInv ==
  ASSUME BridgeInv, Publish \/ Latch \/ World \/ Respawn
  PROVE  BridgeInv'
  <1> USE DEF BridgeInv
  <1>1. UNCHANGED <<threads, depth, queue, client, clip, ids>>
    BY DEF Publish, Latch, World, Respawn
  <1>2. SlotsCounted' /\ RepliesWaited'
    BY <1>1, QueueUntouched
  <1>3. CASE Publish
    <2>1. PICK e \in TaskUpdated(game.engine) :
            /\ game' = [game EXCEPT !.engine = e]
            /\ shown' = [engine |-> e, slow |-> game.slow, down |-> game.down]
            /\ ended' = ended \cup (IF e.status \in {"done", "failed"} THEN {e.id} ELSE {})
      BY <1>3 DEF Publish
    <2>2. e \in Engines
      BY DEF TaskUpdated, BridgeTypeOK, Engines, Games
    <2>3. used' = used
      BY <1>3 DEF Publish
    <2>4. BridgeTypeOK'
      BY <1>1, <2>1, <2>2, <2>3 DEF BridgeTypeOK, Engines, Games
    <2>5. EndsAreSeen'
      BY <1>1, <2>1 DEF EndsAreSeen, StepsEndOnTheirOwn
    <2> QED
      BY <1>2, <2>4, <2>5
  <1>4. CASE Latch \/ World \/ Respawn
    <2>1. game \in Games /\ used \in [mishaps : Nat, lost : Nat, clips : Nat]
      BY DEF BridgeTypeOK
    <2>2. shown' = shown /\ ended' = ended
      BY <1>4 DEF Latch, World, Respawn
    <2>3. used' \in [mishaps : Nat, lost : Nat, clips : Nat]
      BY <1>4, <2>1 DEF Latch, World, Respawn
    <2>4. game' \in Games
      <3>1. CASE Latch
        BY <2>1, <3>1 DEF Latch, Games
      <3>2. CASE World
        BY <2>1, <3>2 DEF World, Games, Downs, Fallen, Silent
      <3>3. CASE Respawn
        BY <2>1, <3>3 DEF Respawn, Games, Downs
      <3> QED
        BY <1>4, <3>1, <3>2, <3>3
    <2> QED
      BY <1>1, <1>2, <2>2, <2>3, <2>4 DEF BridgeTypeOK, EndsAreSeen, StepsEndOnTheirOwn
  <1> QED
    BY <1>3, <1>4

\* A call occupies a free thread, whoever makes it.
LEMMA SentInv ==
  ASSUME BridgeInv, NEW cmd \in Commands, NEW t \in Threads, Sent(t, cmd),
         UNCHANGED <<depth, queue>>
  PROVE  threads' \in [Threads -> Requests] /\ SlotsCounted' /\ RepliesWaited'
  <1> USE DEF BridgeInv
  <1> DEFINE r == [Served EXCEPT !.at = "sent", !.cmd = cmd]
  <1>1. /\ threads[t].at = "free" /\ threads' = [threads EXCEPT ![t] = r]
        /\ threads \in [Threads -> Requests]
    BY DEF Sent, BridgeTypeOK
  <1>2. r \in Requests /\ r.at = "sent"
    BY DEF Served, Requests, Commands, Normal
  <1> HIDE DEF r
  <1>3. SlotsCounted'
    BY <1>1, <1>2, HoldingSame DEF SlotsCounted
  <1>4. RepliesWaited'
    BY <1>1 DEF RepliesWaited
  <1> QED
    BY <1>1, <1>2, <1>3, <1>4

\* A call of the loop, with what the tick has made of the step.
LEMMA CallsInv ==
  ASSUME BridgeInv, NEW cmd \in Commands, NEW for \in {"guard", "step", "other"},
         NEW step \in Steps, step.credit => step.id \in ended,
         Calls(cmd, for, step),
         UNCHANGED <<depth, queue, game, shown, clip, ids, used, ended>>
  PROVE  BridgeInv'
  <1> USE DEF BridgeInv
  <1>1. PICK t \in Threads :
          Sent(t, cmd) /\ client' = [call |-> <<t>>, for |-> for, step |-> step]
    BY DEF Calls
  <1>2. threads' \in [Threads -> Requests] /\ SlotsCounted' /\ RepliesWaited'
    BY <1>1, SentInv
  <1>3. client' \in Clients
    BY <1>1 DEF Replies, Clients
  <1>4. BridgeTypeOK'
    BY <1>2, <1>3 DEF BridgeTypeOK
  <1> QED
    BY <1>1, <1>2, <1>4 DEF EndsAreSeen, StepsEndOnTheirOwn

\* The clip thread's calls, beside the loop's.
LEMMA ClipInv ==
  ASSUME BridgeInv, ClipStarts \/ ClipRestores
  PROVE  BridgeInv'
  <1> USE DEF BridgeInv
  <1>1. /\ UNCHANGED <<depth, queue, game, shown, client, ids, ended>>
        /\ used' \in [mishaps : Nat, lost : Nat, clips : Nat]
    BY DEF ClipStarts, ClipRestores, BridgeTypeOK
  <1>2. SlowMotion \in Commands /\ Normal \in Commands
    BY DEF SlowMotion, Normal, Commands
  <1>3. PICK t \in Threads, cmd \in Commands : Sent(t, cmd) /\ clip' \in ClipThreads
    <2>1. CASE ClipStarts
      <3>1. PICK t \in Threads : Sent(t, SlowMotion) /\ clip' = [at |-> "slow", call |-> <<t>>]
        BY <2>1 DEF ClipStarts
      <3> QED
        BY <1>2, <3>1 DEF ClipThreads, Replies
    <2>2. CASE ClipRestores
      <3>1. PICK t \in Threads : Sent(t, Normal) /\ clip' = [clip EXCEPT !.call = <<t>>]
        BY <2>2 DEF ClipRestores
      <3> QED
        BY <1>2, <3>1 DEF ClipThreads, Replies, BridgeTypeOK
    <2> QED
      BY <2>1, <2>2
  <1>4. threads' \in [Threads -> Requests] /\ SlotsCounted' /\ RepliesWaited'
    BY <1>1, <1>3, SentInv
  <1>5. BridgeTypeOK'
    BY <1>1, <1>3, <1>4 DEF BridgeTypeOK
  <1> QED
    BY <1>1, <1>4, <1>5 DEF EndsAreSeen, StepsEndOnTheirOwn

\* A tick credits a step only from the snapshot; giving up leaves it alone.
LEMMA HarnessInv ==
  ASSUME BridgeInv, GuardAsks \/ Drive \/ GiveUp
  PROVE  BridgeInv'
  <1> USE DEF BridgeInv
  <1>1. NoStep \in Steps /\ ~NoStep.credit /\ Normal \in Commands
    BY DEF NoStep, Steps, Normal, Commands
  <1>2. /\ client.step \in Steps /\ shown.engine \in Engines
    BY DEF BridgeTypeOK, Clients
  <1> DEFINE s == Stepped(client.step, shown.engine)
  <1>3. s \in Steps /\ (s.credit => s.id \in ended)
    BY <1>2, SteppedType DEF EndsAreSeen
  <1> HIDE DEF s
  <1>4. CASE GuardAsks
    BY <1>1, <1>3, <1>4, CallsInv DEF GuardAsks, s
  <1>5. CASE Drive
    <2>1. UNCHANGED <<depth, queue, game, shown, clip, ids, used, ended>>
      BY <1>5 DEF Drive
    <2>2. PICK step \in {s, NoStep} :
            \/ /\ client' = [client EXCEPT !.step = step]
               /\ UNCHANGED threads
            \/ Calls(Task(FALSE), "step", NoStep)
            \/ Calls(Task(TRUE), "other", NoStep)
      BY <1>5 DEF Drive, s
    <2>3. CASE client' = [client EXCEPT !.step = step] /\ UNCHANGED threads
      <3>1. SlotsCounted' /\ RepliesWaited'
        BY <2>1, <2>3, QueueUntouched
      <3>2. BridgeTypeOK'
        BY <1>1, <1>3, <2>1, <2>3 DEF BridgeTypeOK, Clients
      <3>3. client'.step = step
        BY <2>3 DEF BridgeTypeOK, Clients
      <3> QED
        BY <1>1, <1>3, <2>1, <3>1, <3>2, <3>3 DEF EndsAreSeen, StepsEndOnTheirOwn
    <2>4. ASSUME NEW endless \in BOOLEAN, NEW for \in {"step", "other"},
                 Calls(Task(endless), for, NoStep)
          PROVE  BridgeInv'
      <3>1. Task(endless) \in Commands
        BY DEF Task, Commands
      <3> QED
        BY <1>1, <2>1, <2>4, <3>1, CallsInv
    <2> QED
      BY <2>2, <2>3, <2>4
  <1>6. CASE GiveUp
    <2>1. SlotsCounted' /\ RepliesWaited'
      BY <1>6, QueueUntouched DEF GiveUp
    <2>2. UNCHANGED <<threads, depth, queue, game, shown, ids, ended>>
      BY <1>6 DEF GiveUp
    <2>3. used' \in [mishaps : Nat, lost : Nat, clips : Nat]
      BY <1>6 DEF GiveUp, BridgeTypeOK
    <2>4. /\ client' \in Clients /\ clip' \in ClipThreads
          /\ client'.step = client.step
      <3>1. \/ client' = [client EXCEPT !.call = NoCall, !.for = "none"] /\ UNCHANGED clip
            \/ ClipGoesOn /\ UNCHANGED client
        BY <1>6 DEF GiveUp
      <3>2. client \in Clients /\ clip \in ClipThreads
        BY DEF BridgeTypeOK
      <3>3. CASE client' = [client EXCEPT !.call = NoCall, !.for = "none"] /\ UNCHANGED clip
        BY <3>2, <3>3 DEF Clients, Replies
      <3>4. CASE ClipGoesOn /\ UNCHANGED client
        BY <3>2, <3>4 DEF ClipGoesOn, ClipThreads, Replies
      <3> QED
        BY <3>1, <3>3, <3>4
    <2>5. BridgeTypeOK'
      BY <2>2, <2>3, <2>4 DEF BridgeTypeOK
    <2> QED
      BY <2>1, <2>2, <2>4, <2>5 DEF EndsAreSeen, StepsEndOnTheirOwn
  <1> QED
    BY <1>4, <1>5, <1>6

\* The 202 binds a step that has no credit yet; any other answer binds nothing.
LEMMA HearInv ==
  ASSUME BridgeInv, NEW t \in Threads, Hear(t)
  PROVE  BridgeInv'
  <1> USE DEF BridgeInv
  <1>1. /\ threads \in [Threads -> Requests] /\ threads[t].at = "answer"
        /\ threads' = [threads EXCEPT ![t] = Served]
        /\ UNCHANGED <<depth, queue, game, shown, ids, used, ended>>
    BY DEF Hear, BridgeTypeOK
  <1>2. Served \in Requests /\ Served.at = "free"
    BY DEF Served, Requests, Commands, Normal
  <1>3. /\ client' \in Clients /\ clip' \in ClipThreads
        /\ client'.step.credit => client'.step = client.step
    <2>1. [id |-> threads[t].cmd.id, credit |-> FALSE] \in Steps
      BY <1>1 DEF Requests, Commands, Steps
    <2>2. client \in Clients /\ clip \in ClipThreads
      BY DEF BridgeTypeOK
    <2>3. CASE client.call = <<t>> /\ UNCHANGED clip /\ client' = [call |-> NoCall, for |-> "none",
                 step |-> IF client.for = "step" /\ threads[t].reply = "ok"
                            THEN [id |-> threads[t].cmd.id, credit |-> FALSE] ELSE client.step]
      BY <2>1, <2>2, <2>3 DEF Clients, Replies
    <2>4. CASE ClipGoesOn /\ UNCHANGED client
      BY <2>2, <2>4 DEF ClipGoesOn, ClipThreads, Replies
    <2> QED
      BY <2>3, <2>4 DEF Hear
  <1>4. BridgeTypeOK'
    BY <1>1, <1>2, <1>3 DEF BridgeTypeOK
  <1>5. SlotsCounted'
    BY <1>1, <1>2, HoldingSame DEF SlotsCounted
  <1>6. RepliesWaited'
    BY <1>1 DEF RepliesWaited
  <1> QED
    BY <1>1, <1>3, <1>4, <1>5, <1>6 DEF EndsAreSeen, StepsEndOnTheirOwn

\* Every step of the system preserves it.
LEMMA BridgeStepInv ==
  ASSUME BridgeInv, [BridgeNext]_bridgeVars
  PROVE  BridgeInv'
  <1>1. ASSUME NEW t \in Threads, Http(t)
        PROVE  BridgeInv'
    BY <1>1, RouteInv, RefuseInv, EnqueueInv, AbandonInv, HearInv DEF Http
  <1>2. CASE Drain
    BY <1>2, DrainInv
  <1>3. CASE Publish \/ Latch \/ World \/ Respawn
    BY <1>3, GameInv
  <1>4. CASE GuardAsks \/ Drive \/ GiveUp
    BY <1>4, HarnessInv
  <1>5. CASE ClipStarts \/ ClipRestores
    BY <1>5, ClipInv
  <1>6. CASE UNCHANGED bridgeVars
    BY <1>6 DEF bridgeVars, BridgeInv, BridgeTypeOK, SlotsCounted, Holding, Reserving,
       RepliesWaited, EndsAreSeen, StepsEndOnTheirOwn
  <1> QED
    BY <1>1, <1>2, <1>3, <1>4, <1>5, <1>6 DEF BridgeNext

-----------------------------------------------------------------------------
(* The theorems                                                            *)

\* Slots and queued commands tally, answers go to the threads that wait for
\* them, and what the snapshot shows as over has been seen to its end
\* (BridgeShared.TryEnqueue and its drain, TaskEngine.Update).
THEOREM BridgeInvariance == BridgeSpec => []BridgeInv
  <1> QED
    BY BridgeInitInv, BridgeStepInv, PTL DEF BridgeSpec

\* However many requests race for the last slot, no more than MaxQueueDepth
\* commands are queued, the reported depth never says fewer, and no slot is kept
\* by nobody: with nothing queued and nobody inside TryEnqueue the depth is 0
\* (BridgeShared.TryEnqueue reserves the slot before it enqueues).
THEOREM QueueStaysBounded == BridgeSpec => []QueueIsBounded
  <1>1. BridgeInv => QueueIsBounded
    <2> SUFFICES ASSUME BridgeInv PROVE QueueIsBounded
      OBVIOUS
    <2>1. Len(queue) \in Nat
      BY LenProperties DEF BridgeInv, BridgeTypeOK
    <2>2. Len(queue) <= QueueLimit /\ Len(queue) <= depth
      BY <2>1, HoldingFinite, BridgeAssumption DEF BridgeInv, SlotsCounted
    <2>3. ASSUME queue = <<>>, \A t \in Threads : threads[t].at \notin {"reserved", "overdrawn"}
          PROVE  depth = 0
      <3>1. Holding = {} /\ Len(queue) = 0
        BY <2>3 DEF Holding
      <3> QED
        BY <3>1, FS_EmptySet DEF BridgeInv, SlotsCounted
    <2> QED
      BY <2>2, <2>3 DEF QueueIsBounded
  <1> QED
    BY <1>1, BridgeInvariance, PTL

\* A goal's step is only credited with the end of its own task, however the
\* posts, the publishes and the other owners' tasks interleave (next_step of
\* activities.py against TaskEngine's one slot).
THEOREM StepsAreCreditedTruly == BridgeSpec => []StepsEndOnTheirOwn
  <1>1. BridgeInv => StepsEndOnTheirOwn
    BY DEF BridgeInv, EndsAreSeen
  <1> QED
    BY <1>1, BridgeInvariance, PTL

\* After the latch nothing that is still queued or in flight moves the game, into
\* slow motion as little as out of it
\* (RejectQueuedCommands of WastedBridgeScript.cs): the safety half of
\* LateCommandsDoNoHarm.
THEOREM NothingMovesTheLatchedGame ==
  BridgeSpec => [][OnlineIsLeftAlone]_bridgeVars
  <1>1. ASSUME BridgeInv, [BridgeNext]_bridgeVars
        PROVE  [OnlineIsLeftAlone]_bridgeVars
    <2> SUFFICES ASSUME game.online
                 PROVE  game'.engine = game.engine /\ game'.slow = game.slow
      BY DEF OnlineIsLeftAlone
    <2>1. game \in Games
      BY <1>1 DEF BridgeInv, BridgeTypeOK
    <2>2. CASE \/ \E t \in Threads : Http(t)
               \/ GuardAsks \/ ClipStarts \/ ClipRestores \/ Drive \/ GiveUp
               \/ UNCHANGED bridgeVars
      BY <2>2 DEF Http, Route, Refuse, Enqueue, Abandon, Hear, GuardAsks, ClipStarts,
         ClipRestores, Drive, GiveUp, bridgeVars
    <2>3. CASE Drain
      BY <2>3 DEF Drain, DrainedBy
    <2>4. CASE Publish \/ Latch \/ World
      BY <2>4 DEF Publish, Latch, World
    <2>5. CASE Respawn
      BY <2>1, <2>5 DEF Respawn, Games
    <2> QED
      BY <1>1, <2>2, <2>3, <2>4, <2>5 DEF BridgeNext
  <1> QED
    BY <1>1, BridgeInvariance, PTL DEF BridgeSpec
-----------------------------------------------------------------------------
(* The mission follower                                                    *)

USE DEF Nobody

Clocks == {Nobody, "new", "old"}
Handles == {Nobody} \cup {o.handle : o \in Dots}
Signatures == {<<>>, <<"car">>} \cup {<<w, o.handle, o.car>> : w \in {"tail", "chase"}, o \in Dots}
EarlyRungs == {"vehicle_handoff", "nearest_vehicle", "reacquire"}

Followers ==
  [mode : {"idle", "blip", "follow"}, changed : BOOLEAN, bound : BOOLEAN,
   chasing : BOOLEAN, age : {"new", "old"}, handle : Handles, lost : Clocks,
   held : Clocks, tried : SUBSET EarlyRungs, paced : BOOLEAN, gap : Clocks,
   stall : Clocks \cup {"off"}, rested : BOOLEAN, sig : Signatures,
   place : BOOLEAN, ride : BOOLEAN]

\* A lost companion is one who was followed, and the rung that gives him up is
\* still to come; no ladder belongs to nobody.
FollowInv ==
  /\ foll \in Followers
  /\ foll.lost # Nobody => foll.handle # Nobody /\ foll.held = Nobody
  /\ foll.tried # {} => foll.handle # Nobody

\* A rung is tried once in a ladder and after the gap.  A ladder is forgotten only for
\* another companion or none, or once this one has been held for the whole
\* window; and it is given up only when every rung that has its data was tried.
LadderIsSpent ==
  /\ foll.lost # Nobody /\ foll'.lost # Nobody =>
       foll'.handle = foll.handle /\ foll.tried \subseteq foll'.tried
  /\ ~(foll'.tried \subseteq foll.tried) =>
       /\ foll.paced /\ ~foll'.paced
       /\ \E r \in EarlyRungs \ foll.tried : foll'.tried = foll.tried \cup {r} /\ out' = r
  /\ ~(foll.tried \subseteq foll'.tried) =>
       foll'.tried = {} /\ (foll.held = "old" \/ foll'.handle # foll.handle)
  /\ foll.lost # Nobody /\ foll'.lost = Nobody /\ out' = "exhausted" =>
       /\ foll.lost = "old"
       /\ foll.ride => "vehicle_handoff" \in foll.tried
       /\ foll.place => "reacquire" \in foll.tried

\* g has f's companion and f's ladder.
SameTail(f, g) ==
  /\ g \in Followers
  /\ g.handle = f.handle /\ g.lost = f.lost /\ g.held = f.held
  /\ g.tried = f.tried /\ g.paced = f.paced

\* f follows nobody.
Alone(f) ==
  /\ f \in Followers
  /\ f.handle = Nobody /\ f.lost = Nobody /\ f.held = Nobody /\ f.tried = {}

LEMMA TailEnds ==
    ASSUME NEW f \in Followers
    PROVE  /\ Alone(EndFollow(f)) /\ Alone(Reset(f))
           /\ EndFollow(f).bound = f.bound
  <1> DEFINE e == [f EXCEPT !.handle = Nobody, !.lost = Nobody, !.gap = Nobody, !.sig = <<>>,
                            !.stall = Nobody, !.place = FALSE, !.ride = FALSE]
  <1>0. <<>> \in Signatures /\ Nobody \in Handles
    BY DEF Signatures, Handles
  <1>1. Alone(EndFollow(f)) /\ EndFollow(f).bound = f.bound
    <2>1. e \in Followers /\ e.handle = Nobody /\ e.lost = Nobody /\ e.bound = f.bound
      BY <1>0 DEF Followers, Clocks
    <2>2. EndFollow(f) = FreshLadder(e)
      BY DEF EndFollow
    <2> HIDE DEF e
    <2>3. FreshLadder(e) \in Followers
      BY <2>1 DEF FreshLadder, Followers, Clocks
    <2>4. /\ FreshLadder(e).handle = Nobody /\ FreshLadder(e).lost = Nobody
          /\ FreshLadder(e).held = Nobody /\ FreshLadder(e).tried = {}
          /\ FreshLadder(e).bound = f.bound
      BY <2>1 DEF FreshLadder, Followers
    <2> QED
      BY <2>2, <2>3, <2>4 DEF Alone
  <1>2. Alone(Reset(f))
    BY <1>1 DEF Reset, ForgetBlip, Alone, Followers
  <1> QED
    BY <1>1, <1>2

LEMMA TailKept ==
    ASSUME NEW f \in Followers, NEW p \in Posts, NEW mine \in BOOLEAN, NEW running \in BOOLEAN
    PROVE  /\ SameTail(f, Posted(f, p)) /\ SameTail(f, Looked(f, mine, running))
  BY DEF SameTail, Posted, Looked, Posts, Followers

LEMMA ModesSet ==
    ASSUME NEW f \in Followers, NEW m \in {"idle", "blip", "follow"}
    PROVE  /\ SameTail(f, SetMode(f, m)) /\ SameTail(f, ForgetBlip(f))
           /\ SetMode(f, m).ride = f.ride /\ SetMode(f, m).place = f.place
           /\ ForgetBlip(f).ride = f.ride /\ ForgetBlip(f).place = f.place
  BY DEF SameTail, SetMode, ForgetBlip, Followers

\* What a poll posts, or leaves, is of the follower it was worked out for.
LEMMA GivesSame ==
    ASSUME NEW f \in Followers, NEW what,
           NEW mine \in BOOLEAN, NEW running \in BOOLEAN,
           \/ Give(f, what) \/ Hold(f) \/ GiveUnlessBusy(f, mine, running, what)
    PROVE  SameTail(f, foll') /\ out' \in {what, Nobody}
  <1>1. \A g \in Followers : Give(g, what) => SameTail(g, foll') /\ out' = what
    BY TailKept DEF Give
  <1>2. \A g \in Followers : Hold(g) => SameTail(g, foll') /\ out' = Nobody
    BY DEF Hold, SameTail
  <1>3. SameTail(f, Looked(f, mine, running))
    BY TailKept DEF Posts
  <1> QED
    BY <1>1, <1>2, <1>3 DEF GiveUnlessBusy, SameTail

\* He stands back, or is after the marker: nobody is followed.
LEMMA LetsGo ==
    ASSUME FollowInv, Alone(foll'), out' # "exhausted"
    PROVE  FollowInv' /\ LadderIsSpent
  BY DEF FollowInv, LadderIsSpent, Alone

LEMMA StandBackFollows ==
    ASSUME FollowInv, StandBack
    PROVE  FollowInv' /\ LadderIsSpent
  <1>1. foll' = Reset(foll) /\ out' = Nobody
    BY DEF StandBack, Hold
  <1>2. Alone(foll')
    BY <1>1, TailEnds DEF FollowInv
  <1> QED
    BY <1>1, <1>2, LetsGo

LEMMA ChaseFollows ==
    ASSUME FollowInv, ChaseBlip
    PROVE  FollowInv' /\ LadderIsSpent
  <1> DEFINE f == SetMode(EndFollow(foll), "blip")
             g(better) == [f EXCEPT !.chasing = TRUE,
                                    !.age = IF better \/ ~f.chasing THEN "new" ELSE @]
  <1>1. PICK mine \in BOOLEAN, running \in BOOLEAN, better \in BOOLEAN :
           IF g(better).age = "old" THEN Hold(g(better))
           ELSE GiveUnlessBusy(g(better), mine, running, "drive")
    BY DEF ChaseBlip
  <1>2. Alone(f)
    <2>1. Alone(EndFollow(foll))
      BY TailEnds DEF FollowInv
    <2> QED
      BY <2>1, ModesSet DEF Alone, SameTail
  <1> HIDE DEF f
  <1>3. Alone(g(better))
    BY <1>2 DEF Alone, Followers
  <1> HIDE DEF g
  <1>4. SameTail(g(better), foll') /\ out' \in {"drive", Nobody}
    BY <1>1, <1>3, GivesSame DEF Alone
  <1>5. Alone(foll')
    BY <1>3, <1>4 DEF Alone, SameTail
  <1> QED
    BY <1>4, <1>5, LetsGo

\* The companion seen: the same, found again or still there, or another.
LEMMA RegainedIs ==
    ASSUME NEW f \in Followers, NEW o \in Dots
    PROVE  LET g == Regained(f, o)
           IN /\ g \in Followers /\ g.lost = Nobody /\ g.handle = o.handle
              /\ \/ g.tried = {} /\ (f.held = "old" \/ g.handle # f.handle)
                 \/ g.tried = f.tried /\ g.handle = f.handle
  <1>1. o.handle \in Handles
    BY DEF Handles
  <1>2. CASE o.handle # f.handle
    <2>1. Alone(EndFollow(f))
      BY TailEnds
    <2>2. Regained(f, o) = [EndFollow(f) EXCEPT !.handle = o.handle]
      BY <1>2 DEF Regained
    <2> QED
      BY <1>1, <1>2, <2>1, <2>2 DEF Alone, Followers
  <1>3. CASE o.handle = f.handle
    <2> DEFINE g == [f EXCEPT !.lost = Nobody,
                              !.held = IF f.lost # Nobody /\ @ = Nobody THEN "new" ELSE @]
    <2>1. g \in Followers /\ g.lost = Nobody /\ g.handle = f.handle /\ g.tried = f.tried
      BY DEF Followers, Clocks
    <2>2. g.held = "old" => f.held = "old"
      BY DEF Followers, Clocks
    <2>3. Regained(f, o) = IF g.held = "old" THEN FreshLadder(g) ELSE g
      BY <1>3 DEF Regained
    <2> HIDE DEF g
    <2>4. FreshLadder(g) \in Followers /\ FreshLadder(g).lost = g.lost
          /\ FreshLadder(g).handle = g.handle /\ FreshLadder(g).tried = {}
      BY <2>1 DEF FreshLadder, Followers, Clocks
    <2> QED
      BY <1>3, <2>1, <2>2, <2>3, <2>4
  <1> QED
    BY <1>2, <1>3

LEMMA NotesKeep ==
    ASSUME NEW f \in Followers, NEW o \in Dots
    PROVE  SameTail(f, Noted(f, o)) /\ SameTail(f, Stalled(f, o))
  <1> DEFINE place == f.place \/ o.ped
             ride == IF o.ped THEN o.riding ELSE f.ride
             gap == IF ~o.far THEN Nobody ELSE IF f.gap = Nobody THEN "new" ELSE f.gap
  <1>1. place \in BOOLEAN
    OBVIOUS
  <1>2. ride \in BOOLEAN
    BY DotsAssumption DEF Followers
  <1>3. gap \in Clocks
    BY DEF Followers, Clocks
  <1>4. SameTail(f, Noted(f, o))
    <2>1. ASSUME NEW a \in BOOLEAN, NEW b \in BOOLEAN, NEW c \in Clocks
          PROVE  SameTail(f, [f EXCEPT !.place = a, !.ride = b, !.gap = c])
      BY DEF SameTail, Followers
    <2>2. Noted(f, o) = [f EXCEPT !.place = place, !.ride = ride, !.gap = gap]
      BY DEF Noted, Followers
    <2> HIDE DEF place, ride, gap
    <2> QED
      BY <1>1, <1>2, <1>3, <2>1, <2>2
  <1>5. (IF ~o.ped THEN (IF f.stall = Nobody THEN Nobody ELSE "off")
         ELSE IF f.stall = Nobody \/ ~o.still THEN "new" ELSE f.stall)
           \in Clocks \cup {"off"}
    BY DEF Followers, Clocks
  <1>6. SameTail(f, Stalled(f, o))
    BY <1>5 DEF SameTail, Stalled, Followers
  <1> QED
    BY <1>4, <1>6

LEMMA SameTailChains ==
    ASSUME NEW f, NEW g, NEW h, SameTail(f, g), SameTail(g, h)
    PROVE  SameTail(f, h)
  BY DEF SameTail

LEMMA FriendFollows ==
    ASSUME FollowInv, FollowFriendly
    PROVE  FollowInv' /\ LadderIsSpent
  <1> DEFINE s == SetMode(ForgetBlip(foll), "follow")
             r(o) == Regained(s, o)
             f(o) == Noted(r(o), o)
             g(o) == Stalled(f(o), o)
  <1>1. PICK o \in Dots, mine \in BOOLEAN, running \in BOOLEAN :
           Break(g(o)) \/ TailHim(g(o), o, mine, running)
    BY DEF FollowFriendly
  <1>2. SameTail(foll, s)
    BY ModesSet, SameTailChains DEF FollowInv, SameTail
  <1> HIDE DEF s
  <1>3. /\ r(o) \in Followers /\ r(o).lost = Nobody /\ r(o).handle = o.handle
        /\ \/ r(o).tried = {} /\ (foll.held = "old" \/ r(o).handle # foll.handle)
           \/ r(o).tried = foll.tried /\ r(o).handle = foll.handle
    BY <1>2, RegainedIs DEF SameTail
  <1> HIDE DEF r
  <1>4. SameTail(r(o), g(o))
    <2>1. SameTail(r(o), f(o))
      BY <1>3, NotesKeep
    <2>2. f(o) \in Followers
      BY <2>1 DEF SameTail
    <2> HIDE DEF f
    <2>3. SameTail(f(o), g(o))
      BY <2>2, NotesKeep
    <2> QED
      BY <2>1, <2>3, SameTailChains
  <1> HIDE DEF f, g
  <1>5. SameTail(g(o), foll') /\ out' # "exhausted"
    <2>1. g(o) \in Followers
      BY <1>4 DEF SameTail
    <2>2. CASE Break(g(o))
      <3> DEFINE b == [g(o) EXCEPT !.stall = "new", !.rested = FALSE, !.sig = <<>>,
                                   !.bound = FALSE]
      <3>1. SameTail(g(o), b)
        <4>1. <<>> \in Signatures
          BY DEF Signatures
        <4> QED
          BY <2>1, <4>1 DEF SameTail, Followers, Clocks
      <3>2. Give(b, "break")
        BY <2>2 DEF Break
      <3> HIDE DEF b
      <3> QED
        BY <3>1, <3>2, GivesSame, SameTailChains DEF SameTail
    <2>3. CASE TailHim(g(o), o, mine, running)
      <3> DEFINE b == [g(o) EXCEPT !.sig = Signature(g(o), o), !.changed = FALSE,
                                   !.bound = FALSE]
      <3>1. Want(g(o), o) \in {"tail", "chase", "car"}
        BY DEF Want
      <3>2. Signature(g(o), o) \in Signatures
        BY <3>1 DEF Signature, Signatures
      <3>3. SameTail(g(o), b)
        BY <2>1, <3>2 DEF SameTail, Followers
      <3>4. \/ Give(b, Want(g(o), o)) \/ GiveUnlessBusy(g(o), mine, running, Want(g(o), o))
        BY <2>3 DEF TailHim
      <3> HIDE DEF b
      <3>5. CASE Give(b, Want(g(o), o))
        BY <3>1, <3>3, <3>5, GivesSame, SameTailChains DEF SameTail
      <3>6. CASE GiveUnlessBusy(g(o), mine, running, Want(g(o), o))
        BY <2>1, <3>1, <3>6, GivesSame
      <3> QED
        BY <3>4, <3>5, <3>6
    <2> QED
      BY <1>1, <2>2, <2>3
  <1>6. SameTail(r(o), foll')
    BY <1>4, <1>5, SameTailChains
  <1>7. /\ foll' \in Followers /\ foll'.lost = Nobody
        /\ \/ foll'.tried = {} /\ (foll.held = "old" \/ foll'.handle # foll.handle)
           \/ foll'.tried = foll.tried /\ foll'.handle = foll.handle
    BY <1>3, <1>6 DEF SameTail
  <1> QED
    BY <1>5, <1>7 DEF FollowInv, LadderIsSpent

\* The rungs a lost companion still has: the first of them is tried.
LEMMA MissingFollows ==
    ASSUME FollowInv, FriendlyMissing
    PROVE  FollowInv' /\ LadderIsSpent
  <1> DEFINE s == SetMode(ForgetBlip(foll), "follow")
             f == IF s.lost = Nobody THEN [s EXCEPT !.lost = "new", !.held = Nobody] ELSE s
             open(near) == {i \in DOMAIN Rungs : /\ Rungs[i] \notin f.tried
                                                 /\ Applies(f, Rungs[i], near)}
             rung(near) == Rungs[CHOOSE i \in open(near) : \A j \in open(near) : i <= j]
             g(near) == [f EXCEPT !.tried = @ \cup {rung(near)}, !.paced = FALSE]
             goal(near) == IF rung(near) = "exhausted"
                           THEN [EndFollow(g(near)) EXCEPT !.bound = FALSE] ELSE g(near)
  <1>1. PICK near \in BOOLEAN :
           IF s.handle = Nobody THEN Hold(s)
           ELSE IF ~f.paced \/ open(near) = {} THEN Hold(f)
           ELSE Give(goal(near), rung(near))
    BY DEF FriendlyMissing
  <1>2. SameTail(foll, s) /\ s.ride = foll.ride /\ s.place = foll.place
    BY ModesSet, SameTailChains DEF FollowInv, SameTail
  <1> HIDE DEF s
  <1>3. /\ f \in Followers /\ f.lost # Nobody /\ f.tried = foll.tried
        /\ f.handle = foll.handle /\ f.paced = foll.paced
        /\ f.ride = foll.ride /\ f.place = foll.place
        /\ f.held = Nobody \/ (foll.lost # Nobody /\ f.held = foll.held)
        /\ f.lost = "old" => foll.lost = "old"
    <2>1. CASE s.lost = Nobody
      <3>1. f = [s EXCEPT !.lost = "new", !.held = Nobody]
        BY <2>1
      <3> HIDE DEF f
      <3>2. f \in Followers /\ f.lost = "new" /\ f.held = Nobody
            /\ f.tried = s.tried /\ f.handle = s.handle /\ f.paced = s.paced
            /\ f.ride = s.ride /\ f.place = s.place
        BY <1>2, <3>1 DEF SameTail, Followers, Clocks
      <3> QED
        BY <1>2, <3>2 DEF SameTail
    <2>2. CASE s.lost # Nobody
      BY <1>2, <2>2 DEF SameTail
    <2> QED
      BY <2>1, <2>2
  <1>4. f.held = Nobody
    BY <1>3 DEF FollowInv
  <1> HIDE DEF f
  <1>5. CASE s.handle = Nobody
    <2>1. foll' = s /\ out' = Nobody
      BY <1>1, <1>5 DEF Hold
    <2> QED
      BY <1>2, <1>5, <2>1 DEF FollowInv, LadderIsSpent, SameTail
  <1>6. CASE s.handle # Nobody /\ (~f.paced \/ open(near) = {})
    <2>1. foll' = f /\ out' = Nobody
      BY <1>1, <1>6 DEF Hold
    <2>2. f.handle # Nobody
      BY <1>2, <1>3, <1>6 DEF SameTail
    <2> QED
      BY <1>3, <1>4, <2>1, <2>2 DEF FollowInv, LadderIsSpent
  <1>7. CASE s.handle # Nobody /\ f.paced /\ open(near) # {}
    <2>1. f.handle # Nobody
      BY <1>2, <1>3, <1>7 DEF SameTail
    <2>2. DOMAIN Rungs = 1 .. 4 /\ Rungs[1] = "vehicle_handoff" /\ Rungs[2] = "nearest_vehicle"
          /\ Rungs[3] = "reacquire" /\ Rungs[4] = "exhausted"
      BY DEF Rungs
    <2>3. PICK i \in open(near) : rung(near) = Rungs[i] /\ \A j \in open(near) : i <= j
      <3>1. \E i \in open(near) : \A j \in open(near) : i <= j
        <4>1. open(near) \subseteq 1 .. 4
          BY <2>2
        <4> HIDE DEF open
        <4> QED
          BY <1>7, <4>1
      <3> QED
        BY <3>1
    <2>4. /\ i \in 1 .. 4 /\ Rungs[i] \notin f.tried /\ Applies(f, Rungs[i], near)
          /\ \A j \in 1 .. 4 : j < i => Rungs[j] \in f.tried \/ ~Applies(f, Rungs[j], near)
      BY <2>2, <2>3
    <2> HIDE DEF rung, open
    <2>5. Give(goal(near), rung(near))
      BY <1>1, <1>7
    <2>6. CASE rung(near) # "exhausted"
      <3>1. rung(near) \in EarlyRungs \ f.tried
        BY <2>2, <2>3, <2>4, <2>6 DEF EarlyRungs
      <3>2. /\ g(near) \in Followers /\ g(near).tried = f.tried \cup {rung(near)}
            /\ g(near).handle = f.handle /\ g(near).lost = f.lost
            /\ g(near).held = f.held /\ ~g(near).paced
        BY <1>3, <3>1 DEF Followers
      <3> HIDE DEF g
      <3>3. SameTail(g(near), foll') /\ out' = rung(near)
        <4>1. Give(g(near), rung(near))
          BY <2>5, <2>6
        <4> QED
          BY <3>2, <4>1, TailKept DEF Give
      <3>4. /\ foll' \in Followers /\ foll'.tried = foll.tried \cup {rung(near)}
            /\ foll'.handle = foll.handle /\ foll'.lost # Nobody
            /\ foll'.held = Nobody /\ ~foll'.paced
        BY <1>3, <1>4, <3>2, <3>3 DEF SameTail
      <3>5. rung(near) \in EarlyRungs \ foll.tried
        BY <1>3, <3>1
      <3>6. FollowInv'
        BY <1>3, <2>1, <3>4 DEF FollowInv
      <3> QED
        BY <1>3, <1>7, <3>3, <3>4, <3>5, <3>6 DEF LadderIsSpent
    <2>7. CASE rung(near) = "exhausted"
      <3>1. i = 4
        <4>1. i = 1 \/ i = 2 \/ i = 3 \/ i = 4
          BY <2>4
        <4>2. Rungs[i] = "exhausted"
          BY <2>3, <2>7
        <4> QED
          BY <2>2, <4>1, <4>2
      <3>2. foll.lost = "old"
        BY <1>3, <2>2, <2>4, <3>1 DEF Applies
      <3>3. /\ foll.ride => "vehicle_handoff" \in foll.tried
            /\ foll.place => "reacquire" \in foll.tried
        <4>1. Rungs[1] \in f.tried \/ ~Applies(f, Rungs[1], near)
          BY <2>4, <3>1
        <4>2. Rungs[3] \in f.tried \/ ~Applies(f, Rungs[3], near)
          BY <2>4, <3>1
        <4>3. Applies(f, "vehicle_handoff", near) = f.ride
          BY DEF Applies
        <4>4. Applies(f, "reacquire", near) = f.place
          BY DEF Applies
        <4> QED
          BY <1>3, <2>2, <4>1, <4>2, <4>3, <4>4
      <3>4. Alone(goal(near))
        <4> DEFINE h == [g(near) EXCEPT !.tried = {}]
        <4>1. h \in Followers
          BY <1>3 DEF Followers
        <4>2. EndFollow(g(near)) = EndFollow(h)
          BY <1>3 DEF EndFollow, FreshLadder, Followers
        <4>3. Alone(EndFollow(g(near)))
          BY <4>1, <4>2, TailEnds
        <4> QED
          BY <2>7, <4>3 DEF Alone, Followers
      <3> HIDE DEF goal
      <3>5. SameTail(goal(near), foll')
        BY <2>5, <3>4, TailKept DEF Give, Alone
      <3>6. Alone(foll')
        BY <3>4, <3>5 DEF Alone, SameTail
      <3> QED
        BY <3>2, <3>3, <3>6 DEF FollowInv, LadderIsSpent, Alone
    <2> QED
      BY <2>6, <2>7
  <1> QED
    BY <1>5, <1>6, <1>7

LEMMA TimeFollows ==
    ASSUME FollowInv, Elapse
    PROVE  FollowInv' /\ LadderIsSpent
  <1>1. ASSUME NEW k \in Ages, foll[k] = "new", foll' = [foll EXCEPT ![k] = "old"]
        PROVE  FollowInv' /\ foll'.tried = foll.tried /\ foll'.handle = foll.handle
               /\ (foll'.lost = Nobody <=> foll.lost = Nobody)
    <2>1. foll' \in Followers
      BY <1>1 DEF FollowInv, Followers, Ages, Clocks
    <2> QED
      BY <1>1, <2>1 DEF FollowInv, Followers, Ages, Clocks
  <1>2. ASSUME NEW k \in {"paced", "rested"}, foll' = [foll EXCEPT ![k] = TRUE]
        PROVE  FollowInv' /\ foll'.tried = foll.tried /\ foll'.handle = foll.handle
               /\ (foll'.lost = Nobody <=> foll.lost = Nobody)
    BY <1>2 DEF FollowInv, Followers, Clocks
  <1>3. FollowInv' /\ foll'.tried = foll.tried /\ foll'.handle = foll.handle
        /\ (foll'.lost = Nobody <=> foll.lost = Nobody)
    BY <1>1, <1>2 DEF Elapse
  <1> QED
    BY <1>3 DEF LadderIsSpent

LEMMA FollowStep ==
    ASSUME FollowInv, [FollowerNext]_followerVars
    PROVE  FollowInv' /\ [LadderIsSpent]_followerVars
  <1>1. CASE FollowerNext
    BY <1>1, StandBackFollows, ChaseFollows, FriendFollows, MissingFollows, TimeFollows
    DEF FollowerNext, Plan
  <1>2. CASE UNCHANGED followerVars
    BY <1>2 DEF followerVars, FollowInv
  <1> QED
    BY <1>1, <1>2

LEMMA FollowInit ==
    ASSUME FollowerInit
    PROVE  FollowInv
  BY DEF FollowerInit, FollowInv, Followers, Clocks, Handles, Signatures

\* The ladder that ends the search for a lost companion is used up and never
\* filled again by a companion who flickers, and only a companion somebody followed
\* is looked for: what LostIsGivenUp rests on
\* (MissionFollower._follow_friendly and _try_recovery_rungs).
THEOREM LaddersAreSpent == FollowerSpec => []FollowInv /\ [][LadderIsSpent]_followerVars
  <1> QED
    BY FollowInit, FollowStep, PTL DEF FollowerSpec

-----------------------------------------------------------------------------
(* The ways out of a building                                              *)

USE DEF Nowhere

Ladders ==
  [room : Rooms \cup {Nowhere}, rung : 0 .. 2, posted : BOOLEAN, gaveUp : BOOLEAN,
   before : Rooms \cup {Nowhere}, exits : SUBSET Rooms]
HouseLadders ==
  [rung : 0 .. MaxEscapeRungs, suspected : BOOLEAN, gaveUp : BOOLEAN, walked : BOOLEAN]

\* A walk that is out is of a rung, the second only to an exit that was learned; who gave up
\* walks no more; no ladder belongs to no room.
Stands(e) ==
  /\ e \in Ladders
  /\ e.posted => e.rung # 0 /\ ~e.gaveUp
  /\ e.posted /\ e.rung = 2 => e.room \in e.exits
  /\ e.room = Nowhere => e.rung = 0 /\ ~e.posted /\ ~e.gaveUp

EscapeInv ==
  /\ here \in Rooms \cup {Nowhere} /\ Stands(indoors)
  /\ house \in HouseLadders
  /\ house.suspected <=> house.rung # 0
  /\ house.gaveUp => house.rung = MaxEscapeRungs

\* While he stays in the room and nothing disturbs the walks, a ladder only climbs, a walk is
\* posted only of a higher rung than the last, and giving up is final.  The
\* house's ladder climbs whatever happens until the suspicion ends.
LaddersClimb ==
  /\ here # Nowhere /\ here' = here /\ indoors.room = here /\ ~disturbed' =>
       /\ indoors'.room = here
       /\ indoors'.rung >= indoors.rung
       /\ indoors.gaveUp => indoors'.gaveUp
       /\ indoors'.rung = indoors.rung /\ ~indoors'.gaveUp => indoors'.posted = indoors.posted
  /\ house.suspected /\ house'.suspected =>
       /\ house' = house \/ house'.rung = house.rung + 1 \/ (house'.gaveUp /\ ~house.gaveUp)
       /\ house.gaveUp => house' = house

LEMMA ForgottenStands ==
    ASSUME NEW e, Stands(e)
    PROVE  /\ Stands(NoEscape(e)) /\ NoEscape(e).room = Nowhere
           /\ NoEscape(e).exits = e.exits
  <1> DEFINE n == NoEscape(e)
  <1>0. e \in Ladders
    BY DEF Stands
  <1>1. n \in Ladders
    <2>1. [e EXCEPT !.room = Nowhere, !.rung = 0] \in Ladders
      <3>1. \A m \in Ladders, r \in Rooms \cup {Nowhere} : [m EXCEPT !.room = r] \in Ladders
        BY DEF Ladders
      <3>2. \A m \in Ladders : [m EXCEPT !.rung = 0] \in Ladders
        BY DEF Ladders
      <3> QED
        BY <1>0, <3>1, <3>2
    <2>2. \A m \in Ladders : [m EXCEPT !.posted = FALSE, !.gaveUp = FALSE] \in Ladders
      BY DEF Ladders
    <2>3. n = [[e EXCEPT !.room = Nowhere, !.rung = 0] EXCEPT !.posted = FALSE, !.gaveUp = FALSE]
      BY DEF NoEscape
    <2> QED
      BY <2>1, <2>2, <2>3
  <1>2. /\ n.room = Nowhere /\ n.rung = 0 /\ n.posted = FALSE /\ n.gaveUp = FALSE
        /\ n.exits = e.exits
    BY <1>0 DEF NoEscape, Ladders
  <1> HIDE DEF n
  <1> QED
    BY <1>1, <1>2 DEF Stands, n

\* What he sees: a room he left is learned, and no other room's ladder goes on.
LEMMA SeenStands ==
    ASSUME NEW e, Stands(e), here \in Rooms \cup {Nowhere}
    PROVE  /\ Stands(Observed(e))
           /\ here # Nowhere => Observed(e) = [e EXCEPT !.before = here]
  <1> DEFINE n == [e EXCEPT !.before = here]
             l == [n EXCEPT !.exits = @ \cup {e.before}]
  <1>1. Stands(n) /\ n.exits = e.exits
    BY DEF Stands, Ladders
  <1>2. Stands(l) \/ e.before = Nowhere
    <2> SUFFICES ASSUME e.before # Nowhere PROVE Stands(l)
      OBVIOUS
    <2>1. e.before \in Rooms
      BY DEF Stands, Ladders
    <2>2. Stands([n EXCEPT !.exits = e.exits \cup {e.before}])
      BY <1>1, <2>1 DEF Stands, Ladders
    <2> QED
      BY <1>1, <2>2 DEF Stands, Ladders
  <1>3. \/ Observed(e) = n
        \/ here = Nowhere /\ e.before # Nowhere /\ Observed(e) = NoEscape(l)
    BY DEF Observed
  <1> HIDE DEF l
  <1>4. Stands(Observed(e))
    BY <1>1, <1>2, <1>3, ForgottenStands
  <1> QED
    BY <1>3, <1>4

LEMMA RoomStands ==
    ASSUME NEW e, Stands(e), here \in Rooms
    PROVE  Stands(ForThisRoom(e)) /\ ForThisRoom(e).room = here
  <1>1. CASE e.room = here
    BY <1>1 DEF ForThisRoom
  <1>2. CASE e.room # here
    <2>1. ForThisRoom(e) = [NoEscape(e) EXCEPT !.room = here]
      BY <1>2 DEF ForThisRoom
    <2>2. Stands(NoEscape(e)) /\ ~NoEscape(e).posted
      BY ForgottenStands DEF Stands, NoEscape, Ladders
    <2> DEFINE m == NoEscape(e)
               n == [m EXCEPT !.room = here]
    <2>3. m \in Ladders /\ m.rung = 0 /\ m.posted = FALSE /\ m.gaveUp = FALSE
      <3>1. e \in Ladders /\ m \in Ladders
        BY ForgottenStands DEF Stands
      <3> QED
        BY <3>1 DEF NoEscape, Ladders
    <2> HIDE DEF m
    <2>4. n \in Ladders /\ n.room = here
      BY <2>3 DEF Ladders
    <2>5. n.rung = 0 /\ n.posted = FALSE /\ n.gaveUp = FALSE
      BY <2>3 DEF Ladders
    <2>6. ForThisRoom(e) = n
      BY <2>1 DEF m
    <2> HIDE DEF n
    <2> QED
      BY <2>4, <2>5, <2>6 DEF Stands
  <1> QED
    BY <1>1, <1>2

\* The next rung is higher and can be walked, and after the last he gives up.
LEMMA RungStands ==
    ASSUME NEW e, Stands(e), e.room # Nowhere, ~e.gaveUp,
           NEW cameIn \in BOOLEAN, NEW over \in BOOLEAN
    PROVE  LET n == NextRung(e, cameIn, over)
           IN /\ Stands(n) /\ n.room = e.room
              /\ e.posted /\ ~over => n = e
              /\ ~e.posted \/ over =>
                   /\ ~n.posted
                   /\ n.gaveUp => n.rung = 2
                   /\ ~n.gaveUp => /\ n.rung > e.rung /\ n.rung \in 1 .. 2
                                   /\ Stands([n EXCEPT !.posted = TRUE])
  <1> DEFINE left == {r \in Targets(e, cameIn) : r > e.rung}
             d == [e EXCEPT !.posted = FALSE]
             top == CHOOSE r \in left : \A q \in left : r <= q
             n == NextRung(e, cameIn, over)
  <1>1. CASE e.posted /\ ~over
    BY <1>1 DEF NextRung
  <1>2. CASE (~e.posted \/ over) /\ left = {}
    <2>1. n = [d EXCEPT !.rung = 2, !.gaveUp = TRUE]
      BY <1>2 DEF NextRung
    <2>2. n \in Ladders /\ n.room = e.room
      <3>1. d \in Ladders /\ d.room = e.room
        BY DEF Stands, Ladders
      <3>2. \A m \in Ladders : /\ [m EXCEPT !.rung = 2] \in Ladders
                                /\ [m EXCEPT !.rung = 2].room = m.room
        BY DEF Ladders
      <3>3. n = [[d EXCEPT !.rung = 2] EXCEPT !.gaveUp = TRUE]
        BY <2>1
      <3> HIDE DEF d, n
      <3> QED
        BY <3>1, <3>2, <3>3 DEF Ladders
    <2>3. n.posted = FALSE /\ n.rung = 2 /\ n.gaveUp = TRUE
      BY <2>1 DEF Stands, Ladders
    <2> HIDE DEF n, left, top, d
    <2>4. Stands(n)
      BY <2>2, <2>3 DEF Stands
    <2> QED
      BY <1>2, <2>2, <2>3, <2>4 DEF n
  <1>3. CASE (~e.posted \/ over) /\ left # {}
    <2>1. n = [d EXCEPT !.rung = top]
      BY <1>3 DEF NextRung
    <2>2. left \subseteq 1 .. 2 /\ (2 \in left => e.room \in e.exits)
      BY DEF Targets
    <2>3. top \in left
      <3>1. \E r \in left : \A q \in left : r <= q
        <4> HIDE DEF left
        <4> QED
          BY <1>3, <2>2
      <3> QED
        BY <3>1
    <2>4. top > e.rung
      BY <2>3
    <2> HIDE DEF top, left
    <2>5. top \in 1 .. 2 /\ (top = 2 => e.room \in e.exits)
      BY <2>2, <2>3
    <2>6. /\ n \in Ladders /\ n.room = e.room /\ n.exits = e.exits /\ n.posted = FALSE
          /\ n.rung = top /\ n.gaveUp = FALSE
      <3>1. /\ d \in Ladders /\ d.room = e.room /\ d.exits = e.exits /\ d.posted = FALSE
            /\ d.gaveUp = FALSE
        BY DEF Stands, Ladders
      <3> HIDE DEF d, n
      <3>2. n \in Ladders /\ n.room = e.room /\ n.exits = e.exits
        BY <2>1, <2>5, <3>1 DEF Ladders
      <3>3. n.posted = FALSE /\ n.rung = top /\ n.gaveUp = FALSE
        BY <2>1, <2>5, <3>1 DEF Ladders
      <3> QED
        BY <3>2, <3>3
    <2> HIDE DEF n
    <2>7. Stands(n)
      BY <2>5, <2>6 DEF Stands
    <2>8. Stands([n EXCEPT !.posted = TRUE])
      <3> DEFINE w == [n EXCEPT !.posted = TRUE]
      <3>1. w \in Ladders /\ w.room = e.room /\ w.exits = e.exits
        BY <2>6 DEF Ladders
      <3>2. w.rung = top /\ w.gaveUp = FALSE
        BY <2>6 DEF Ladders
      <3> HIDE DEF w
      <3>3. Stands(w)
        BY <2>5, <3>1, <3>2 DEF Stands
      <3> QED
        BY <3>3 DEF w
    <2> QED
      BY <1>3, <2>4, <2>5, <2>6, <2>7, <2>8 DEF n
  <1> QED
    BY <1>1, <1>2, <1>3

-----------------------------------------------------------------------------
(* Steps of the ladders                                                    *)

\* The ladder a poll asks: of the room he is in, and the one that stood if he is still there.
LEMMA AskedStands ==
    ASSUME EscapeInv, here # Nowhere
    PROVE  LET e == ForThisRoom(Observed(indoors))
           IN /\ Stands(e) /\ e.room = here
              /\ indoors.room = here => /\ e.rung = indoors.rung /\ e.posted = indoors.posted
                                       /\ e.gaveUp = indoors.gaveUp
  <1>1. Stands(Observed(indoors)) /\ Observed(indoors) = [indoors EXCEPT !.before = here]
    BY SeenStands DEF EscapeInv
  <1>2. Stands(ForThisRoom(Observed(indoors))) /\ ForThisRoom(Observed(indoors)).room = here
    BY <1>1, RoomStands DEF EscapeInv
  <1>3. ASSUME indoors.room = here
        PROVE  ForThisRoom(Observed(indoors)) = [indoors EXCEPT !.before = here]
    BY <1>1, <1>3 DEF ForThisRoom, EscapeInv, Stands, Ladders
  <1> QED
    BY <1>1, <1>2, <1>3 DEF EscapeInv, Stands, Ladders

LEMMA RetryStands ==
    ASSUME NEW e, Stands(e), e.room # Nowhere, ~e.gaveUp
    PROVE  Stands(Retried(e))
  <1>1. (IF e.rung = 0 THEN 0 ELSE e.rung - 1) \in 0 .. 2
    BY DEF Stands, Ladders
  <1> QED
    BY <1>1 DEF Stands, Retried, Ladders

LEMMA ClimbStep ==
    ASSUME EscapeInv, NEW posts \in BOOLEAN, Climb(posts)
    PROVE  EscapeInv' /\ LaddersClimb
  <1> DEFINE e == ForThisRoom(Observed(indoors))
  <1>1. here # Nowhere /\ ~e.gaveUp /\ here' = here /\ house' = house
    BY DEF Climb
  <1>2. PICK cameIn \in BOOLEAN, over \in BOOLEAN :
           LET n == NextRung(e, cameIn, over)
               walks == ~n.gaveUp /\ (~e.posted \/ over)
           IN /\ indoors' = IF ~walks THEN n
                            ELSE IF posts THEN [n EXCEPT !.posted = TRUE] ELSE Retried(n)
              /\ disturbed' = (walks /\ ~posts)
    BY DEF Climb
  <1>3. /\ Stands(e) /\ e.room = here
        /\ indoors.room = here => /\ e.rung = indoors.rung /\ e.posted = indoors.posted
                                 /\ e.gaveUp = indoors.gaveUp
    BY <1>1, AskedStands
  <1> HIDE DEF e
  <1> DEFINE n == NextRung(e, cameIn, over)
  <1>4. /\ Stands(n) /\ n.room = e.room
        /\ e.posted /\ ~over => n = e
        /\ ~e.posted \/ over =>
             /\ ~n.posted
             /\ n.gaveUp => n.rung = 2
             /\ ~n.gaveUp => /\ n.rung > e.rung /\ n.rung \in 1 .. 2
                             /\ Stands([n EXCEPT !.posted = TRUE])
    BY <1>1, <1>3, RungStands
  <1>5. /\ e.rung \in 0 .. 2 /\ e.posted \in BOOLEAN /\ n \in Ladders
    BY <1>3, <1>4 DEF Stands, Ladders
  <1>6. CASE n.gaveUp \/ (e.posted /\ ~over)
    <2>1. indoors' = n
      BY <1>2, <1>6
    <2> HIDE DEF n
    <2> QED
      BY <1>1, <1>3, <1>4, <1>5, <1>6, <2>1 DEF EscapeInv, LaddersClimb
  <1>7. CASE ~n.gaveUp /\ (~e.posted \/ over) /\ posts
    <2>1. indoors' = [n EXCEPT !.posted = TRUE]
      BY <1>2, <1>7
    <2> HIDE DEF n
    <2>2. indoors'.room = here /\ indoors'.rung > e.rung /\ Stands(indoors')
      BY <1>3, <1>4, <1>5, <1>7, <2>1 DEF Ladders
    <2>3. indoors'.rung \in 0 .. 2 /\ (indoors.room = here => indoors'.rung > indoors.rung)
      BY <1>3, <1>5, <2>2 DEF Stands, Ladders
    <2>4. indoors.room = here => indoors'.rung >= indoors.rung
                                 /\ indoors'.rung # indoors.rung /\ ~indoors.gaveUp
      BY <1>1, <1>3, <1>5, <2>2, <2>3
    <2> QED
      BY <1>1, <2>2, <2>4 DEF EscapeInv, LaddersClimb
  <1>8. CASE ~n.gaveUp /\ (~e.posted \/ over) /\ ~posts
    <2>1. indoors' = Retried(n) /\ disturbed'
      BY <1>2, <1>8
    <2> HIDE DEF n
    <2>2. Stands(indoors')
      BY <1>1, <1>3, <1>4, <1>8, <2>1, RetryStands
    <2> QED
      BY <1>1, <2>1, <2>2 DEF EscapeInv, LaddersClimb
  <1> QED
    BY <1>6, <1>7, <1>8

LEMMA EscapeStep ==
    ASSUME EscapeInv, [EscapeNext]_escapeVars
    PROVE  EscapeInv' /\ [LaddersClimb]_escapeVars
  <1>1. CASE \E posts \in BOOLEAN : Climb(posts)
    BY <1>1, ClimbStep
  <1>2. CASE Outranked
    <2> DEFINE e == ForThisRoom(Observed(indoors))
    <2>1. here # Nowhere /\ ~e.gaveUp /\ disturbed' /\ here' = here /\ house' = house
      BY <1>2 DEF Outranked
    <2>2. PICK cameIn \in BOOLEAN, over \in BOOLEAN : indoors' = NextRung(e, cameIn, over)
      BY <1>2 DEF Outranked
    <2>3. Stands(e) /\ e.room # Nowhere
      BY <2>1, AskedStands
    <2> HIDE DEF e
    <2>4. Stands(indoors')
      BY <2>1, <2>2, <2>3, RungStands
    <2> QED
      BY <2>1, <2>4 DEF EscapeInv, LaddersClimb
  <1>3. CASE Preempted
    <2>1. Stands(indoors')
      BY <1>3, RetryStands DEF Preempted, EscapeInv
    <2> QED
      BY <1>3, <2>1 DEF Preempted, EscapeInv, LaddersClimb
  <1>4. CASE LooksOnly
    <2>1. Stands(indoors') /\ (here # Nowhere => indoors' = [indoors EXCEPT !.before = here])
      BY <1>4, SeenStands DEF LooksOnly, EscapeInv
    <2>2. here # Nowhere => /\ indoors'.room = indoors.room /\ indoors'.rung = indoors.rung
                            /\ indoors'.posted = indoors.posted
                            /\ indoors'.gaveUp = indoors.gaveUp
      BY <2>1 DEF EscapeInv, Stands, Ladders
    <2>3. here' = here /\ house' = house /\ indoors.rung \in 0 .. 2
      BY <1>4 DEF LooksOnly, EscapeInv, Stands, Ladders
    <2> QED
      BY <2>1, <2>2, <2>3 DEF EscapeInv, LaddersClimb
  <1>5. CASE RungGoes
    BY <1>5 DEF RungGoes, EscapeInv, LaddersClimb
  <1>6. CASE HouseOver
    <2>1. house'.rung = 0 /\ ~house'.suspected /\ ~house'.gaveUp /\ house' \in HouseLadders
      BY <1>6, EscapesAssumption DEF HouseOver, NoHouse, HouseLadders
    <2>2. UNCHANGED <<indoors, here, disturbed>>
      BY <1>6 DEF HouseOver
    <2> QED
      BY <2>1, <2>2 DEF EscapeInv, LaddersClimb, Stands, Ladders
  <1>7. CASE HouseRung
    <2>1. /\ UNCHANGED <<indoors, here, disturbed>> /\ ~house.gaveUp
          /\ indoors.rung \in 0 .. 2 /\ house.rung \in 0 .. MaxEscapeRungs
      BY <1>7 DEF HouseRung, EscapeInv, HouseLadders, Stands, Ladders
    <2>2. CASE house.rung >= MaxEscapeRungs
      <3>1. house' = [house EXCEPT !.gaveUp = TRUE]
        BY <1>7, <2>2 DEF HouseRung
      <3>2. /\ house' \in HouseLadders /\ house'.gaveUp /\ house'.rung = house.rung
            /\ house'.suspected = house.suspected /\ house.rung = MaxEscapeRungs
        <4>1. house \in HouseLadders
          BY DEF EscapeInv
        <4>2. house' \in HouseLadders
          BY <3>1, <4>1 DEF HouseLadders
        <4>3. house'.gaveUp /\ house'.rung = house.rung /\ house'.suspected = house.suspected
          BY <3>1, <4>1 DEF HouseLadders
        <4>4. house.rung = MaxEscapeRungs
          BY <2>1, <2>2, EscapesAssumption
        <4> QED
          BY <4>2, <4>3, <4>4
      <3> QED
        BY <2>1, <3>2 DEF EscapeInv, LaddersClimb
    <2>3. CASE house.rung < MaxEscapeRungs
      <3>1. PICK walks \in BOOLEAN : house' = RungOf(house, walks)
        BY <1>7, <2>1, <2>3, EscapesAssumption DEF HouseRung
      <3>2. /\ house' \in HouseLadders /\ ~house'.gaveUp /\ house'.rung = house.rung + 1
            /\ house'.suspected
        <4>1. house \in HouseLadders
          BY DEF EscapeInv
        <4>2. house.rung + 1 \in 0 .. MaxEscapeRungs
          BY <2>1, <2>3, EscapesAssumption
        <4> DEFINE w == house.walked \/ walks
        <4>3. w \in BOOLEAN
          OBVIOUS
        <4>4. house' = [house EXCEPT !.suspected = TRUE, !.rung = house.rung + 1, !.walked = w]
          BY <3>1, <4>1 DEF RungOf, HouseLadders
        <4> HIDE DEF w
        <4>5. house' \in HouseLadders
          BY <4>1, <4>2, <4>3, <4>4 DEF HouseLadders
        <4>6. house'.gaveUp = house.gaveUp /\ house'.rung = house.rung + 1 /\ house'.suspected
          BY <4>1, <4>4 DEF HouseLadders
        <4> QED
          BY <2>1, <4>5, <4>6
      <3> QED
        BY <2>1, <3>2, EscapesAssumption DEF EscapeInv, LaddersClimb
    <2> QED
      BY <2>1, <2>2, <2>3, EscapesAssumption
  <1>8. CASE UNCHANGED escapeVars
    BY <1>8 DEF escapeVars, EscapeInv
  <1> QED
    BY <1>1, <1>2, <1>3, <1>4, <1>5, <1>6, <1>7, <1>8 DEF EscapeNext

LEMMA EscapeInitInv ==
    ASSUME EscapeInit
    PROVE  EscapeInv
  BY EscapesAssumption DEF EscapeInit, EscapeInv, Stands, Ladders, HouseLadders, NoHouse

\* A ladder out of a building climbs: a rung is walked again only after a refusal, a
\* lost wheel or a preemption, an exit is walked to only where one was learned, and who has
\* given up stays so; what LaddersLetGo rests on (InteriorEscape.check and
\* HouseEscape.check).
THEOREM LaddersOnlyClimb == EscapeSpec => []EscapeInv /\ [][LaddersClimb]_escapeVars
  <1> QED
    BY EscapeInitInv, EscapeStep, PTL DEF EscapeSpec

-----------------------------------------------------------------------------
(* The car's ladder and the stopwatch of the controls                      *)

USE DEF NoIntent

Spells == {"off", "new", "old"}
Cars ==
  [phase : {"on_foot", "entering", "seated", "moving", "blocked", "stuck"}, seated : BOOLEAN,
   moved : BOOLEAN, window : Spells, idle : Spells, rung : 0 .. 4, cooling : BOOLEAN]
Stopwatches ==
  [edge : BOOLEAN, answered : BOOLEAN, reported : BOOLEAN, age : Spells, owed : BOOLEAN]
LadderRungs == {"reverse_out", "swerve", "repost_drive", "exit_vehicle"}

\* A window runs only over a car that has not moved since he got in, and a ladder is of
\* the car he sits in; what the controls are owed since they came back is neither answered nor
\* reported, and its clock runs.
DriveInv ==
  /\ car \in Cars
  /\ car.window # "off" => car.seated /\ ~car.moved
  /\ car.rung # 0 => car.seated
  /\ regained \in Stopwatches
  /\ regained.edge <=> regained.age # "off"
  /\ regained.owed <=> regained.edge /\ ~regained.answered /\ ~regained.reported

\* The rungs come in their order and each is asked for once, only when the window is over
\* in a car that has not moved since he got in, and not in the rest after the last; a ladder
\* begins again only after that rest, or with another window.
RungsAreEarned ==
  /\ car'.rung > car.rung =>
       /\ car'.rung = car.rung + 1 /\ intent' = RecoveryLadder[car'.rung]
       /\ car.window = "old" /\ car.seated /\ ~car'.moved /\ ~car.cooling
  /\ car'.rung < car.rung => car'.rung = 0 /\ (car'.cooling \/ car'.window # "old")
  /\ intent' \in LadderRungs /\ intent' # intent => car'.rung > car.rung

\* The ladder a poll finds: of this car, or none for another.
LEMMA TrackedCar ==
    ASSUME DriveInv, NEW p \in Polls
    PROVE  LET c == Tracked(car, p)
           IN /\ c \in Cars /\ c.seated = p.car
              /\ c.window # "off" => p.car
              /\ c.rung # 0 => p.car
              /\ \/ c.window = car.window /\ c.rung = car.rung /\ c.cooling = car.cooling
                    /\ c.seated = car.seated
                 \/ c.window = "off" /\ c.rung = 0 /\ c.cooling = FALSE
  <1> DEFINE rolls == p.car /\ p.speed # "still"
             m == car.moved \/ rolls
             c == Tracked(car, p)
  <1>1. rolls \in BOOLEAN /\ m \in BOOLEAN /\ p.car \in BOOLEAN
    BY PollsAssumption
  <1>2. car \in Cars
    BY DEF DriveInv
  <1>3. CASE p.car = car.seated /\ ~p.other
    <2>1. c = [car EXCEPT !.moved = m]
      BY <1>2, <1>3 DEF Tracked, Cars
    <2> HIDE DEF m
    <2>2. c \in Cars /\ c.seated = car.seated /\ c.window = car.window
      BY <1>1, <1>2, <2>1 DEF Cars
    <2>3. c.rung = car.rung /\ c.cooling = car.cooling
      BY <1>2, <2>1 DEF Cars
    <2> HIDE DEF c
    <2> QED
      BY <1>3, <2>2, <2>3 DEF DriveInv, c
  <1>4. CASE ~(p.car = car.seated /\ ~p.other)
    <2>1. c = [OutOfCar EXCEPT !.phase = car.phase, !.seated = p.car, !.moved = rolls]
      BY <1>4 DEF Tracked
    <2> HIDE DEF rolls
    <2>2. OutOfCar \in Cars /\ OutOfCar.window = "off" /\ OutOfCar.rung = 0
          /\ OutOfCar.cooling = FALSE
      BY DEF OutOfCar, Cars, Spells
    <2>3. c \in Cars /\ c.seated = p.car
      BY <1>1, <1>2, <2>1, <2>2 DEF Cars
    <2>4. c.window = "off" /\ c.rung = 0 /\ c.cooling = FALSE
      BY <2>1, <2>2 DEF Cars
    <2> HIDE DEF c
    <2> QED
      BY <2>3, <2>4 DEF c
  <1> QED
    BY <1>3, <1>4

LEMMA RungSet ==
    \A c \in Cars, n \in 0 .. 4 : /\ [c EXCEPT !.rung = n] \in Cars
                                  /\ [c EXCEPT !.rung = n].seated = c.seated
                                  /\ [c EXCEPT !.rung = n].moved = c.moved
  BY DEF Cars

LEMMA FeedStep ==
    ASSUME DriveInv, NEW p \in Polls, NEW gap \in BOOLEAN, Feed(p, gap)
    PROVE  DriveInv' /\ RungsAreEarned
  <1> DEFINE c == Tracked(car, p)
             base == BasePhase(c, p)
             w == Watched(c, p)
             i == IdleClock(w, p)
             b == [w EXCEPT !.phase = "blocked"]
  <1>1. /\ regained' = regained
        /\ IF base \in {"on_foot", "entering"}
           THEN car' = [c EXCEPT !.phase = base] /\ intent' = NoIntent
           ELSE IF base = "moving" THEN car' = Rolling(c) /\ intent' = NoIntent
           ELSE IF w.window = "old"
             THEN IF p.hold \/ w.cooling \/ ~gap THEN car' = b /\ intent' = NoIntent
                  ELSE Recover(b)
           ELSE car' = i /\ intent' = IF DrivesAway(i, p) /\ gap THEN "drive_away" ELSE NoIntent
    BY DEF Feed
  <1>2. /\ c \in Cars /\ c.seated = p.car
        /\ c.window # "off" => p.car
        /\ c.rung # 0 => p.car
        /\ \/ c.window = car.window /\ c.rung = car.rung /\ c.cooling = car.cooling
              /\ c.seated = car.seated
           \/ c.window = "off" /\ c.rung = 0 /\ c.cooling = FALSE
    BY TrackedCar
  <1>3. /\ base \in {"on_foot", "entering", "moving", "seated"}
        /\ base \in {"on_foot", "entering"} <=> ~p.car
    BY DEF BasePhase
  <1> HIDE DEF c, base
  <1>4. car.rung \in 0 .. 4 /\ c.rung \in 0 .. 4
    BY <1>2 DEF DriveInv, Cars
  <1>5. CASE base \in {"on_foot", "entering"}
    <2>1. car' = [c EXCEPT !.phase = base] /\ intent' = NoIntent /\ ~p.car
      BY <1>1, <1>3, <1>5
    <2>2. car' \in Cars /\ car'.seated = c.seated /\ car'.window = c.window
      BY <1>2, <1>5, <2>1 DEF Cars
    <2>3. car'.rung = c.rung
      BY <1>2, <2>1 DEF Cars
    <2>4. c.window = "off" /\ c.rung = 0
      BY <1>2, <2>1
    <2> QED
      BY <1>1, <1>4, <2>1, <2>2, <2>3, <2>4 DEF DriveInv, RungsAreEarned, LadderRungs
  <1>6. CASE base = "moving"
    <2>1. car' = Rolling(c) /\ intent' = NoIntent
      BY <1>1, <1>6
    <2>2. car' \in Cars
      <3>1. \A d \in Cars : [d EXCEPT !.phase = "moving", !.moved = TRUE] \in Cars
        BY DEF Cars
      <3>2. \A d \in Cars : [d EXCEPT !.window = "off", !.idle = "off"] \in Cars
        BY DEF Cars, Spells
      <3>3. car' = [[[c EXCEPT !.phase = "moving", !.moved = TRUE]
                       EXCEPT !.window = "off", !.idle = "off"] EXCEPT !.rung = 0]
        BY <2>1 DEF Rolling
      <3> QED
        <4>1. 0 \in 0 .. 4
          OBVIOUS
        <4> QED
          BY <1>2, <3>1, <3>2, <3>3, <4>1, RungSet
    <2>3. car'.window = "off" /\ car'.rung = 0
      BY <1>2, <2>1 DEF Rolling, Cars
    <2> QED
      BY <1>1, <1>4, <2>1, <2>2, <2>3 DEF DriveInv, RungsAreEarned, LadderRungs
  <1>7. CASE base = "seated"
    <2>1. p.car
      BY <1>3, <1>7
    <2>2. w \in Cars
      <3>1. \A d \in Cars, s \in Spells : [d EXCEPT !.window = s] \in Cars
        BY DEF Cars
      <3>2. (IF c.window = "off" THEN "new" ELSE c.window) \in Spells /\ "off" \in Spells
        BY <1>2 DEF Cars, Spells
      <3>3. \/ w = [c EXCEPT !.window = IF c.window = "off" THEN "new" ELSE c.window]
            \/ w = [c EXCEPT !.window = "off"]
        BY <1>2 DEF Watched, Cars
      <3> HIDE DEF w
      <3> QED
        BY <1>2, <3>1, <3>2, <3>3
    <2>3. /\ w.seated = c.seated /\ w.moved = c.moved /\ w.rung = c.rung
          /\ w.cooling = c.cooling
      BY <1>2 DEF Watched, Cars
    <2>4. /\ w.window # "off" => ~c.moved
          /\ w.window = "old" => c.window = "old"
      BY <1>2 DEF Watched, Cars
    <2> HIDE DEF w
    <2>5. /\ b \in Cars /\ b.seated = w.seated /\ b.moved = w.moved
      BY <2>2 DEF Cars
    <2>6. /\ b.window = w.window /\ b.rung = w.rung /\ b.cooling = w.cooling
      BY <2>2 DEF Cars
    <2>7. CASE w.window # "old"
      <3>1. car' = i /\ intent' \in {"drive_away", NoIntent}
        BY <1>1, <1>7, <2>7
      <3>2. i \in Cars
        <4>1. \A d \in Cars, s \in Spells : [d EXCEPT !.phase = "seated", !.idle = s] \in Cars
          BY DEF Cars
        <4> DEFINE s == IF p.hold \/ p.task # "idle" THEN "off"
                        ELSE IF w.idle = "off" THEN "new" ELSE w.idle
        <4>2. s \in Spells
          BY <2>2 DEF Cars, Spells
        <4>3. i = [w EXCEPT !.phase = "seated", !.idle = s]
          BY <2>2 DEF IdleClock, Cars
        <4> HIDE DEF s, i
        <4> QED
          BY <2>2, <4>1, <4>2, <4>3
      <3>3. /\ i.seated = w.seated /\ i.moved = w.moved /\ i.window = w.window
            /\ i.rung = w.rung
        BY <2>2 DEF IdleClock, Cars
      <3> HIDE DEF i
      <3>4. car' \in Cars /\ car'.seated /\ car'.rung = c.rung /\ car'.window # "old"
            /\ (car'.window # "off" => ~car'.moved)
        BY <1>2, <2>1, <2>3, <2>4, <2>7, <3>1, <3>2, <3>3
      <3>5. car'.rung = car.rung \/ car'.rung = 0
        BY <1>2, <3>4
      <3> QED
        BY <1>1, <1>4, <3>1, <3>4, <3>5 DEF DriveInv, RungsAreEarned, LadderRungs
    <2>8. CASE w.window = "old"
      <3>1. /\ c.rung = car.rung /\ c.cooling = car.cooling /\ car.window = "old"
            /\ car.seated /\ ~w.moved /\ b.seated /\ ~b.moved /\ b.window = "old"
        BY <1>2, <2>1, <2>3, <2>4, <2>5, <2>6, <2>8
      <3>2. CASE p.hold \/ w.cooling \/ ~gap
        <4>1. car' = b /\ intent' = NoIntent
          BY <1>1, <1>7, <2>8, <3>2
        <4> HIDE DEF b
        <4> QED
          BY <1>1, <1>4, <2>3, <2>5, <2>6, <3>1, <4>1 DEF DriveInv, RungsAreEarned, LadderRungs
      <3>3. CASE ~(p.hold \/ w.cooling \/ ~gap)
        <4>1. Recover(b) /\ ~car.cooling
          BY <1>1, <1>7, <2>3, <2>8, <3>1, <3>3
        <4> HIDE DEF b
        <4>2. CASE b.rung = 4
          <5>1. car' = [b EXCEPT !.rung = 0, !.cooling = TRUE] /\ intent' = NoIntent
            BY <4>1, <4>2 DEF Recover
          <5>2. car' \in Cars /\ car'.seated = b.seated /\ car'.moved = b.moved
            <6>1. [b EXCEPT !.rung = 0] \in Cars /\ [b EXCEPT !.rung = 0].seated = b.seated
                  /\ [b EXCEPT !.rung = 0].moved = b.moved
              <7>1. 0 \in 0 .. 4
                OBVIOUS
              <7> HIDE DEF b
              <7> QED
                BY <2>5, <7>1, RungSet
            <6>2. car' = [[b EXCEPT !.rung = 0] EXCEPT !.cooling = TRUE]
              BY <5>1
            <6> QED
              BY <6>1, <6>2 DEF Cars
          <5>3. car'.window = b.window /\ car'.rung = 0 /\ car'.cooling
            BY <2>5, <5>1 DEF Cars
          <5> QED
            BY <1>1, <1>4, <3>1, <5>1, <5>2, <5>3 DEF DriveInv, RungsAreEarned, LadderRungs
        <4>3. CASE b.rung # 4
          <5>1. b.rung \in 0 .. 3 /\ b.rung = car.rung
            BY <1>4, <2>3, <2>6, <3>1, <4>3
          <5>2. PICK q \in {"blocked", "stuck"} :
                  car' = [b EXCEPT !.rung = b.rung + 1, !.phase = q]
            <6>1. b.phase = "blocked"
              BY <2>2 DEF b, Cars
            <6>2. car' = [b EXCEPT !.rung = b.rung + 1,
                                   !.phase = IF b.rung = 3 THEN "stuck" ELSE b.phase]
              BY <2>5, <4>1, <4>3 DEF Recover, Cars
            <6> QED
              BY <6>1, <6>2
          <5>3. intent' = RecoveryLadder[b.rung + 1]
            BY <4>1, <4>3 DEF Recover
          <5>4. car' \in Cars /\ car'.seated = b.seated /\ car'.moved = b.moved
            <6> DEFINE n == b.rung + 1
                       e == [b EXCEPT !.rung = n]
            <6>1. n \in 0 .. 4
              BY <5>1
            <6>2. car' = [e EXCEPT !.phase = q]
              BY <5>2
            <6> HIDE DEF n
            <6>3. e \in Cars /\ e.seated = b.seated /\ e.moved = b.moved
              BY <2>5, <6>1, RungSet
            <6> HIDE DEF e
            <6> QED
              BY <6>2, <6>3 DEF Cars
          <5>5. car'.window = b.window /\ car'.rung = b.rung + 1
            BY <2>5, <5>1, <5>2 DEF Cars
          <5> QED
            BY <1>1, <1>4, <3>1, <4>1, <5>1, <5>3, <5>4, <5>5 DEF DriveInv, RungsAreEarned
        <4> QED
          BY <4>2, <4>3
      <3> QED
        BY <3>2, <3>3
    <2> QED
      BY <2>7, <2>8
  <1> QED
    BY <1>3, <1>5, <1>6, <1>7

LEMMA DriveStep ==
    ASSUME DriveInv, [DrivingNext]_drivingVars
    PROVE  DriveInv' /\ [RungsAreEarned]_drivingVars
  <1>0. car \in Cars /\ regained \in Stopwatches /\ car.rung \in 0 .. 4
    BY DEF DriveInv, Cars
  <1>1. CASE \E p \in Polls, gap \in BOOLEAN : Feed(p, gap)
    BY <1>1, FeedStep
  <1>2. CASE ClockRuns /\ UNCHANGED <<intent, regained>>
    <2>1. car' \in Cars /\ car'.seated = car.seated /\ car'.moved = car.moved
      BY <1>0, <1>2 DEF ClockRuns, Cars, Spells
    <2>2. car'.rung = car.rung /\ (car'.window # "off" => car.window # "off")
      BY <1>0, <1>2 DEF ClockRuns, Cars, Spells
    <2> QED
      BY <1>0, <1>2, <2>1, <2>2 DEF DriveInv, RungsAreEarned
  <1>3. CASE ControlBack
    <2>1. regained' = Armed(regained) /\ UNCHANGED <<car, intent>>
      BY <1>3 DEF ControlBack
    <2>2. regained' \in Stopwatches
      BY <1>0, <2>1 DEF Armed, Stopwatches, Spells
    <2>3. /\ regained'.edge = TRUE /\ regained'.answered = FALSE
          /\ regained'.reported = FALSE /\ regained'.age = "new" /\ regained'.owed = TRUE
      BY <1>0, <2>1 DEF Armed, Stopwatches
    <2> QED
      BY <1>0, <2>1, <2>2, <2>3 DEF DriveInv, RungsAreEarned
  <1>4. CASE MovementPosted
    <2>1. regained' = [regained EXCEPT !.answered = TRUE, !.owed = FALSE] /\ UNCHANGED <<car, intent>>
      BY <1>4 DEF MovementPosted
    <2>2. regained' \in Stopwatches
      BY <1>0, <2>1 DEF Stopwatches
    <2>3. /\ regained'.edge = regained.edge /\ regained'.answered = TRUE
          /\ regained'.age = regained.age /\ regained'.owed = FALSE
      BY <1>0, <2>1 DEF Stopwatches
    <2> QED
      BY <1>0, <2>1, <2>2, <2>3 DEF DriveInv, RungsAreEarned
  <1>5. CASE Overdue
    <2>1. regained' = [regained EXCEPT !.reported = TRUE, !.owed = FALSE] /\ UNCHANGED <<car, intent>>
      BY <1>5 DEF Overdue
    <2>2. regained' \in Stopwatches
      BY <1>0, <2>1 DEF Stopwatches
    <2>3. /\ regained'.edge = regained.edge /\ regained'.reported = TRUE
          /\ regained'.age = regained.age /\ regained'.owed = FALSE
      BY <1>0, <2>1 DEF Stopwatches
    <2> QED
      BY <1>0, <2>1, <2>2, <2>3 DEF DriveInv, RungsAreEarned
  <1>6. CASE DeadlinePasses
    <2>1. regained.age = "new" /\ regained' = [regained EXCEPT !.age = "old"] /\ UNCHANGED <<car, intent>>
      BY <1>6 DEF DeadlinePasses
    <2>2. regained' \in Stopwatches
      BY <1>0, <2>1 DEF Stopwatches, Spells
    <2>3. /\ regained'.edge = regained.edge /\ regained'.answered = regained.answered
          /\ regained'.reported = regained.reported /\ regained'.age = "old"
          /\ regained'.owed = regained.owed
      BY <1>0, <2>1 DEF Stopwatches
    <2> QED
      BY <1>0, <2>1, <2>2, <2>3 DEF DriveInv, RungsAreEarned
  <1>7. CASE DrivingReset
    <2>1. car' \in Cars /\ car'.window = "off" /\ car'.rung = 0 /\ intent' = NoIntent
      BY <1>7 DEF DrivingReset, OutOfCar, Cars, Spells
    <2>2. regained' \in Stopwatches /\ ~regained'.edge /\ regained'.age = "off" /\ ~regained'.owed
      BY <1>7 DEF DrivingReset, Stopwatches, Spells
    <2> QED
      BY <1>0, <2>1, <2>2 DEF DriveInv, RungsAreEarned, LadderRungs
  <1>8. CASE UNCHANGED drivingVars
    BY <1>8 DEF drivingVars, DriveInv
  <1> QED
    BY <1>1, <1>2, <1>3, <1>4, <1>5, <1>6, <1>7, <1>8 DEF DrivingNext

LEMMA DriveInit ==
    ASSUME DrivingInit
    PROVE  DriveInv
  BY DEF DrivingInit, DriveInv, OutOfCar, Cars, Stopwatches, Spells

\* He is told to leave a car only as the fourth rung of a ladder climbed in it, in order, each
\* when the window was over and the car had not moved since he got in; and what
\* the returned controls are owed stays answerable until it is answered or told.  What
\* DrivingAnswers rests on (VehicleController._recover, ControlRegained).
THEOREM CarsAreLeftLast == DrivingSpec => []DriveInv /\ [][RungsAreEarned]_drivingVars
  <1> QED
    BY DriveInit, DriveStep, PTL DEF DrivingSpec
=============================================================================
