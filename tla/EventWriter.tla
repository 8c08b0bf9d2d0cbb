----------------------------- MODULE EventWriter ----------------------------
(***************************************************************************)
(* How telemetry of one session reaches the database: SupabaseWriter in    *)
(* two processes, the harness's loop and the watchdog's post_event, each   *)
(* with a buffer in memory, sharing the queue file on disk.                *)
(*                                                                         *)
(* A flush takes the buffer, enters the critical section of the queue      *)
(* file, reads the backlog, sends it run by run, and rewrites the file     *)
(* with what did not land.  Requests fail, or land with their answer lost; *)
(* the file refuses a rewrite; either process dies.                        *)
(***************************************************************************)
EXTENDS Integers, FiniteSets, SequencesExt

CONSTANTS
    LoopTypes,      \* the types of event the loop may record as it plays
    ClipTypes,      \* those a connected clip pipeline has inserted at once
    Watchdog,       \* whether the watchdog runs
    LockGivesUp,    \* whether the file lock is only tried for a while (Windows)
    QueueCap, Batch,
    WriterTime, MaxEvents, MaxFaults,
    NULL

\* The same types as Settlement: what decides a rule, what does not, and the
\* outages of the bridge.
Types == {"hit", "miss", "down", "up", "end"}
Processes == {"loop", "cli"}

\* op is the table and operation of a row: an event's insert, the heartbeat's
\* upsert or the update of sessions.ended_at.
EventRows == [op : {"event"}, by : Processes, ts : Nat, type : Types]
Rows == EventRows \cup [op : {"stats", "session"}, ts : Nat]

\* A flush in progress: before or in the critical section, the runs still to be
\* sent, what did not land, whether all has gone well, whether its process is
\* about to exit, and the rows it took from memory.
Flights == [pc : {"enter", "send"}, runs : Seq(Seq(Rows)), ok : BOOLEAN,
            remaining : Seq(Rows), final : BOOLEAN, held : Seq(Rows)]

ASSUME WriterAssumption ==
    /\ LoopTypes \subseteq Types \ {"end"}
    /\ ClipTypes \subseteq LoopTypes /\ Watchdog \in BOOLEAN /\ LockGivesUp \in BOOLEAN
    /\ {QueueCap, Batch} \subseteq Nat \ {0}
    /\ {WriterTime, MaxEvents, MaxFaults} \subseteq Nat
    /\ NULL \notin Processes \cup Nat \cup Flights

VARIABLES
    now,
    made,        \* every event recorded, in order: what really was
    table,       \* the rows of the table events, in the order they landed
    heartbeat,   \* stats.heartbeat_at, 0 when there is no row
    ended,       \* sessions.ended_at, or NULL
    over,        \* when the loop stopped or died, or NULL
    buffer, queue, lock, flight, unflushed,
    faults,
    doubt,       \* whether some row may have landed without its writer knowing
    gone,        \* rows given up: trimmed, or in the memory of a dead process
    exposed      \* rows put on the file while the other process was between its
                 \* read of the file and its rewrite, and not on that one's list

published == <<table, heartbeat, ended>>
writerVars == <<now, made, published, over, buffer, queue, lock, flight, unflushed,
                faults, doubt, gone, exposed>>

WriterInit ==
    /\ now = 0 /\ made = <<>> /\ table = <<>>
    /\ heartbeat = 0 /\ ended = NULL /\ over = NULL
    /\ buffer = [p \in Processes |-> <<>>]
    /\ queue = <<>> /\ lock = NULL
    /\ flight = [p \in Processes |-> NULL]
    /\ unflushed = FALSE
    /\ faults = 0 /\ doubt = FALSE /\ gone = {} /\ exposed = {}

-----------------------------------------------------------------------------
(* Rows and what the writer does to lists of them                          *)

EventRow(p, ts, type) == [op |-> "event", by |-> p, ts |-> ts, type |-> type]
StatsRow(ts) == [op |-> "stats", ts |-> ts]
EndRow(ts) == [op |-> "session", ts |-> ts]

IsStats(row) == row.op = "stats"

\* The rows of a list that stand at certain places of it, in their order.
Place(places, k) == CHOOSE i \in places : Cardinality({j \in places : j <= i}) = k

RowsAt(rows, places) == [k \in 1 .. Cardinality(places) |-> rows[Place(places, k)]]

\* Only the newest heartbeat of a list stays.
CoalesceStats(rows) ==
    RowsAt(rows, {i \in DOMAIN rows :
                    IsStats(rows[i]) => \A j \in DOMAIN rows : j > i => ~IsStats(rows[j])})

\* Consecutive rows with the same table and operation.
Runs(rows) ==
    LET begins == {i \in DOMAIN rows : i = 1 \/ rows[i].op # rows[i - 1].op}
        Begin(k) == Place(begins, k)
        End(k) == IF k = Cardinality(begins) THEN Len(rows) ELSE Begin(k + 1) - 1
    IN  [k \in 1 .. Cardinality(begins) |-> SubSeq(rows, Begin(k), End(k))]

\* The heartbeat goes last.
StatsLast(runs) ==
    RowsAt(runs, {k \in DOMAIN runs : ~IsStats(runs[k][1])})
        \o RowsAt(runs, {k \in DOMAIN runs : IsStats(runs[k][1])})

\* At the cap redundant heartbeats are dropped, and then the oldest rows.
Trim(rows) ==
    LET c == CoalesceStats(rows)
        first == IF Len(c) <= QueueCap THEN 1 ELSE Len(c) - QueueCap + 1
    IN  IF Len(rows) < QueueCap THEN rows ELSE SubSeq(c, first, Len(c))

\* What the database holds once rows have landed.
Landed(rows) ==
    /\ table' = table \o RowsAt(rows, {i \in DOMAIN rows : rows[i].op = "event"})
    /\ heartbeat' = IF \E i \in DOMAIN rows : IsStats(rows[i])
                    THEN (CHOOSE r \in ToSet(rows) : IsStats(r)).ts ELSE heartbeat
    /\ ended' = IF \E i \in DOMAIN rows : rows[i].op = "session"
                THEN (CHOOSE r \in ToSet(rows) : r.op = "session").ts ELSE ended

Fault == faults < MaxFaults /\ faults' = faults + 1

-----------------------------------------------------------------------------
(* The loop                                                                *)

Idle(p) == flight[p] = NULL
Running == over = NULL /\ Idle("loop")

\* The bridge client reports an outage when it begins and when it ends.
BridgeDown == \E i \in DOMAIN made :
    /\ made[i].by = "loop" /\ made[i].type = "down"
    /\ \A j \in i + 1 .. Len(made) : made[j].type # "up"

\* Recording takes a unit of time, so no two rows share a timestamp.
Make(p, type) ==
    /\ Len(made) < MaxEvents /\ now < WriterTime
    /\ now' = now + 1
    /\ made' = Append(made, EventRow(p, now + 1, type))

Made(p, type) == EventRow(p, now + 1, type)

CanRecord(type) ==
    /\ Running
    /\ type \in LoopTypes
    /\ type = "down" => ~BridgeDown
    /\ type = "up" => BridgeDown

\* With clips connected, deaths and arrests are inserted at once instead: the
\* clip needs the id of its event.
RecordEvent(type) ==
    /\ CanRecord(type)
    /\ type \notin ClipTypes
    /\ Make("loop", type)
    /\ buffer' = [buffer EXCEPT !["loop"] = Append(@, Made("loop", type))]
    /\ UNCHANGED <<published, over, queue, lock, flight, unflushed, faults, doubt, gone, exposed>>

At(p, pc) == flight[p] # NULL /\ flight[p].pc = pc

\* The rows a flush has read from the file, or taken from memory, and not
\* landed so far.
InRuns(runs) == UNION {ToSet(runs[k]) : k \in DOMAIN runs}
Unsent(p) == InRuns(flight[p].runs) \cup ToSet(flight[p].remaining)

\* Whether another process is between its read and its rewrite.
Inside(p) == \E q \in Processes \ {p} : At(q, "send")

\* What it does not know of, it erases when it rewrites the file.
Exposes(p, rows) ==
    exposed' = exposed \cup {r \in rows : \E q \in Processes \ {p} :
                                             At(q, "send") /\ r \notin Unsent(q)}

\* The append waits for the lock, or goes ahead without it.
Enqueue(row) ==
    /\ lock = NULL \/ LockGivesUp
    /\ queue' = Trim(Append(queue, row))
    /\ gone' = gone \cup {r \in ToSet(Append(queue, row)) \ ToSet(queue') : ~IsStats(r)}
    /\ Exposes("loop", {row})

\* A failed insert is queued; its answer may have been all that was lost, and
\* the disk may refuse it too.
InsertEventNow(type) ==
    LET row == Made("loop", type) IN
    /\ CanRecord(type)
    /\ type \in ClipTypes
    /\ Make("loop", type)
    /\ \/ /\ Landed(<<row>>)
          /\ UNCHANGED <<queue, gone, exposed, faults, doubt>>
       \/ /\ Fault
          /\ Enqueue(row)
          /\ \/ UNCHANGED <<published, doubt>>
             \/ Landed(<<row>>) /\ doubt' = TRUE
       \/ /\ Fault
          /\ gone' = gone \cup {row}
          /\ UNCHANGED <<published, queue, doubt, exposed>>
    /\ UNCHANGED <<over, buffer, lock, flight, unflushed>>

\* Withheld while the game is out of sight or a backlog is known, and at most
\* one heartbeat is pending in the buffer.
Heartbeat ==
    /\ Running /\ ~BridgeDown
    /\ ~unflushed
    /\ heartbeat < now
    /\ LET pending == {i \in DOMAIN buffer["loop"] : IsStats(buffer["loop"][i])}
       IN  buffer' = [buffer EXCEPT !["loop"] =
                IF pending = {} THEN Append(@, StatsRow(now))
                ELSE [@ EXCEPT ![CHOOSE i \in pending : TRUE] = StatsRow(now)]]
    /\ UNCHANGED <<now, made, published, over, queue, lock, flight, unflushed, faults, doubt, gone,
                   exposed>>

\* The clean stop: session_end, sessions.ended_at, and one flush.
Stop ==
    /\ Running
    /\ Make("loop", "end")
    /\ over' = now + 1
    /\ flight' = [flight EXCEPT !["loop"] =
            [pc |-> "enter", runs |-> <<>>, ok |-> TRUE, remaining |-> <<>>, final |-> TRUE,
             held |-> buffer["loop"] \o <<Made("loop", "end"), EndRow(now + 1)>>]]
    /\ buffer' = [buffer EXCEPT !["loop"] = <<>>]
    /\ UNCHANGED <<published, queue, lock, unflushed, faults, doubt, gone, exposed>>

\* The loop dies with its memory.  Whatever runs next in its place is another
\* session's harness with an empty buffer and the same queue file.
Crash ==
    /\ over = NULL
    /\ over' = now
    /\ gone' = gone \cup ToSet(buffer["loop"])
                    \cup IF Idle("loop") THEN {} ELSE ToSet(flight["loop"].held)
    /\ doubt' = (doubt \/ ~Idle("loop"))
    /\ buffer' = [buffer EXCEPT !["loop"] = <<>>]
    /\ flight' = [flight EXCEPT !["loop"] = NULL]
    /\ lock' = IF lock = "loop" THEN NULL ELSE lock
    /\ unflushed' = FALSE
    /\ UNCHANGED <<now, made, published, queue, faults, exposed>>

-----------------------------------------------------------------------------
(* The watchdog                                                            *)

\* post_event stamps its row with the session of state/current_session.json,
\* which only a clean stop removes.
PostEvent ==
    /\ Watchdog
    /\ ~ \E i \in DOMAIN made : made[i].type = "end"
    /\ Idle("cli") /\ buffer["cli"] = <<>>
    /\ Make("cli", "down")
    /\ buffer' = [buffer EXCEPT !["cli"] = <<Made("cli", "down")>>]
    /\ UNCHANGED <<published, over, queue, lock, flight, unflushed, faults, doubt, gone, exposed>>

-----------------------------------------------------------------------------
(* A flush                                                                 *)

\* Mutant: looks at the memory only, never at the file.
HasBuffer(p) == buffer[p] # <<>>

\* A flush of the loop that would find nothing is left out; the watchdog's
\* process flushes once, for the row it was started to post.
HasWork(p) == buffer[p] # <<>> \/ (p = "loop" /\ (queue # <<>> \/ unflushed))

FlushStart(p) ==
    /\ Idle(p)
    /\ HasWork(p)
    /\ flight' = [flight EXCEPT ![p] =
            [pc |-> "enter", runs |-> <<>>, ok |-> TRUE, remaining |-> <<>>, final |-> p = "cli",
             held |-> buffer[p]]]
    /\ buffer' = [buffer EXCEPT ![p] = <<>>]
    /\ UNCHANGED <<now, made, published, over, queue, lock, unflushed, faults, doubt, gone, exposed>>

\* One process at a time holds the file, unless the lock gives up waiting.
EnterFile(p) ==
    \/ lock = NULL /\ lock' = p
    \/ lock # NULL /\ LockGivesUp /\ UNCHANGED lock

LeaveFile(p) ==
    /\ flight' = [flight EXCEPT ![p] = NULL]
    /\ lock' = IF lock = p THEN NULL ELSE lock

Report(p, drained) == unflushed' = IF p = "loop" THEN ~drained ELSE unflushed

\* When the file cannot be read or written, a process that goes on keeps the
\* rows in memory, and one that was about to exit loses them.
Keep(p, rows) ==
    /\ Report(p, FALSE)
    /\ \/ /\ ~flight[p].final
          /\ buffer' = [buffer EXCEPT ![p] = rows \o @]
          /\ UNCHANGED gone
       \/ /\ flight[p].final
          /\ gone' = gone \cup ToSet(rows)
          /\ UNCHANGED buffer

\* Into the critical section, where the backlog is read.  Of two processes that
\* have both read it neither knows what the other will have sent.
FlushEnter(p) ==
    /\ At(p, "enter")
    /\ EnterFile(p)
    /\ doubt' = (doubt \/ Inside(p))
    /\ \E rows \in {CoalesceStats(queue \o flight[p].held)} : \E runs \in {Runs(rows)} :
        flight' = [flight EXCEPT ![p].pc = "send", ![p].runs = StatsLast(runs)]
    /\ UNCHANGED <<now, made, published, over, buffer, queue, unflushed, faults, gone, exposed>>

\* The lock or the file is refused before anything is sent.
FlushRefused(p) ==
    /\ At(p, "enter")
    /\ lock = NULL \/ LockGivesUp
    /\ Fault
    /\ LeaveFile(p)
    /\ Keep(p, flight[p].held)
    /\ UNCHANGED <<now, made, published, over, queue, doubt, exposed>>

NextRun(p) == Head(flight[p].runs)

\* Mutant: heartbeats are sent whatever became of the runs before them.
NeverHeldBack(p) == FALSE

\* Heartbeats are skipped entirely once anything has failed.
HeldBack(p) == IsStats(NextRun(p)[1]) /\ ~flight[p].ok

\* Mutant: a chunk counts as written before it is.
OnwardPast(p, left, ok) ==
    flight' = [flight EXCEPT ![p].runs = Tail(@), ![p].ok = ok,
                             ![p].remaining = @ \o SubSeq(left, Batch + 1, Len(left))]

\* Mutant: a run that failed is queued again from its beginning.
OnwardWhole(p, left, ok) ==
    flight' = [flight EXCEPT ![p].runs = Tail(@), ![p].ok = ok,
                             ![p].remaining = @ \o IF left = <<>> THEN left ELSE NextRun(p)]

\* On to the next run, with left of this one still to be written.
Onward(p, left, ok) ==
    flight' = [flight EXCEPT ![p].runs = Tail(@), ![p].remaining = @ \o left, ![p].ok = ok]

\* Rows go in chunks of Batch: a failure leaves a prefix behind it.
Sent(run) == {n \in 0 .. Len(run) - 1 : n % Batch = 0}

\* An outage counts once in a flush.
Outage(p) == IF flight[p].ok THEN Fault ELSE UNCHANGED faults

FlushRun(p) ==
    /\ At(p, "send") /\ flight[p].runs # <<>>
    /\ \/ /\ HeldBack(p)
          /\ Onward(p, NextRun(p), FALSE)
          /\ UNCHANGED <<published, faults, doubt>>
       \/ /\ ~HeldBack(p)
          /\ Landed(NextRun(p))
          /\ Onward(p, <<>>, flight[p].ok)
          /\ UNCHANGED <<faults, doubt>>
       \/ /\ ~HeldBack(p) /\ Outage(p)
          /\ \E n \in Sent(NextRun(p)) :
              /\ Onward(p, SubSeq(NextRun(p), n + 1, Len(NextRun(p))), FALSE)
              /\ \/ Landed(SubSeq(NextRun(p), 1, n)) /\ UNCHANGED doubt
                 \/ /\ Landed(SubSeq(NextRun(p), 1,
                                     IF n + Batch <= Len(NextRun(p)) THEN n + Batch ELSE Len(NextRun(p))))
                    /\ doubt' = TRUE
    /\ UNCHANGED <<now, made, over, buffer, queue, lock, unflushed, gone, exposed>>

\* The file is rewritten with what did not land, or refuses.
FlushEnd(p) ==
    /\ At(p, "send") /\ flight[p].runs = <<>>
    /\ LeaveFile(p)
    /\ \/ /\ queue' = flight[p].remaining
          /\ Exposes(p, ToSet(flight[p].remaining))
          /\ Report(p, flight[p].ok /\ flight[p].remaining = <<>>)
          /\ UNCHANGED <<buffer, faults, doubt, gone>>
       \/ /\ Fault /\ doubt' = TRUE
          /\ Keep(p, flight[p].remaining)
          /\ UNCHANGED <<queue, exposed>>
    /\ UNCHANGED <<now, made, published, over>>

Tick ==
    /\ now < WriterTime
    /\ now' = now + 1
    /\ UNCHANGED <<made, published, over, buffer, queue, lock, flight, unflushed, faults, doubt, gone,
                   exposed>>

Flush(p) == FlushStart(p) \/ FlushEnter(p) \/ FlushRefused(p) \/ FlushRun(p) \/ FlushEnd(p)

WriterNext ==
    \/ \E type \in Types : RecordEvent(type) \/ InsertEventNow(type)
    \/ Heartbeat \/ Stop \/ Crash \/ PostEvent \/ Tick
    \/ \E p \in Processes : Flush(p)

WriterSpec == WriterInit /\ [][WriterNext]_writerVars

\* The harness flushes every two seconds while it runs, and after a crash the
\* next one does.
WriterLiveSpec ==
    /\ WriterSpec
    /\ \A p \in Processes : WF_writerVars(Flush(p))

-----------------------------------------------------------------------------
(* Properties                                                              *)

\* Every variable has its type.
WriterTypeOK ==
    /\ now \in Nat /\ made \in Seq(EventRows) /\ table \in Seq(EventRows)
    /\ heartbeat \in Nat /\ {ended, over} \subseteq Nat \cup {NULL}
    /\ buffer \in [Processes -> Seq(Rows)] /\ queue \in Seq(Rows)
    /\ lock \in Processes \cup {NULL}
    /\ flight \in [Processes -> Flights \cup {NULL}]
    /\ unflushed \in BOOLEAN /\ doubt \in BOOLEAN /\ faults \in Nat
    /\ gone \cup exposed \subseteq Rows

\* A heartbeat in the database vouches for the loop: every event the loop
\* recorded before it is there too, unless it was given up, or put on the file
\* under the hands of the other process (the order of runs in _write_entries and
\* the unflushed flag).
HeartbeatHonest ==
    \A i \in DOMAIN made :
        made[i].by = "loop" /\ made[i].ts <= heartbeat
            => made[i] \in ToSet(table) \cup gone \cup exposed

Held == ToSet(queue) \cup (UNION {ToSet(buffer[p]) : p \in Processes})
            \cup (UNION {ToSet(flight[p].held) : p \in {q \in Processes : ~Idle(q)}})

\* The lock of the queue file is given up after a second and a half, and two
\* processes then read, send and rewrite the file at once (_queue_file_lock).
\* Between memory, file and database no event disappears even so, but those a
\* crash, a full queue or a failing disk cost, and those put on the file while
\* the other process, which does not have them on its list, is between its read
\* and its rewrite (_flush_once, _write_entries).
NothingLost == \A i \in DOMAIN made : made[i] \in ToSet(table) \cup Held \cup gone \cup exposed

\* As long as no answer or rewrite was lost, and no two processes have read the
\* same backlog, a failed flush never inserts a row a second time: only what did
\* not land is requeued.
OncePerEvent ==
    ~doubt => \A i, j \in DOMAIN table : table[i] = table[j] => i = j

\* What is recorded reaches the database once the database stays reachable,
\* from the next harness's flush if need be, unless the other process erased it
\* from the file.
EventsLand == <>[](\A i \in DOMAIN made : made[i] \in ToSet(table) \cup gone \cup exposed)
=============================================================================
