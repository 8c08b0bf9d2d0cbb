-------------------------------- MODULE Deaths --------------------------------
(***************************************************************************)
(* How a death or an arrest is told: polls that compare a snapshot with    *)
(* the one before (Perceptor), the row of the event, the clip of the       *)
(* replay that a thread saves through OBS and uploads (main.py, obs.py),   *)
(* and what is forgotten once he is up again (DeathArrestRecovery).        *)
(* Breaks, polls that fail and new game processes come in between.         *)
(***************************************************************************)
EXTENDS Naturals, FiniteSets

CONSTANT MaxSpells   \* bound: how often he goes down

VARIABLES
  body,     \* the game: what he is, how often he went down, whether the process is new
  before,   \* Perceptor.prev, and whether the harness is on a break
  recovery, \* DeathArrestRecovery._down_since
  aim,      \* the spells he had behind him when his goal was set
  told,     \* events told of the present spell; history: the spells told, those first
            \* seen in a way that tells nothing, and the last one a reflex saw
  clip,     \* the clip's thread, and whether another spell's replay was announced to it
  obs,      \* OBS: replays asked for and not announced; _saved_path, _saved_event
  shelf     \* whether a store is configured, its objects, the rows of clips

deathVars == <<body, before, recovery, aim, told, clip, obs, shelf>>

Kinds == {"death", "busted"}
Up == {}
Nothing == 0

DeathsInit ==
  /\ body = [is |-> Up, spells |-> 0, anew |-> FALSE]
  /\ before = [knows |-> FALSE, was |-> Up, rests |-> FALSE]
  /\ recovery = FALSE /\ aim = 0
  /\ told = [now |-> [k \in Kinds |-> 0], spells |-> {}, missed |-> {}, seen |-> 0]
  /\ clip = [at |-> "free", for |-> Nothing, file |-> Nothing, late |-> FALSE]
  /\ obs = [asked |-> {}, path |-> Nothing]
  /\ \E c \in BOOLEAN : shelf = [store |-> c, objects |-> {}, rows |-> {}]

-----------------------------------------------------------------------------
(* The game.                                                               *)

GoesDown ==
  /\ body.is = Up /\ body.spells < MaxSpells
  /\ \E k \in Kinds :
        /\ body' = [body EXCEPT !.is = {k}, !.spells = @ + 1]
        /\ told' = [told EXCEPT !.now = [j \in Kinds |-> 0], \* the last snapshot has him so already
                                !.missed = @ \cup (IF k \in before.was THEN {body.spells + 1} ELSE {})]
  /\ UNCHANGED <<before, recovery, aim, clip, obs, shelf>>

\* Shot in handcuffs; back on his feet; a new process, where he is up.
BodyChanges ==
  /\ \/ body.is = {"busted"} /\ body' = [body EXCEPT !.is = Kinds]
     \/ body' = [body EXCEPT !.is = Up]
     \/ body' = [body EXCEPT !.is = Up, !.anew = TRUE]
  /\ UNCHANGED <<before, recovery, aim, told, clip, obs, shelf>>

-----------------------------------------------------------------------------
(* The harness's polls.                                                    *)

\* Mutant: what a poll sees is told, whatever the last one saw.
NewsEachPoll == IF before.knows THEN body.is ELSE {}

\* Perceptor.observe: what is so and was not so in the snapshot before.
News == IF before.knows THEN body.is \ before.was ELSE {}

Observed == [before EXCEPT !.knows = TRUE, !.was = body.is]
Spell(down) == IF down THEN {body.spells} ELSE {}

\* _on_game_restart: nothing is compared with the world of another process.
RestartPoll ==
  /\ body.anew /\ body' = [body EXCEPT !.anew = FALSE]
  /\ before' = [before EXCEPT !.knows = FALSE, !.was = Up]
  /\ recovery' = FALSE /\ aim' = body.spells
  /\ UNCHANGED <<told, clip, obs, shelf>>

\* _handle_breaks, after the snapshot was observed: the tick ends here, and what
\* was new in it is told by nobody.
BreakPoll ==
  /\ ~body.anew
  /\ before' = [Observed EXCEPT !.rests = TRUE]
  /\ told' = [told EXCEPT !.missed =
                @ \cup Spell(News # {} \/ (body.is # Up /\ ~before.knows))]
  /\ UNCHANGED <<body, recovery, aim, clip, obs, shelf>>

\* _capture_clip_async: one clip at a time.
ClipStarts == IF News # {} /\ clip.at = "free" THEN [clip EXCEPT !.at = "slow", !.for = body.spells] ELSE clip

Respawned == recovery /\ body.is = Up

\* _reflex: tell what is new, with its clip; once he is up, forget what he was after.
ReflexPoll ==
  /\ ~body.anew
  /\ before' = [Observed EXCEPT !.rests = FALSE]
  /\ told' = [now |-> [k \in Kinds |-> told.now[k] + (IF k \in News THEN 1 ELSE 0)],
              spells |-> told.spells \cup Spell(News # {}),
              missed |-> told.missed \cup Spell(body.is # Up /\ ~before.knows),
              seen |-> IF body.is = Up THEN told.seen ELSE body.spells]
  /\ clip' = ClipStarts
  /\ recovery' = (body.is # Up)
  /\ aim' = IF Respawned THEN body.spells ELSE aim
  /\ UNCHANGED <<body, obs, shelf>>

\* Later in a tick a layer sets a goal; the snapshot may be of a moment ago.
AimSet ==
  /\ ~before.rests /\ before.was = Up /\ before.knows
  /\ aim' = IF body.is = Up THEN body.spells ELSE body.spells - 1
  /\ UNCHANGED <<body, before, recovery, told, clip, obs, shelf>>

-----------------------------------------------------------------------------
(* The clip.                                                               *)

ClipOnly == UNCHANGED <<body, before, recovery, aim, told>>
ClipOver == [clip EXCEPT !.at = "free", !.for = Nothing, !.file = Nothing]

\* save_replay: the event is cleared, and then the replay is asked for.
Cleared == /\ clip.at = "slow" /\ clip' = [clip EXCEPT !.at = "cleared", !.late = FALSE]
           /\ obs' = [obs EXCEPT !.path = Nothing] /\ UNCHANGED shelf /\ ClipOnly

ReplayAsked == /\ clip.at = "cleared" /\ clip' = [clip EXCEPT !.at = "waits"]
               /\ obs' = [obs EXCEPT !.asked = @ \cup {clip.for}] /\ UNCHANGED shelf /\ ClipOnly

\* on_replay_buffer_saved, on the thread of OBS's client, whenever it comes.
Announced == /\ \E r \in obs.asked :
                  /\ obs' = [asked |-> obs.asked \ {r}, path |-> r]
                  /\ clip' = [clip EXCEPT !.late = @ \/ (clip.at \in {"cleared", "waits"} /\ clip.for # r)]
             /\ UNCHANGED shelf /\ ClipOnly

SavedSeen == /\ clip.at = "waits" /\ obs.path # Nothing
             /\ clip' = [clip EXCEPT !.at = "uploads", !.file = obs.path] /\ UNCHANGED <<obs, shelf>> /\ ClipOnly

\* capture_clip: the object first, and the answer of the store may be lost; with
\* no store configured a warning, and on to the row.
Uploads ==
  /\ clip.at = "uploads"
  /\ \/ /\ shelf.store /\ shelf' = [shelf EXCEPT !.objects = @ \cup {<<clip.for, clip.file>>}]
        /\ clip' \in {ClipOver, [clip EXCEPT !.at = "inserts"]}
     \/ /\ ~shelf.store /\ UNCHANGED shelf
        /\ clip' = [clip EXCEPT !.at = "inserts"]
  /\ UNCHANGED obs /\ ClipOnly

\* The row, inserted or queued.
ClipRow == [for |-> clip.for, file |-> clip.file, late |-> clip.late]
Inserts == /\ clip.at = "inserts" /\ shelf' = [shelf EXCEPT !.rows = @ \cup {ClipRow}]
           /\ clip' = ClipOver /\ UNCHANGED obs /\ ClipOnly

\* Mutant: a clip whose upload failed goes on to its row.
FailsOnward == /\ clip.at \in {"slow", "cleared", "waits", "uploads"}
               /\ clip' = IF clip.at = "uploads" THEN [clip EXCEPT !.at = "inserts"] ELSE ClipOver
               /\ UNCHANGED <<obs, shelf>> /\ ClipOnly

\* OBS cannot be asked, its event does not come in time, the file cannot be read,
\* the upload fails: the thread ends, nothing else does.
Fails == /\ clip.at \in {"slow", "cleared", "waits", "uploads"}
         /\ clip' = ClipOver /\ UNCHANGED <<obs, shelf>> /\ ClipOnly

DeathsNext ==
  \/ GoesDown \/ BodyChanges \/ RestartPoll \/ BreakPoll \/ ReflexPoll \/ AimSet
  \/ Cleared \/ ReplayAsked \/ Announced \/ SavedSeen \/ Uploads \/ Inserts \/ Fails

-----------------------------------------------------------------------------
\* A death is never told twice, whatever breaks, failed polls and new processes lie
\* between the polls that saw him down; and a spell in which a reflex saw him down
\* was told, unless its first sight tells nothing: a poll of a break, a poll with no
\* snapshot to compare with, or one whose last snapshot had him down the same way
\* already (Perceptor, _reflex, _handle_breaks).  A clip's row names a spell that was
\* told; where a store is configured its object is there; and it holds that spell's
\* replay, unless another spell's was announced between the clearing and the seeing
\* (obs.py).  And once a poll has seen him down and another sees him up, no goal from
\* before is left for the layers that act on it (DeathArrestRecovery).
DeathsAreTold ==
  /\ \A k \in Kinds : told.now[k] <= 1
  /\ told.seen # 0 => told.seen \in told.spells \cup told.missed
  /\ \A r \in shelf.rows : /\ r.for \in told.spells /\ (r.late \/ r.file = r.for)
                           /\ shelf.store => <<r.for, r.file>> \in shelf.objects
  /\ before.knows /\ ~before.rests /\ before.was = Up => aim >= told.seen
=============================================================================
