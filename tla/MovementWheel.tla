--------------------------- MODULE MovementWheel ---------------------------
(***************************************************************************)
(* The movement wheel of behavior/vehicle.py: one owner of bridge-task     *)
(* movement at a time.  Operators on a wheel value; HarnessTick holds the  *)
(* one wheel there is and runs the preempt hooks.                          *)
(*                                                                         *)
(* Ticks are not counted: a lease of one tick is "tick" and is over at the *)
(* next BeginTick, and what the code keys on the current tick number       *)
(* (_posted_tick, _noted_reflex_tick) is cleared there.                    *)
(***************************************************************************)
EXTENDS Naturals

\* MOVEMENT_OWNER_TABLE: class * 100 + rank, so (klass, rank) is its order.
Rank ==
  [flip |-> 310, water |-> 309, road_dodge |-> 308, threat |-> 307,
   vehicle |-> 306, physical |-> 305, operator |-> 305, governor |-> 304,
   exit_interior |-> 303, house_escape |-> 302, stranded |-> 301,
   idle_breaker |-> 301, resume |-> 300, brain |-> 202, mission |-> 201,
   day_plan |-> 200, roam |-> 100, idle |-> 0]

Owners == DOMAIN Rank
Nobody == "nobody"
Reflexes == {o \in Owners : Rank[o] >= 300}

Leases == {"tick", "open"}

Wheels ==
  [owner : Owners \cup {Nobody}, lease : Leases, posted : Owners \cup {Nobody},
   noted : BOOLEAN, mission : BOOLEAN, forced : BOOLEAN]

FreeWheel ==
  [owner |-> Nobody, lease |-> "tick", posted |-> Nobody,
   noted |-> FALSE, mission |-> FALSE, forced |-> FALSE]

\* release, release_owner and _free.
Freed(w) == [w EXCEPT !.owner = Nobody, !.lease = "tick", !.forced = FALSE]
ReleaseOwner(w, o) == IF w.owner = o THEN Freed(w) ELSE w

\* begin_tick: a one-tick lease expires without a hook, the latch resets.
BeginTick(w) ==
  [(IF w.lease = "tick" THEN Freed(w) ELSE w)
     EXCEPT !.posted = Nobody, !.noted = FALSE]

\* Mutant: a post does not close the tick to the others.
MayAcquireAfterPost(w, o) == w.owner # Nobody => Rank[o] >= Rank[w.owner]

\* acquire refuses everyone but the poster once a task is on the wire, then
\* whoever is outranked; an equal may take it.
MayAcquire(w, o) ==
  /\ w.posted \in {Nobody, o}
  /\ w.owner # Nobody => Rank[o] >= Rank[w.owner]

\* The holder the next hook call is for, when o takes the wheel: a renewal
\* preempts nobody.
Preempted(w, o) == IF w.owner = o THEN Nobody ELSE w.owner

\* _grant, and the renewal of the same owner's lease.
Grant(w, o, lease) ==
  [w EXCEPT !.owner = o, !.lease = lease, !.forced = o = "idle" /\ @]

\* force_idle: the game owns the controls.
ForceIdle(w) ==
  [w EXCEPT !.owner = "idle", !.lease = "open", !.forced = TRUE]

MarkPosted(w, o) == [w EXCEPT !.posted = o]
Note(w, o) == [w EXCEPT !.noted = @ \/ o \in Reflexes]

TakenByReflex(w) == w.noted \/ w.owner \in Reflexes
=============================================================================
