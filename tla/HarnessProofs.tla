--------------------------- MODULE HarnessProofs ---------------------------
(* Proofs about HarnessTick for every snapshot and every set of survival   *)
(* rungs: what the movement wheel promises the layers that share it.  And  *)
(* about the reflexes of the same loop: Deaths for any number of spells,   *)
(* Emergencies for every setting of their timers.                          *)
EXTENDS HarnessTick, Deaths, Emergencies, FiniteSetTheorems, TLAPS

-----------------------------------------------------------------------------
(* The inductive invariant                                                 *)

Layers ==
  {"poll", "operator", "begin", "survival", "vehicle", "stuck", "free",
   "wander", "resume", "phone", "park", "brain", "plan", "activities",
   "objective", "end"}

Shares ==
  [wheel : Wheels, goal : {None, "plain", "handoff"},
   runner : {None, "running"}, exiting : BOOLEAN, park : BOOLEAN,
   quiet : BOOLEAN, sent : SUBSET Owners]

\* What every layer leaves behind in what they share.  The two open leases
\* that mean something outlive begin_tick because they are open; and the post
\* that closed the tick is the only one there has been since.
Sound(g) ==
  /\ g \in Shares
  /\ g.goal = "plain" => g.wheel.owner = "roam"
  /\ g.exiting => g.wheel.owner = "exit_interior"
  /\ g.wheel.owner \in {"roam", "exit_interior"} => g.wheel.lease = "open"
  /\ g.sent \ {"operator"} \subseteq {g.wheel.posted}

Paid == {"brain", "day_plan", "roam"}
FreeLayers == {"roam", "day_plan", "exit_interior", "house_escape", "stranded"}

TickTypeOK ==
  /\ h \in Shares
  /\ pc \in Layers
  /\ level \in 0 .. 3
  /\ pending \in BOOLEAN

\* Before the tick opens only the operator's directives have posted.
OnlyDirectives == pc \in {"operator", "begin"} => h.sent \subseteq {"operator"}

\* The paid layers come after the park, which is where a goal that was running
\* when the level rose is ended.
PaidAfterPark ==
  /\ pc \notin {"poll", "brain", "plan", "activities", "objective", "end"} =>
       h.sent \cap Paid = {}
  /\ level = 3 /\ ~pending => h.goal # "plain" /\ h.sent \cap Paid = {}

\* BeginReflex ends the goal a job finds running.
JobEndsGoal ==
  /\ scene.job /\ pc \notin {"poll", "operator", "begin"} => h.goal # "plain"
  /\ scene.job /\ pc \notin {"poll", "operator"} => h.sent \cap FreeLayers = {}

TickInv ==
  TickTypeOK /\ Sound(h) /\ OnlyDirectives /\ PaidAfterPark /\ JobEndsGoal

-----------------------------------------------------------------------------
(* The wheel                                                               *)

\* The owners, told apart as strings.
LEMMA OwnersAre ==
  /\ Owners = {"flip", "water", "road_dodge", "threat", "vehicle", "physical",
               "operator", "governor", "exit_interior", "house_escape",
               "stranded", "idle_breaker", "resume", "brain", "mission",
               "day_plan", "roam", "idle"}
  /\ Nobody \notin Owners
  /\ Rank["mission"] >= Rank["roam"]
  BY DEF Owners, Rank, Nobody

\* Whatever is done to a wheel leaves a wheel, and says who holds it then.
LEMMA WheelTypes ==
  ASSUME NEW w \in Wheels
  PROVE  /\ Freed(w) \in Wheels
         /\ \A o \in Owners : ReleaseOwner(w, o) \in Wheels
         /\ BeginTick(w) \in Wheels
         /\ \A o \in Owners, l \in Leases : Grant(w, o, l) \in Wheels
         /\ ForceIdle(w) \in Wheels
         /\ \A o \in Owners : MarkPosted(w, o) \in Wheels
         /\ \A o \in Owners : Note(w, o) \in Wheels
  <1>1. "idle" \in Owners
    BY OwnersAre
  <1> QED
    BY <1>1 DEF Wheels, Freed, ReleaseOwner, BeginTick, Grant, ForceIdle,
                MarkPosted, Note, Leases

-----------------------------------------------------------------------------
(* What the layers do with it                                              *)

\* Ending the goal gives roam's claim back and touches no other.
LEMMA EndedSound ==
  ASSUME NEW g, Sound(g)
  PROVE  /\ Sound(Ended(g))
         /\ Ended(g).goal = None
         /\ Ended(g).sent = g.sent
         /\ Ended(g).wheel.posted = g.wheel.posted
         /\ Ended(g).wheel = ReleaseOwner(g.wheel, "roam")
  <1>1. g \in Shares /\ g.wheel \in Wheels /\ "roam" \in Owners
    BY OwnersAre DEF Sound, Shares
  <1>2. ReleaseOwner(g.wheel, "roam") \in Wheels
    BY <1>1, WheelTypes
  <1>3. Ended(g) \in Shares
    BY <1>1, <1>2 DEF Ended, Shares
  <1>4. ReleaseOwner(g.wheel, "roam").posted = g.wheel.posted
    BY <1>1 DEF ReleaseOwner, Freed, Wheels
  <1> QED
    BY <1>1, <1>3, <1>4
    DEF Sound, Ended, Shares, None, ReleaseOwner, Freed, Wheels, Nobody

\* Once p has lost the wheel to w's holder and its hook has run, no claim is
\* left behind: this is what both acquire and force_idle rest on.
LEMMA LostSound ==
  ASSUME NEW g, Sound(g), NEW w \in Wheels, NEW p \in Owners \cup {Nobody},
         w.owner \in {"roam", "exit_interior"} => w.lease = "open",
         g.sent \ {"operator"} \subseteq {w.posted},
         p # w.owner, g.wheel.owner \in {w.owner, p, Nobody}
  PROVE  LET f == Lost([g EXCEPT !.wheel = w], p)
         IN Sound(f) /\ f.wheel = w /\ f.sent = g.sent /\ f.goal \in {None, g.goal}
  <1> DEFINE t == [g EXCEPT !.wheel = w]
  <1>1. g \in Shares /\ g.wheel \in Wheels
    BY DEF Sound, Shares
  <1>2. /\ t \in Shares /\ t.wheel = w /\ t.goal = g.goal /\ t.sent = g.sent
        /\ t.exiting = g.exiting
    BY <1>1 DEF Shares
  <1>3. Nobody \notin {"roam", "exit_interior"}
    BY DEF Nobody
  <1> HIDE DEF t
  <1>4. CASE p = "roam"
    <2>1. Lost(t, p) = Ended(t)
      BY <1>4 DEF Lost
    <2>2. ReleaseOwner(w, "roam") = w
      BY <1>4 DEF ReleaseOwner
    <2>3. /\ Ended(t) \in Shares /\ Ended(t).wheel = w /\ Ended(t).goal = None
          /\ Ended(t).sent = g.sent /\ Ended(t).exiting = g.exiting
      BY <1>2, <2>2 DEF Ended, Shares
    <2>4. g.exiting => w.owner = "exit_interior"
      BY <1>3, <1>4 DEF Sound
    <2> QED
      BY <2>1, <2>3, <2>4 DEF Sound, None, t
  <1>5. CASE p = "exit_interior"
    <2>1. Lost(t, p) = [t EXCEPT !.exiting = FALSE]
      BY <1>5 DEF Lost
    <2> DEFINE e == [t EXCEPT !.exiting = FALSE]
    <2>2. /\ e \in Shares /\ e.wheel = w /\ e.goal = g.goal
          /\ e.sent = g.sent /\ ~e.exiting
      BY <1>2 DEF Shares
    <2>3. g.goal = "plain" => w.owner = "roam"
      BY <1>3, <1>5 DEF Sound
    <2> QED
      BY <2>1, <2>2, <2>3 DEF Sound, t
  <1>6. CASE p \notin {"roam", "exit_interior"}
    <2>1. Lost(t, p) \in {t, [t EXCEPT !.park = FALSE]}
      BY <1>6 DEF Lost
    <2>2. ASSUME NEW e \in {t, [t EXCEPT !.park = FALSE]}
          PROVE  /\ e \in Shares /\ e.wheel = w /\ e.goal = g.goal
                 /\ e.sent = g.sent /\ e.exiting = g.exiting
      BY <1>2 DEF Shares
    <2>3. /\ g.goal = "plain" => w.owner = "roam"
          /\ g.exiting => w.owner = "exit_interior"
      BY <1>3, <1>6 DEF Sound
    <2> QED
      BY <2>1, <2>2, <2>3 DEF Sound, t
  <1> QED
    BY <1>4, <1>5, <1>6

\* Taking the wheel from whoever had it leaves every claim with its holder,
\* and posts nothing.
LEMMA TakesSound ==
  ASSUME NEW g, Sound(g), NEW o \in Owners, NEW l \in Leases,
         o \in {"roam", "exit_interior"} => l = "open"
  PROVE  /\ Sound(Takes(g, o, l))
         /\ Takes(g, o, l).wheel.owner = o
         /\ Takes(g, o, l).wheel.posted = g.wheel.posted
         /\ Takes(g, o, l).sent = g.sent
         /\ Takes(g, o, l).goal \in {None, g.goal}
  <1> DEFINE w == Grant(g.wheel, o, l)
             p == Preempted(g.wheel, o)
  <1>1. g.wheel \in Wheels
    BY DEF Sound, Shares
  <1>2. w \in Wheels
    BY <1>1, WheelTypes
  <1>3. w.owner = o /\ w.lease = l /\ w.posted = g.wheel.posted
    BY <1>1, <1>2 DEF Grant, Wheels
  <1>4. /\ p \in Owners \cup {Nobody} /\ p # o
        /\ g.wheel.owner \in {o, p, Nobody}
    BY <1>1, OwnersAre DEF Preempted, Wheels
  <1>5. Takes(g, o, l) = Lost([g EXCEPT !.wheel = w], p)
    BY DEF Takes
  <1>6. g.sent \ {"operator"} \subseteq {w.posted}
    BY <1>3 DEF Sound
  <1> HIDE DEF w, p
  <1> QED
    BY <1>2, <1>3, <1>4, <1>5, <1>6, LostSound

\* The game takes the controls: nothing of the loser's outlives it.
LEMMA ForcedSound ==
  ASSUME NEW g, Sound(g)
  PROVE  LET t == [g EXCEPT !.wheel = ForceIdle(@)]
             f == IF g.wheel.owner \in {Nobody, "idle"} THEN t
                  ELSE Lost(t, g.wheel.owner)
         IN /\ Sound(f) /\ f.wheel.owner = "idle" /\ f.sent = g.sent
            /\ f.wheel.posted = g.wheel.posted
            /\ f.goal \in {None, g.goal} /\ f.goal # "plain"
  <1> DEFINE w == ForceIdle(g.wheel)
             p == IF g.wheel.owner \in {Nobody, "idle"} THEN Nobody ELSE g.wheel.owner
             t == [g EXCEPT !.wheel = w]
  <1>1. g.wheel \in Wheels
    BY DEF Sound, Shares
  <1>2. w \in Wheels
    BY <1>1, WheelTypes
  <1>3. w.owner = "idle" /\ w.posted = g.wheel.posted
    BY <1>1, <1>2 DEF ForceIdle, Wheels
  <1>4. /\ p \in Owners \cup {Nobody} /\ p # "idle"
        /\ g.wheel.owner \in {"idle", p, Nobody}
    BY <1>1, OwnersAre DEF Wheels, Nobody
  <1>5. Lost(t, Nobody) = t
    BY DEF Lost, Nobody
  <1>6. g.sent \ {"operator"} \subseteq {w.posted}
    BY <1>3 DEF Sound
  <1>7. LET f == Lost(t, p)
        IN Sound(f) /\ f.wheel = w /\ f.sent = g.sent /\ f.goal \in {None, g.goal}
    <2> HIDE DEF w, p
    <2> QED
      BY <1>2, <1>3, <1>4, <1>6, LostSound
  <1>8. Lost(t, p).goal # "plain"
    BY <1>3, <1>7 DEF Sound
  <1> DEFINE f == IF g.wheel.owner \in {Nobody, "idle"} THEN t
                  ELSE Lost(t, g.wheel.owner)
  <1>9. f = Lost(t, p)
    BY <1>5
  <1> HIDE DEF w, p, t, f
  <1>10. /\ Sound(f) /\ f.wheel.owner = "idle" /\ f.sent = g.sent
         /\ f.wheel.posted = g.wheel.posted
         /\ f.goal \in {None, g.goal} /\ f.goal # "plain"
    BY <1>3, <1>7, <1>8, <1>9
  <1> QED
    BY <1>10, Zenon DEF f, t, w

\* A post under a live claim closes the tick to the others, and is the only
\* one on it when the tick was open to its owner.
LEMMA ExecutedSound ==
  ASSUME NEW g, Sound(g), NEW o \in Owners, NEW r,
         g.wheel.posted \in {Nobody, o}
  PROVE  /\ Sound(Executed(g, o, r))
         /\ Executed(g, o, r).sent \subseteq g.sent \cup {o}
         /\ Executed(g, o, r).wheel.posted \in {Nobody, o}
         /\ Executed(g, o, r).wheel.owner = g.wheel.owner
         /\ Executed(g, o, r).goal = g.goal
  <1>1. g \in Shares /\ g.wheel \in Wheels /\ g.sent \subseteq Owners
    BY DEF Sound, Shares
  <1>2. /\ MarkPosted(g.wheel, o) \in Wheels
        /\ MarkPosted(g.wheel, o).posted = o
        /\ MarkPosted(g.wheel, o).owner = g.wheel.owner
        /\ MarkPosted(g.wheel, o).lease = g.wheel.lease
    BY <1>1, WheelTypes DEF MarkPosted, Wheels
  <1>3. CASE r \in {"sent", "dropped"}
    <2> DEFINE e == [g EXCEPT !.wheel = MarkPosted(@, o),
                              !.sent = @ \cup {o}, !.quiet = FALSE]
    <2>1. Executed(g, o, r) = e
      BY <1>3 DEF Executed
    <2>2. /\ e \in Shares /\ e.wheel = MarkPosted(g.wheel, o)
          /\ e.sent = g.sent \cup {o} /\ e.goal = g.goal
          /\ e.exiting = g.exiting
      BY <1>1, <1>2 DEF Shares
    <2>3. e.sent \ {"operator"} \subseteq {o}
      BY <1>1, <2>2, OwnersAre DEF Sound
    <2> QED
      BY <1>2, <2>1, <2>2, <2>3 DEF Sound
  <1>4. CASE r \notin {"sent", "dropped"}
    BY <1>4 DEF Executed
  <1> QED
    BY <1>3, <1>4

\* The wheel, then the post: the shape of every layer that moves him.
LEMMA PostSound ==
  ASSUME NEW g, Sound(g), NEW o \in Owners, NEW l \in Leases, NEW r,
         o \in {"roam", "exit_interior"} => l = "open",
         MayAcquire(g.wheel, o)
  PROVE  LET f == Executed(Takes(g, o, l), o, r)
         IN /\ Sound(f) /\ f.sent \subseteq g.sent \cup {o}
            /\ f.goal \in {None, g.goal}
            /\ f.wheel.owner = o /\ f.wheel.posted \in {Nobody, o}
  <1> DEFINE t == Takes(g, o, l)
  <1>1. /\ Sound(t) /\ t.wheel.posted = g.wheel.posted /\ t.sent = g.sent
        /\ t.wheel.owner = o /\ t.goal \in {None, g.goal}
    BY TakesSound
  <1>2. t.wheel.posted \in {Nobody, o}
    BY <1>1 DEF MayAcquire
  <1> HIDE DEF t
  <1>3. /\ Sound(Executed(t, o, r))
        /\ Executed(t, o, r).sent \subseteq t.sent \cup {o}
        /\ Executed(t, o, r).wheel.owner = t.wheel.owner
        /\ Executed(t, o, r).wheel.posted \in {Nobody, o}
        /\ Executed(t, o, r).goal = t.goal
    BY <1>1, <1>2, ExecutedSound
  <1> QED
    BY <1>1, <1>3 DEF t

\* A reflex that is granted the wheel takes it for the tick and may post.
LEMMA ReflexSound ==
  ASSUME NEW g, Sound(g), NEW o \in Owners \ {"roam", "exit_interior"}, NEW r
  PROVE  /\ Sound(Reflex(g, o, r))
         /\ Reflex(g, o, r).sent \subseteq g.sent \cup {o}
         /\ Reflex(g, o, r).goal \in {None, g.goal}
  <1>1. CASE MayAcquire(g.wheel, o)
    BY <1>1, PostSound DEF Reflex, Leases
  <1>2. CASE ~MayAcquire(g.wheel, o)
    BY <1>2 DEF Reflex
  <1> QED
    BY <1>1, <1>2

\* What carries no claim may change: a quiet period, a note, the park's task,
\* a lease that is given back by a layer with no token to keep.
LEMMA FlagsSound ==
  ASSUME NEW g, Sound(g)
  PROVE  /\ \A q \in BOOLEAN : LET f == [g EXCEPT !.quiet = q]
              IN Sound(f) /\ f.sent = g.sent /\ f.goal = g.goal /\ f.wheel = g.wheel
         /\ \A p \in BOOLEAN : LET f == [g EXCEPT !.park = p]
              IN Sound(f) /\ f.sent = g.sent /\ f.goal = g.goal /\ f.wheel = g.wheel
         /\ \A r \in {None, "running"} : LET f == [g EXCEPT !.runner = r]
              IN Sound(f) /\ f.sent = g.sent /\ f.goal = g.goal /\ f.wheel = g.wheel
         /\ \A o \in Owners, q \in BOOLEAN :
              LET f == [g EXCEPT !.wheel = Note(@, o), !.quiet = q]
              IN Sound(f) /\ f.sent = g.sent /\ f.goal = g.goal
  <1>1. g \in Shares /\ g.wheel \in Wheels
    BY DEF Sound, Shares
  <1>2. ASSUME NEW q \in BOOLEAN
        PROVE  LET f == [g EXCEPT !.quiet = q]
               IN Sound(f) /\ f.sent = g.sent /\ f.goal = g.goal /\ f.wheel = g.wheel
    BY <1>1 DEF Sound, Shares
  <1>3. ASSUME NEW p \in BOOLEAN
        PROVE  LET f == [g EXCEPT !.park = p]
               IN Sound(f) /\ f.sent = g.sent /\ f.goal = g.goal /\ f.wheel = g.wheel
    BY <1>1 DEF Sound, Shares
  <1>4. ASSUME NEW r \in {None, "running"}
        PROVE  LET f == [g EXCEPT !.runner = r]
               IN Sound(f) /\ f.sent = g.sent /\ f.goal = g.goal /\ f.wheel = g.wheel
    BY <1>1 DEF Sound, Shares
  <1>5. ASSUME NEW o \in Owners, NEW q \in BOOLEAN
        PROVE  LET f == [g EXCEPT !.wheel = Note(@, o), !.quiet = q]
               IN Sound(f) /\ f.sent = g.sent /\ f.goal = g.goal
    <2> DEFINE w == Note(g.wheel, o)
    <2>1. w \in Wheels
      BY <1>1, WheelTypes
    <2>2. /\ w.owner = g.wheel.owner /\ w.lease = g.wheel.lease
          /\ w.posted = g.wheel.posted
      BY <1>1 DEF Note, Wheels
    <2> HIDE DEF w
    <2>3. Sound([g EXCEPT !.wheel = w, !.quiet = q])
      BY <1>1, <2>1, <2>2 DEF Sound, Shares
    <2> QED
      BY <1>1, <2>3 DEF Shares, w
  <1> QED
    BY <1>2, <1>3, <1>4, <1>5

\* An owner that is no goal's gives its lease up.
LEMMA ReleasedSound ==
  ASSUME NEW g, Sound(g), NEW o \in Owners \ {"roam", "exit_interior"}
  PROVE  LET f == [g EXCEPT !.wheel = ReleaseOwner(@, o)]
         IN /\ Sound(f) /\ f.sent = g.sent /\ f.goal = g.goal
            /\ f.wheel.posted = g.wheel.posted
  <1> DEFINE w == ReleaseOwner(g.wheel, o)
             f == [g EXCEPT !.wheel = w]
  <1>1. g \in Shares /\ g.wheel \in Wheels
    BY DEF Sound, Shares
  <1>2. w \in Wheels
    BY <1>1, WheelTypes
  <1>3. /\ w.posted = g.wheel.posted
        /\ \/ w = g.wheel
           \/ w.owner = Nobody /\ g.wheel.owner = o
    <2>1. CASE g.wheel.owner = o
      BY <1>1, <2>1 DEF ReleaseOwner, Freed, Wheels
    <2>2. CASE g.wheel.owner # o
      BY <2>2 DEF ReleaseOwner
    <2> QED
      BY <2>1, <2>2
  <1> HIDE DEF w
  <1>4. /\ f \in Shares /\ f.wheel = w /\ f.sent = g.sent /\ f.goal = g.goal
        /\ f.exiting = g.exiting
    BY <1>1, <1>2 DEF Shares
  <1>5. Sound(f)
    <2>1. /\ f.goal = "plain" => w.owner = "roam"
          /\ f.exiting => w.owner = "exit_interior"
      BY <1>3, <1>4 DEF Sound
    <2>2. w.owner \in {"roam", "exit_interior"} => w.lease = "open"
      BY <1>3 DEF Sound, Nobody
    <2>3. f.sent \ {"operator"} \subseteq {w.posted}
      BY <1>3, <1>4 DEF Sound
    <2> QED
      BY <1>4, <2>1, <2>2, <2>3 DEF Sound
  <1> QED
    BY <1>3, <1>4, <1>5 DEF w

-----------------------------------------------------------------------------
(* The reflex's opening                                                    *)

\* begin_tick keeps an open lease and opens the tick to everybody.
LEMMA BeginTickSound ==
  ASSUME NEW g, Sound(g), g.sent \subseteq {"operator"}
  PROVE  LET b == [g EXCEPT !.wheel = BeginTick(@)]
         IN /\ Sound(b) /\ b.sent = g.sent /\ b.goal = g.goal
            /\ b.wheel.posted = Nobody
  <1> DEFINE w == BeginTick(g.wheel)
             b == [g EXCEPT !.wheel = w]
  <1>1. g \in Shares /\ g.wheel \in Wheels
    BY DEF Sound, Shares
  <1>2. w \in Wheels
    BY <1>1, WheelTypes
  <1>3. w.posted = Nobody
    BY <1>1 DEF BeginTick, Freed, Wheels
  <1>4. /\ g.wheel.lease = "open" => w.owner = g.wheel.owner /\ w.lease = "open"
        /\ g.wheel.lease # "open" => w.owner = Nobody
    BY <1>1 DEF BeginTick, Freed, Wheels, Leases
  <1> HIDE DEF w
  <1>5. /\ b \in Shares /\ b.wheel = w /\ b.sent = g.sent /\ b.goal = g.goal
        /\ b.exiting = g.exiting
    BY <1>1, <1>2 DEF Shares
  <1>6. Sound(b)
    BY <1>3, <1>4, <1>5 DEF Sound, Nobody
  <1> QED
    BY <1>3, <1>5, <1>6 DEF w

\* Once a job is on, no free-roam goal with a plan is left.
LEMMA OverriddenSound ==
  ASSUME NEW g, Sound(g), g.wheel.posted = Nobody
  PROVE  LET f == Overridden(g)
         IN /\ Sound(f) /\ f.sent = g.sent /\ f.goal \in {None, g.goal}
            /\ scene.job => f.goal # "plain"
  <1>1. g \in Shares /\ g.wheel \in Wheels
    BY DEF Sound, Shares
  <1>2. CASE GameOwns(scene)
    <2> DEFINE t == [g EXCEPT !.wheel = ForceIdle(@)]
               f == IF g.wheel.owner \in {Nobody, "idle"} THEN t
                    ELSE Lost(t, g.wheel.owner)
    <2>1. Sound(f) /\ f.sent = g.sent /\ f.goal \in {None, g.goal} /\ f.goal # "plain"
      BY ForcedSound
    <2>2. Overridden(g) = f
      BY <1>2 DEF Overridden
    <2> QED
      BY <2>1, <2>2
  <1>3. CASE ~GameOwns(scene)
    <2>1. Overridden(g) = MissionActive(g)
      BY <1>3 DEF Overridden
    <2>2. CASE scene.job
      <3> DEFINE m == [g EXCEPT !.wheel.mission = TRUE]
      <3>1. /\ m \in Shares /\ m.sent = g.sent /\ m.goal = g.goal
            /\ m.exiting = g.exiting /\ m.wheel.posted = g.wheel.posted
            /\ m.wheel.owner = g.wheel.owner /\ m.wheel.lease = g.wheel.lease
        BY <1>1 DEF Shares, Wheels
      <3> HIDE DEF m
      <3>2. Sound(m)
        BY <3>1 DEF Sound
      <3> DEFINE t == Takes(m, "mission", "open")
      <3>3. /\ Sound(t) /\ t.wheel.owner = "mission" /\ t.sent = g.sent
            /\ t.goal \in {None, g.goal}
        BY <3>1, <3>2, TakesSound, OwnersAre DEF Leases
      <3>4. t.goal # "plain"
        BY <3>3 DEF Sound
      <3>5. CASE ~g.wheel.mission \/ MayAcquire(g.wheel, "mission")
        <4>1. MissionActive(g) = t
          BY <2>2, <3>5 DEF MissionActive, m
        <4> QED
          BY <2>1, <3>3, <3>4, <4>1
      <3>6. CASE ~(~g.wheel.mission \/ MayAcquire(g.wheel, "mission"))
        <4>1. MissionActive(g) = m
          BY <2>2, <3>6 DEF MissionActive, m
        <4>2. g.wheel.owner # "roam"
          BY <3>6, OwnersAre DEF MayAcquire
        <4> QED
          BY <2>1, <3>1, <3>2, <4>1, <4>2 DEF Sound
      <3> QED
        BY <3>5, <3>6
    <2>3. CASE ~scene.job /\ g.wheel.mission
      <3> DEFINE w == ReleaseOwner(g.wheel, "mission")
                 f == [g EXCEPT !.wheel = w]
                 e == [g EXCEPT !.wheel = [w EXCEPT !.mission = FALSE]]
      <3>1. w \in Wheels /\ f.wheel = w /\ f \in Shares
        BY <1>1, WheelTypes, OwnersAre DEF Shares
      <3>2. Sound(f) /\ f.sent = g.sent /\ f.goal = g.goal /\ f.exiting = g.exiting
        BY <1>1, ReleasedSound, OwnersAre DEF Shares
      <3>3. MissionActive(g) = e
        BY <2>3 DEF MissionActive
      <3> HIDE DEF w
      <3>4. /\ e \in Shares /\ e.sent = f.sent /\ e.goal = f.goal
            /\ e.exiting = f.exiting /\ e.wheel.posted = f.wheel.posted
            /\ e.wheel.owner = f.wheel.owner /\ e.wheel.lease = f.wheel.lease
        BY <1>1, <3>1 DEF Shares, Wheels
      <3> HIDE DEF e, f
      <3>5. Sound(e)
        BY <3>2, <3>4 DEF Sound
      <3> QED
        BY <2>1, <2>3, <3>2, <3>3, <3>4, <3>5
    <2>4. CASE ~scene.job /\ ~g.wheel.mission
      BY <2>1, <2>4 DEF MissionActive
    <2> QED
      BY <2>2, <2>3, <2>4
  <1> QED
    BY <1>2, <1>3

\* Coming out of a building gives back no claim but the way out's own.
LEMMA InteriorSound ==
  ASSUME NEW g, Sound(g)
  PROVE  LET f == InteriorReleased(g)
         IN /\ Sound(f) /\ f.sent = g.sent /\ f.goal = g.goal
            /\ f.wheel.posted = g.wheel.posted
  <1>1. g \in Shares /\ g.wheel \in Wheels
    BY DEF Sound, Shares
  <1>2. CASE g.exiting
    <2> DEFINE w == ReleaseOwner(g.wheel, "exit_interior")
               f == [g EXCEPT !.wheel = w, !.exiting = FALSE]
    <2>1. w \in Wheels /\ w.owner = Nobody /\ w.posted = g.wheel.posted
      <3>1. g.wheel.owner = "exit_interior"
        BY <1>2 DEF Sound
      <3>2. w = Freed(g.wheel)
        BY <3>1 DEF ReleaseOwner
      <3> QED
        BY <1>1, <3>2 DEF Freed, Wheels, Leases
    <2>2. InteriorReleased(g) = f
      BY <1>2 DEF InteriorReleased
    <2> HIDE DEF w
    <2>3. /\ f \in Shares /\ f.wheel = w /\ f.sent = g.sent /\ f.goal = g.goal
          /\ ~f.exiting
      BY <1>1, <2>1 DEF Shares
    <2>4. g.goal # "plain"
      BY <1>2 DEF Sound
    <2>5. Sound(f)
      BY <2>1, <2>3, <2>4 DEF Sound, Nobody
    <2> QED
      BY <2>1, <2>2, <2>3, <2>5
  <1>3. CASE ~g.exiting
    BY <1>3 DEF InteriorReleased
  <1> QED
    BY <1>2, <1>3

-----------------------------------------------------------------------------
(* Free roam's slot                                                        *)

\* A step of the goal is posted for it, or the goal ends.
LEMMA IssuedSound ==
  ASSUME NEW g, Sound(g), NEW f \in Issued(g)
  PROVE  /\ Sound(f) /\ f.goal \in {None, g.goal}
         /\ f.sent \subseteq g.sent \cup {"roam"}
  <1> DEFINE s == [g EXCEPT !.runner = "running"]
             t == Takes(s, "roam", "open")
  <1>1. Sound(s) /\ s.sent = g.sent /\ s.goal = g.goal
    BY FlagsSound
  <1>2. CASE f = s
    BY <1>1, <1>2
  <1>3. ASSUME MayAcquire(s.wheel, "roam"), NEW r \in Possible,
               LET e == Executed(t, "roam", r)
               IN f = IF HasId(r) THEN e ELSE Ended(e)
        PROVE  /\ Sound(f) /\ f.goal \in {None, g.goal}
               /\ f.sent \subseteq g.sent \cup {"roam"}
    <2>1. "roam" \in Owners
      BY OwnersAre
    <2> HIDE DEF s
    <2> DEFINE e == Executed(t, "roam", r)
    <2>2. /\ Sound(e) /\ e.goal \in {None, s.goal}
          /\ e.sent \subseteq s.sent \cup {"roam"}
      BY <1>1, <1>3, <2>1, PostSound DEF Leases
    <2>5. f = e \/ f = Ended(e)
      BY <1>3
    <2> HIDE DEF e
    <2>6. Sound(Ended(e)) /\ Ended(e).goal = None /\ Ended(e).sent = e.sent
      BY <2>2, EndedSound
    <2> QED
      BY <1>1, <2>2, <2>5, <2>6
  <1> QED
    BY <1>2, <1>3 DEF Issued

\* A verdict posts only for a goal with a plan.
LEMMA JudgedSound ==
  ASSUME NEW g, Sound(g), NEW f \in Judged(g)
  PROVE  /\ Sound(f) /\ f.goal \in {None, g.goal}
         /\ f.sent \subseteq g.sent \cup {"roam"}
         /\ g.goal # "plain" => f = Ended(g)
  <1>1. CASE f = Ended(g)
    BY <1>1, EndedSound
  <1>2. CASE g.goal = "plain" /\ f \in Issued(g)
    BY <1>2, IssuedSound
  <1> QED
    BY <1>1, <1>2 DEF Judged

\* The goal's next step, a fresh plan, or its end.
LEMMA AdvancedSound ==
  ASSUME NEW g, Sound(g), NEW f \in Advanced(g)
  PROVE  /\ Sound(f) /\ f.goal \in {None, g.goal}
         /\ f.sent \subseteq g.sent \cup {"roam"}
  <1>1. CASE f = g
    BY <1>1
  <1>2. CASE f = Ended(g)
    BY <1>2, EndedSound
  <1>3. CASE f = [g EXCEPT !.runner = None]
    BY <1>3, FlagsSound
  <1>4. CASE f \in Issued(g)
    BY <1>4, IssuedSound
  <1> QED
    BY <1>1, <1>2, <1>3, <1>4 DEF Advanced

\* A goal begins under the wheel; one that is handed on gives it back.
LEMMA BegunSound ==
  ASSUME NEW g, Sound(g), NEW f \in Begun(g)
  PROVE  /\ Sound(f)
         /\ f.sent \subseteq g.sent \cup {"roam"}
  <1> DEFINE t == Takes(g, "roam", "open")
  <1>1. "roam" \in Owners
    BY OwnersAre
  <1>2. Sound(t) /\ t.wheel.owner = "roam" /\ t.sent = g.sent
    BY <1>1, TakesSound DEF Leases
  <1>3. CASE f = g
    BY <1>3
  <1> HIDE DEF t
  <1> DEFINE e == Ended(t)
             p == [t EXCEPT !.goal = "plain"]
             d == [e EXCEPT !.goal = "handoff"]
  <1>4. Sound(e) /\ e.sent = g.sent
    BY <1>2, EndedSound
  <1>5. Sound(p) /\ p.sent = g.sent
    BY <1>2 DEF Sound, Shares
  <1>6. Sound(d) /\ d.sent = g.sent
    <2> HIDE DEF e
    <2> QED
      BY <1>4 DEF Sound, Shares
  <1>7. f \in {g, e, d} \/ f \in Issued(p)
    BY DEF Begun, t
  <1> HIDE DEF e, p, d
  <1> QED
    BY <1>3, <1>4, <1>5, <1>6, <1>7, IssuedSound

-----------------------------------------------------------------------------
(* Every layer preserves the invariant                                     *)

\* Nothing is leased and nothing is going on at the start.
LEMMA InitInv == TickInit => TickInv
  <1> SUFFICES ASSUME TickInit PROVE TickInv
    OBVIOUS
  <1>1. FreeWheel \in Wheels
    BY DEF FreeWheel, Wheels, Leases
  <1>2. h \in Shares
    BY <1>1 DEF TickInit, Shares
  <1>3. Sound(h)
    BY <1>2 DEF TickInit, Sound, FreeWheel, None, Nobody
  <1>4. pending \in BOOLEAN
    BY Zenon DEF TickInit
  <1>5. pc = "poll" /\ level = 0 /\ h.goal = None /\ h.sent = {}
    BY DEF TickInit
  <1> QED
    BY <1>2, <1>3, <1>4, <1>5 DEF TickInv, TickTypeOK, OnlyDirectives, PaidAfterPark,
       JobEndsGoal, Layers, None

\* A poll empties the tick's list of posts.
LEMMA TimePassesSound ==
  ASSUME NEW g, Sound(g), NEW f \in TimePasses(g)
  PROVE  Sound(f) /\ f.sent = {} /\ f.goal = g.goal /\ f.wheel = g.wheel
  BY DEF TimePasses, Sound, Shares

\* A poll starts the tick with nothing sent.
LEMMA PollInv ==
  ASSUME TickInv, Poll \/ OnBreak
  PROVE  TickInv'
  <1>1. Sound(h') /\ h'.sent = {} /\ h'.goal = h.goal
    BY TimePassesSound DEF TickInv, Poll, OnBreak
  <1>2. /\ level' \in 0 .. 3 /\ level' <= level /\ pending' = pending
        /\ pc' \in {"poll", "operator"}
    BY DEF TickInv, TickTypeOK, Poll, OnBreak, Go
  <1>3. level \in 0 .. 3
    BY DEF TickInv, TickTypeOK
  <1> QED
    BY <1>1, <1>2, <1>3
    DEF TickInv, TickTypeOK, Sound, OnlyDirectives, PaidAfterPark, JobEndsGoal, Layers

\* A break idles the wheel by force and ends the goal.
LEMMA StartBreakInv ==
  ASSUME TickInv, StartBreak
  PROVE  TickInv'
  <1>1. PICK t \in TimePasses(h), r \in Results \ {"adopted"} :
          LET g == [t EXCEPT !.wheel = ForceIdle(BeginTick(@))]
              lost == BeginTick(t.wheel).owner
          IN h' = Executed(IF lost \in {Nobody, "idle"} THEN g ELSE Lost(g, lost),
                           "idle", r)
    BY DEF StartBreak
  <1>2. Sound(t) /\ t.sent = {} /\ t.goal = h.goal
    BY TimePassesSound DEF TickInv
  <1> DEFINE b == [t EXCEPT !.wheel = BeginTick(@)]
             g == [b EXCEPT !.wheel = ForceIdle(@)]
             f == IF b.wheel.owner \in {Nobody, "idle"} THEN g
                  ELSE Lost(g, b.wheel.owner)
  <1>3. b.wheel = BeginTick(t.wheel) /\ g = [t EXCEPT !.wheel = ForceIdle(BeginTick(@))]
    BY <1>2 DEF Sound, Shares
  <1>4. h' = Executed(f, "idle", r)
    BY <1>1, <1>3
  <1>5. Sound(b) /\ b.sent = {} /\ b.goal = h.goal /\ b.wheel.posted = Nobody
    BY <1>2, BeginTickSound
  <1> HIDE DEF b
  <1>6. /\ Sound(f) /\ f.sent = {} /\ f.wheel.posted = Nobody
        /\ f.goal \in {None, h.goal}
    BY <1>5, ForcedSound
  <1> HIDE DEF f
  <1>7. /\ Sound(h') /\ h'.sent \subseteq {"idle"} /\ h'.goal \in {None, h.goal}
    BY <1>4, <1>6, ExecutedSound, OwnersAre
  <1>8. UNCHANGED <<pc, level, pending>> /\ pc = "poll"
    BY DEF StartBreak
  <1> QED
    BY <1>7, <1>8
    DEF TickInv, TickTypeOK, Sound, OnlyDirectives, PaidAfterPark, JobEndsGoal, Paid, None

\* A restart of the game ends the goal with the rest.
LEMMA GameRestartsInv ==
  ASSUME TickInv, GameRestarts
  PROVE  TickInv'
  <1>1. Sound(Ended(h)) /\ Ended(h).goal = None
    BY EndedSound DEF TickInv
  <1>2. h' = [Ended(h) EXCEPT !.wheel = FreeWheel, !.exiting = FALSE, !.sent = {}]
    BY DEF GameRestarts
  <1>3. FreeWheel \in Wheels
    BY DEF FreeWheel, Wheels, Leases
  <1>4. /\ h' \in Shares /\ h'.wheel = FreeWheel /\ h'.goal = None
        /\ ~h'.exiting /\ h'.sent = {}
    BY <1>1, <1>2, <1>3 DEF Sound, Shares
  <1>5. Sound(h')
    BY <1>4 DEF Sound, FreeWheel, None, Nobody
  <1>6. UNCHANGED <<pc, level, pending>> /\ pc = "poll"
    BY DEF GameRestarts
  <1> QED
    BY <1>4, <1>5, <1>6
    DEF TickInv, TickTypeOK, OnlyDirectives, PaidAfterPark, JobEndsGoal, None

\* An order of the operator's is sent before the layers are asked.
LEMMA DirectiveInv ==
  ASSUME TickInv, Directive
  PROVE  TickInv'
  <1>1. "operator" \in Owners \ {"roam", "exit_interior"}
    BY OwnersAre
  <1>2. Sound(h)
    BY DEF TickInv
  <1>3. /\ Sound(Ended(h)) /\ Ended(h).goal = None /\ Ended(h).sent = h.sent
    BY <1>2, EndedSound
  <1>4. /\ Sound(h') /\ h'.sent \subseteq h.sent \cup {"operator"}
        /\ h'.goal \in {None, h.goal}
    <2>1. ASSUME NEW r, h' = Reflex(Ended(h), "operator", r)
          PROVE  /\ Sound(h') /\ h'.sent \subseteq h.sent \cup {"operator"}
                 /\ h'.goal \in {None, h.goal}
      BY <1>1, <1>3, <2>1, ReflexSound
    <2>2. CASE h' = Ended(h)
      BY <1>3, <2>2
    <2>3. ASSUME NEW r, h' = Reflex(h, "operator", r)
          PROVE  /\ Sound(h') /\ h'.sent \subseteq h.sent \cup {"operator"}
                 /\ h'.goal \in {None, h.goal}
      BY <1>1, <1>2, <2>3, ReflexSound
    <2> QED
      BY <2>1, <2>2, <2>3 DEF Directive
  <1>5. UNCHANGED <<pc, scene, level, pending>> /\ pc = "operator"
    BY DEF Directive
  <1> QED
    BY <1>4, <1>5
    DEF TickInv, TickTypeOK, Sound, OnlyDirectives, PaidAfterPark, JobEndsGoal, Paid, None

\* The tick opens: a death may end the goal, the overrides, the way out of a house.
LEMMA BeginReflexInv ==
  ASSUME TickInv, BeginReflex
  PROVE  TickInv'
  <1> DEFINE b == [h EXCEPT !.wheel = BeginTick(@)]
  <1>1. Sound(h) /\ h.sent \subseteq {"operator"} /\ pc = "begin"
    BY DEF TickInv, OnlyDirectives, BeginReflex
  <1>2. Sound(b) /\ b.sent = h.sent /\ b.goal = h.goal /\ b.wheel.posted = Nobody
    BY <1>1, BeginTickSound
  <1>3. PICK g \in {b, Ended(b)} : h' = LeftInterior(Overridden(g))
    BY DEF BeginReflex
  <1> HIDE DEF b
  <1>4. /\ Sound(g) /\ g.sent = h.sent /\ g.wheel.posted = Nobody
        /\ g.goal \in {None, h.goal}
    BY <1>2, EndedSound
  <1> DEFINE f == Overridden(g)
  <1>5. /\ Sound(f) /\ f.sent = h.sent /\ f.goal \in {None, h.goal}
        /\ scene.job => f.goal # "plain"
    BY <1>4, OverriddenSound DEF None
  <1> HIDE DEF f
  <1>6. h' \in {f, InteriorReleased(f)}
    BY <1>3 DEF LeftInterior, f
  <1>7. /\ Sound(h') /\ h'.sent \subseteq {"operator"} /\ h'.goal \in {None, h.goal}
        /\ scene.job => h'.goal # "plain"
    BY <1>1, <1>5, <1>6, InteriorSound
  <1>8. /\ level' \in 0 .. 3 /\ pending' \in BOOLEAN
        /\ level' = 3 /\ ~pending' => level = 3 /\ ~pending
        /\ pc' \in {"phone", "survival"} /\ scene' = scene
    <2>1. level \in 0 .. 3 /\ pending \in BOOLEAN
      BY DEF TickInv, TickTypeOK
    <2>2. /\ level' \in {level} \cup (IF scene.job \/ h.wheel.mission THEN level .. 3 ELSE {})
          /\ pending' = (pending \/ (level' # level /\ level' = 3))
          /\ pc' = IF scene.owns = "down" THEN "phone" ELSE "survival"
          /\ scene' = scene
      BY Zenon DEF BeginReflex, Go
    <2>3. level' \in 0 .. 3 /\ pc' \in {"phone", "survival"}
      BY <2>1, <2>2
    <2>4. pending' \in BOOLEAN
      BY <2>2, Zenon
    <2>5. level' = 3 /\ ~pending' => level = 3 /\ ~pending
      BY <2>2, Zenon
    <2> QED
      BY <2>2, <2>3, <2>4, <2>5
  <1> QED
    BY <1>7, <1>8
    DEF TickInv, TickTypeOK, Sound, OnlyDirectives, PaidAfterPark, JobEndsGoal,
        Layers, Paid, FreeLayers, None

\* What it takes of a layer of the tick to keep the invariant: it leaves what
\* is shared sound, and posts, and begins a goal, only as the level and the
\* job allow.
LEMMA LayerInv ==
  ASSUME TickInv, NEW o,
         Sound(h'), h'.sent \subseteq h.sent \cup {o},
         h'.goal = "plain" => h.goal = "plain" \/ (level < 3 /\ ~scene.job),
         scene' = scene,
         UNCHANGED <<level, pending>> \/ (level < 3 /\ Billed),
         pc \notin {"poll", "operator", "begin"},
         pc' \in Layers \ {"operator", "begin"},
         pc \in {"brain", "plan", "activities", "objective", "end"} =>
           pc' \in {"poll", "brain", "plan", "activities", "objective", "end"},
         scene.job => o \notin FreeLayers,
         \/ o \notin Paid
         \/ (level = 3 => pending) /\ pc \in {"brain", "plan", "activities"}
  PROVE  TickInv'
  <1>1. level \in 0 .. 3 /\ pending \in BOOLEAN
    BY DEF TickInv, TickTypeOK
  <1>2. /\ level' \in 0 .. 3 /\ pending' \in BOOLEAN
        /\ level' = 3 /\ ~pending' => level = 3 /\ ~pending
    <2>1. CASE UNCHANGED <<level, pending>>
      BY <1>1, <2>1
    <2>2. CASE level < 3 /\ Billed
      <3>1. level' \in 0 .. 3 /\ level # 3
        BY <1>1, <2>2 DEF Billed
      <3>2. pending' = (pending \/ (level' # level /\ level' = 3))
        BY <2>2 DEF Billed
      <3>3. pending' \in BOOLEAN /\ (level' = 3 /\ ~pending' => level = 3)
        BY <3>2, Zenon
      <3> QED
        BY <3>1, <3>3
    <2> QED
      BY <2>1, <2>2
  <1>3. TickTypeOK'
    BY <1>2 DEF TickTypeOK, Sound
  <1>4. PaidAfterPark'
    <2>1. pc' \notin {"poll", "brain", "plan", "activities", "objective", "end"} =>
             h'.sent \cap Paid = {}
      BY DEF TickInv, PaidAfterPark
    <2>2. level' = 3 /\ ~pending' => h'.goal # "plain" /\ h'.sent \cap Paid = {}
      BY <1>1, <1>2 DEF TickInv, PaidAfterPark
    <2> QED
      BY <2>1, <2>2 DEF PaidAfterPark
  <1>5. JobEndsGoal'
    BY DEF TickInv, JobEndsGoal
  <1> QED
    BY <1>3, <1>4, <1>5 DEF TickInv, OnlyDirectives

\* A layer that stays within what it has sent, and starts no goal.
LEMMA QuietLayerInv ==
  ASSUME TickInv, Sound(h'), h'.sent = h.sent,
         h'.goal = "plain" => h.goal = "plain",
         scene' = scene,
         UNCHANGED <<level, pending>> \/ (level < 3 /\ Billed),
         pc \notin {"poll", "operator", "begin"},
         pc' \in Layers \ {"operator", "begin"},
         pc \in {"brain", "plan", "activities", "objective", "end"} =>
           pc' \in {"poll", "brain", "plan", "activities", "objective", "end"}
  PROVE  TickInv'
  <1>1. h'.sent \subseteq h.sent \cup {"idle"}
    OBVIOUS
  <1>2. "idle" \notin FreeLayers /\ "idle" \notin Paid
    BY DEF FreeLayers, Paid
  <1> QED
    BY <1>1, <1>2, LayerInv

\* The layers that take the wheel for a tick.
LEMMA RungsInv ==
  ASSUME TickInv, SurvivalRung \/ VehicleRung \/ StuckRung \/ FreeRoamRung
                    \/ Wander \/ Resume
  PROVE  TickInv'
  <1>1. Sound(h)
    BY DEF TickInv
  <1> DEFINE Calls == {"flip", "water", "road_dodge", "threat", "vehicle", "governor",
                       "resume", "idle_breaker", "house_escape", "stranded"}
  <1>2. /\ Calls \subseteq Owners \ {"roam", "exit_interior"}
        /\ "vehicle" \in Owners /\ "physical" \in Owners
    BY OwnersAre
  <1>3. ASSUME NEW o \in Calls, NEW r, h' = Reflex(h, o, r)
        PROVE  /\ Sound(h') /\ h'.sent \subseteq h.sent \cup {o}
               /\ h'.goal = "plain" => h.goal = "plain"
    <2> HIDE DEF Calls
    <2>1. o \in Owners \ {"roam", "exit_interior"}
      BY <1>2
    <2> QED
      BY <1>1, <1>3, <2>1, ReflexSound DEF None
  <1>4. h \in Shares /\ h.quiet \in BOOLEAN
    BY DEF TickInv, TickTypeOK, Shares
  <1>5. CASE SurvivalRung
    <2>1. UNCHANGED <<scene, level, pending>> /\ pc = "survival" /\ pc' = "vehicle"
      BY <1>5 DEF SurvivalRung, Go
    <2>2. CASE h' = h
      BY <1>1, <2>1, <2>2, QuietLayerInv DEF Layers
    <2>3. ASSUME NEW o \in Survival, NEW r \in Possible, h' = Reflex(h, o, r)
          PROVE  TickInv'
      <3>1. o \in Calls /\ o \notin FreeLayers /\ o \notin Paid
        BY TickAssumption DEF FreeLayers, Paid
      <3> QED
        BY <1>3, <2>1, <2>3, <3>1, LayerInv DEF Layers
    <2> QED
      BY <1>5, <2>2, <2>3 DEF SurvivalRung
  <1>6. CASE VehicleRung
    <2>1. UNCHANGED <<scene, level, pending>> /\ pc = "vehicle" /\ pc' = "stuck"
      BY <1>6 DEF VehicleRung, Go
    <2>2. CASE h' = h
      BY <1>1, <2>1, <2>2, QuietLayerInv DEF Layers
    <2>3. CASE h' = [h EXCEPT !.wheel = Note(@, "vehicle"), !.quiet = FALSE]
      <3>1. Sound(h') /\ h'.sent = h.sent /\ h'.goal = h.goal
        BY <1>1, <1>2, <2>3, FlagsSound
      <3> QED
        BY <2>1, <3>1, QuietLayerInv DEF Layers
    <2>4. ASSUME NEW r \in Possible, h' = Reflex(h, "vehicle", r)
          PROVE  TickInv'
      <3>1. "vehicle" \in Calls /\ "vehicle" \notin FreeLayers /\ "vehicle" \notin Paid
        BY DEF FreeLayers, Paid
      <3> QED
        BY <1>3, <2>1, <2>4, <3>1, LayerInv DEF Layers
    <2> QED
      BY <1>6, <2>2, <2>3, <2>4 DEF VehicleRung
  <1>7. CASE StuckRung
    <2>1. UNCHANGED <<scene, level, pending>> /\ pc = "stuck"
          /\ pc' \in {"free", "resume"}
      BY <1>7 DEF StuckRung, Go
    <2>2. Sound(h') /\ h'.sent = h.sent /\ h'.goal = h.goal
      <3>1. \/ h' = h
            \/ \E q \in BOOLEAN : h' = [h EXCEPT !.wheel = Note(@, "physical"), !.quiet = q]
        <4>1. h' \in {h} \cup {[h EXCEPT !.wheel = Note(@, "physical"), !.quiet = q] :
                                q \in {h.quiet, FALSE}}
          BY <1>7 DEF StuckRung
        <4> QED
          BY <1>4, <4>1
      <3>2. ASSUME NEW q \in BOOLEAN,
                   h' = [h EXCEPT !.wheel = Note(@, "physical"), !.quiet = q]
            PROVE  Sound(h') /\ h'.sent = h.sent /\ h'.goal = h.goal
        <4>1. "physical" \in Owners
          BY OwnersAre
        <4> DEFINE f == [h EXCEPT !.wheel = Note(@, "physical"), !.quiet = q]
        <4>2. Sound(f) /\ f.sent = h.sent /\ f.goal = h.goal
          BY <1>1, <4>1, FlagsSound
        <4> QED
          BY <3>2, <4>2
      <3> QED
        BY <1>1, <3>1, <3>2
    <2> QED
      BY <2>1, <2>2, QuietLayerInv DEF Layers
  <1>8. CASE FreeRoamRung
    <2>1. UNCHANGED <<scene, level, pending>> /\ pc = "free" /\ pc' = "wander"
      BY <1>8 DEF FreeRoamRung, Go
    <2>2. CASE h' = h
      BY <1>1, <2>1, <2>2, QuietLayerInv DEF Layers
    <2>3. ASSUME NEW o \in FreeRungs, NEW r \in Possible, h' = Reflex(h, o, r)
          PROVE  TickInv'
      <3>1. o \in {"house_escape", "stranded", "idle_breaker"} /\ ~scene.job
        BY DEF FreeRungs, InMission
      <3>2. o \in Calls /\ o \notin Paid
        BY <3>1 DEF Paid
      <3> QED
        BY <1>3, <2>1, <2>3, <3>1, <3>2, LayerInv DEF Layers
    <2> QED
      BY <1>8, <2>2, <2>3 DEF FreeRoamRung
  <1>9. CASE Wander
    <2>1. UNCHANGED <<scene, level, pending>> /\ pc = "wander" /\ pc' = "resume"
      BY <1>9 DEF Wander, Go
    <2>2. CASE h' = h
      BY <1>1, <2>1, <2>2, QuietLayerInv DEF Layers
    <2>3. ASSUME NEW r \in Possible, h' = Reflex(h, "governor", r)
          PROVE  TickInv'
      <3>1. "governor" \in Calls /\ "governor" \notin FreeLayers /\ "governor" \notin Paid
        BY DEF FreeLayers, Paid
      <3> QED
        BY <1>3, <2>1, <2>3, <3>1, LayerInv DEF Layers
    <2> QED
      BY <1>9, <2>2, <2>3 DEF Wander
  <1>10. CASE Resume
    <2>1. UNCHANGED <<scene, level, pending>> /\ pc = "resume" /\ pc' = "phone"
      BY <1>10 DEF Resume, Go
    <2>2. CASE h' = h
      BY <1>1, <2>1, <2>2, QuietLayerInv DEF Layers
    <2>3. ASSUME NEW r \in Possible, h' = Reflex(h, "resume", r)
          PROVE  TickInv'
      <3>1. "resume" \in Calls /\ "resume" \notin FreeLayers /\ "resume" \notin Paid
        BY DEF FreeLayers, Paid
      <3> QED
        BY <1>3, <2>1, <2>3, <3>1, LayerInv DEF Layers
    <2> QED
      BY <1>10, <2>2, <2>3 DEF Resume
  <1> QED
    BY <1>5, <1>6, <1>7, <1>8, <1>9, <1>10

\* The way out of a house, taken over or left.
LEMMA EscapeInteriorInv ==
  ASSUME TickInv, EscapeInterior
  PROVE  TickInv'
  <1>1. Sound(h) /\ "exit_interior" \in Owners
    BY OwnersAre DEF TickInv
  <1>2. /\ UNCHANGED <<scene, level, pending>> /\ pc = "free" /\ pc' = "wander"
        /\ ~scene.job
    BY DEF EscapeInterior, Go
  <1>3. CASE h' = InteriorReleased(h)
    BY <1>1, <1>2, <1>3, InteriorSound, QuietLayerInv DEF Layers
  <1>4. CASE h' = [h EXCEPT !.exiting = FALSE]
    <2>1. Sound(h') /\ h'.sent = h.sent /\ h'.goal = h.goal
      BY <1>1, <1>4 DEF Sound, Shares
    <2> QED
      BY <1>2, <2>1, QuietLayerInv DEF Layers
  <1>5. CASE /\ MayAcquire(h.wheel, "exit_interior")
             /\ LET g == [Takes(h, "exit_interior", "open") EXCEPT !.exiting = TRUE]
                IN h' \in {g} \cup {Executed(g, "exit_interior", r) : r \in Possible}
    <2> DEFINE t == Takes(h, "exit_interior", "open")
               g == [t EXCEPT !.exiting = TRUE]
    <2>1. /\ Sound(t) /\ t.wheel.owner = "exit_interior" /\ t.sent = h.sent
          /\ t.wheel.posted = h.wheel.posted /\ t.goal \in {None, h.goal}
      BY <1>1, TakesSound DEF Leases
    <2> HIDE DEF t
    <2>2. /\ Sound(g) /\ g.sent = h.sent /\ g.goal = t.goal
          /\ g.wheel.posted \in {Nobody, "exit_interior"}
      <3>1. /\ g \in Shares /\ g.wheel = t.wheel /\ g.sent = t.sent /\ g.goal = t.goal
        BY <2>1 DEF Sound, Shares
      <3>2. h.wheel.posted \in {Nobody, "exit_interior"}
        BY <1>5 DEF MayAcquire
      <3> QED
        BY <2>1, <3>1, <3>2 DEF Sound
    <2>3. h' = g \/ \E r \in Possible : h' = Executed(g, "exit_interior", r)
      BY <1>5 DEF t
    <2> HIDE DEF g
    <2>4. /\ Sound(h') /\ h'.sent \subseteq h.sent \cup {"exit_interior"}
          /\ h'.goal = t.goal
      BY <1>1, <2>2, <2>3, ExecutedSound
    <2> QED
      BY <1>2, <2>1, <2>4, LayerInv DEF Layers, Paid, None
  <1> QED
    BY <1>3, <1>4, <1>5 DEF EscapeInterior

\* The phone touches neither wheel nor goal.
LEMMA PhoneInv ==
  ASSUME TickInv, Phone
  PROVE  TickInv'
  <1>1. h' = h \/ h' = [h EXCEPT !.quiet = FALSE]
    BY DEF Phone
  <1>2. Sound(h') /\ h'.sent = h.sent /\ h'.goal = h.goal
    BY <1>1, FlagsSound DEF TickInv
  <1>3. UNCHANGED <<scene, level, pending>> /\ pc = "phone" /\ pc' = "park"
    BY DEF Phone, Go
  <1> QED
    BY <1>2, <1>3, QuietLayerInv DEF Layers

\* The layers whose step says nothing of the wheel.
LEMMA StillInv ==
  ASSUME TickInv, Drained \/ EndTick
  PROVE  TickInv'
  <1>1. UNCHANGED <<h, scene, level, pending>> /\ Sound(h)
    BY DEF TickInv, Drained, EndTick
  <1>2. CASE Drained
    BY <1>1, <1>2 DEF Drained, Go, TickInv, TickTypeOK, Sound, OnlyDirectives,
                      PaidAfterPark, JobEndsGoal, Layers, FreeLayers
  <1>3. CASE EndTick
    BY <1>1, <1>3, QuietLayerInv DEF EndTick, Go, Layers
  <1> QED
    BY <1>2, <1>3

\* The mission's hold on the wheel is renewed, and its move posted.
LEMMA ObjectiveInv ==
  ASSUME TickInv, Objective
  PROVE  TickInv'
  <1>1. UNCHANGED <<scene, level, pending>> /\ pc = "objective" /\ pc' = "end"
    BY DEF Objective, Go
  <1>2. Sound(h) /\ "mission" \in Owners
    BY OwnersAre DEF TickInv
  <1>3. CASE h' = h
    BY <1>1, <1>2, <1>3, QuietLayerInv DEF Layers
  <1>4. ASSUME MayAcquire(h.wheel, "mission"), NEW r \in Possible,
               h' = Executed(Takes(h, "mission", "open"), "mission", r)
        PROVE  TickInv'
    <2>1. /\ Sound(h') /\ h'.sent \subseteq h.sent \cup {"mission"}
          /\ h'.goal \in {None, h.goal}
      BY <1>2, <1>4, PostSound DEF Leases
    <2> QED
      BY <1>1, <2>1, LayerInv DEF Layers, Paid, FreeLayers, None
  <1> QED
    BY <1>3, <1>4 DEF Objective

\* The trip's move takes the wheel, and a goal that held it is lost.
LEMMA DayPlanInv ==
  ASSUME TickInv, DayPlanStep
  PROVE  TickInv'
  <1>1. UNCHANGED <<scene, level, pending>> /\ pc = "plan" /\ pc' = "activities"
    BY DEF DayPlanStep, Go
  <1>2. Sound(h) /\ "day_plan" \in Owners /\ level \in 0 .. 3
    BY OwnersAre DEF TickInv, TickTypeOK
  <1>3. CASE h' = h
    BY <1>1, <1>2, <1>3, QuietLayerInv DEF Layers
  <1>4. ASSUME level < 3, ~InMission, MayAcquire(h.wheel, "day_plan"),
               NEW r \in Possible,
               h' = Executed(Takes(h, "day_plan", "open"), "day_plan", r)
        PROVE  TickInv'
    <2>1. /\ Sound(h') /\ h'.sent \subseteq h.sent \cup {"day_plan"}
          /\ h'.goal \in {None, h.goal}
      BY <1>2, <1>4, PostSound DEF Leases
    <2>2. ~scene.job
      BY <1>4 DEF InMission
    <2> QED
      BY <1>1, <1>4, <2>1, <2>2, LayerInv DEF Layers, None
  <1>5. \/ h' = h
        \/ /\ level < 3 /\ ~InMission /\ MayAcquire(h.wheel, "day_plan")
           /\ \E r \in Possible : h' = Executed(Takes(h, "day_plan", "open"), "day_plan", r)
    BY <1>2 DEF DayPlanStep
  <1> QED
    BY <1>3, <1>4, <1>5

\* The park: the goal goes whoever has the wheel, so whatever the level does
\* afterwards nothing that was begun awake is left.
LEMMA BeginParkInv ==
  ASSUME TickInv, BeginPark
  PROVE  TickInv'
  <1> DEFINE e == [Ended(h) EXCEPT !.park = FALSE]
  <1>1. Sound(e) /\ e.sent = h.sent /\ e.goal = None
    <2>1. Sound(Ended(h)) /\ Ended(h).sent = h.sent /\ Ended(h).goal = None
      BY EndedSound DEF TickInv
    <2> QED
      BY <2>1, FlagsSound
  <1>2. "governor" \in Owners \ {"roam", "exit_interior"}
    BY OwnersAre
  <1>3. /\ Sound(h') /\ h'.sent \subseteq h.sent \cup {"governor"} /\ h'.goal = None
    <2> DEFINE t == Takes(e, "governor", "open")
    <2>1. CASE ~MayAcquire(e.wheel, "governor")
      BY <1>1, <2>1 DEF BeginPark
    <2>2. CASE MayAcquire(e.wheel, "governor")
      <3>1. \E r \in Possible :
              LET d == Executed(t, "governor", r)
              IN \/ h' = [d EXCEPT !.wheel = ReleaseOwner(@, "governor")]
                 \/ h' = [d EXCEPT !.park = TRUE]
                 \/ \E s \in Possible :
                      h' = [Executed(d, "governor", s)
                              EXCEPT !.wheel = ReleaseOwner(@, "governor")]
        BY <2>2, Zenon DEF BeginPark
      <3>2. PICK r \in Possible :
              LET d == Executed(t, "governor", r)
              IN \/ h' = [d EXCEPT !.wheel = ReleaseOwner(@, "governor")]
                 \/ h' = [d EXCEPT !.park = TRUE]
                 \/ \E s \in Possible :
                      h' = [Executed(d, "governor", s)
                              EXCEPT !.wheel = ReleaseOwner(@, "governor")]
        BY <3>1
      <3> DEFINE d == Executed(t, "governor", r)
      <3>3. /\ Sound(d) /\ d.sent \subseteq h.sent \cup {"governor"} /\ d.goal = None
            /\ d.wheel.posted \in {Nobody, "governor"}
        <4> HIDE DEF e
        <4> QED
          BY <1>1, <1>2, <2>2, PostSound DEF Leases
      <3> HIDE DEF d
      <3>4. CASE h' = [d EXCEPT !.wheel = ReleaseOwner(@, "governor")]
        <4>1. Sound(h') /\ h'.sent = d.sent /\ h'.goal = d.goal
          BY <1>2, <3>3, <3>4, ReleasedSound
        <4> QED
          BY <3>3, <4>1
      <3>5. CASE h' = [d EXCEPT !.park = TRUE]
        <4>1. Sound(h') /\ h'.sent = d.sent /\ h'.goal = d.goal
          BY <3>3, <3>5, FlagsSound
        <4> QED
          BY <3>3, <4>1
      <3>6. ASSUME NEW s \in Possible,
                   h' = [Executed(d, "governor", s)
                           EXCEPT !.wheel = ReleaseOwner(@, "governor")]
            PROVE  Sound(h') /\ h'.sent \subseteq h.sent \cup {"governor"}
                   /\ h'.goal = None
        <4> DEFINE c == Executed(d, "governor", s)
        <4>1. Sound(c) /\ c.sent \subseteq d.sent \cup {"governor"} /\ c.goal = d.goal
          BY <1>2, <3>3, ExecutedSound
        <4> HIDE DEF c
        <4>2. h' = [c EXCEPT !.wheel = ReleaseOwner(@, "governor")]
          BY <3>6 DEF c
        <4> QED
          BY <1>2, <3>3, <4>1, <4>2, ReleasedSound
      <3> QED
        BY <3>2, <3>4, <3>5, <3>6 DEF d
    <2> QED
      BY <2>1, <2>2
  <1>4. /\ UNCHANGED <<scene, level>> /\ pc = "park" /\ pc' = "brain"
    BY DEF BeginPark, Go
  <1>5. h'.sent \cap Paid = {}
    BY <1>3, <1>4 DEF TickInv, PaidAfterPark, Paid
  <1>7. pending' \in BOOLEAN
    BY Zenon DEF BeginPark
  <1>6. scene.job => h'.sent \cap FreeLayers = {}
    BY <1>3, <1>4 DEF TickInv, JobEndsGoal, FreeLayers
  <1> QED
    BY <1>3, <1>4, <1>5, <1>6, <1>7
    DEF TickInv, TickTypeOK, Sound, OnlyDirectives, PaidAfterPark, JobEndsGoal,
        Layers, None

\* The park that level 3 waits for, and what is paid after it.
LEMMA FinishParkInv ==
  ASSUME TickInv, FinishPark
  PROVE  TickInv'
  <1> DEFINE p == [h EXCEPT !.park = FALSE]
             off == [h EXCEPT !.wheel = ReleaseOwner(@, "governor"), !.park = FALSE]
  <1>1. UNCHANGED <<scene, level, pending>> /\ pc = "park" /\ pc' = "brain"
    BY DEF FinishPark, Go
  <1>2. Sound(h) /\ "governor" \in Owners \ {"roam", "exit_interior"}
    BY OwnersAre DEF TickInv
  <1>3. Sound(p) /\ p.sent = h.sent /\ p.goal = h.goal /\ p.wheel = h.wheel
    BY <1>2, FlagsSound
  <1>4. CASE h' = h
    BY <1>1, <1>2, <1>4, QuietLayerInv DEF Layers
  <1>5. CASE h' = off
    <2> DEFINE w == [h EXCEPT !.wheel = ReleaseOwner(@, "governor")]
    <2>1. Sound(w) /\ w.sent = h.sent /\ w.goal = h.goal
      BY <1>2, ReleasedSound
    <2>2. off = [w EXCEPT !.park = FALSE]
      BY <1>2 DEF Sound, Shares
    <2> HIDE DEF w, off
    <2>3. Sound(h') /\ h'.sent = h.sent /\ h'.goal = h.goal
      BY <1>5, <2>1, <2>2, FlagsSound
    <2> QED
      BY <1>1, <2>3, QuietLayerInv DEF Layers
  <1>6. CASE h' = p
    BY <1>1, <1>3, <1>6, QuietLayerInv DEF Layers
  <1>7. ASSUME MayAcquire(p.wheel, "governor"), NEW r,
               LET g == Executed(Takes(p, "governor", "open"), "governor", r)
               IN h' = [g EXCEPT !.wheel = ReleaseOwner(@, "governor")]
        PROVE  TickInv'
    <2> DEFINE g == Executed(Takes(p, "governor", "open"), "governor", r)
    <2>1. Sound(g) /\ g.sent \subseteq h.sent \cup {"governor"} /\ g.goal \in {None, h.goal}
      <3> HIDE DEF p
      <3> QED
        BY <1>2, <1>3, <1>7, PostSound DEF Leases
    <2>2. h' = [g EXCEPT !.wheel = ReleaseOwner(@, "governor")]
      BY <1>7
    <2> HIDE DEF g
    <2>3. Sound(h') /\ h'.sent = g.sent /\ h'.goal = g.goal
      BY <1>2, <2>1, <2>2, ReleasedSound
    <2> QED
      BY <1>1, <2>1, <2>3, LayerInv DEF Layers, Paid, FreeLayers, None
  <1> QED
    BY <1>4, <1>5, <1>6, <1>7 DEF FinishPark

\* The brain moves him awake only; a call that is billed up to the stop asks
\* for the park in the same breath.
LEMMA BrainInv ==
  ASSUME TickInv, Decide \/ DecideNothing \/ NoBrain
  PROVE  TickInv'
  <1>1. Sound(h) /\ "brain" \in Owners
    BY OwnersAre DEF TickInv
  <1>2. /\ scene' = scene /\ pc = "brain" /\ pc' = "plan"
        /\ UNCHANGED <<level, pending>> \/ (level < 3 /\ Billed)
    BY DEF Decide, DecideNothing, NoBrain, Go
  <1>3. CASE DecideNothing \/ NoBrain \/ h' = h
    <2>1. h' = h \/ h' = [h EXCEPT !.quiet = FALSE] \/ h' = [h EXCEPT !.quiet = TRUE]
      BY <1>3 DEF DecideNothing, NoBrain
    <2>2. Sound(h') /\ h'.sent = h.sent /\ h'.goal = h.goal
      BY <1>1, <2>1, FlagsSound
    <2> QED
      BY <1>2, <2>2, QuietLayerInv DEF Layers
  <1>4. CASE Decide /\ h' # h
    <2>1. PICK r \in Possible :
            /\ MayAcquire(h.wheel, "brain")
            /\ h' = Executed(Ended(Takes(h, "brain", "tick")), "brain", r)
      BY <1>4 DEF Decide
    <2> DEFINE t == Takes(h, "brain", "tick")
    <2>2. /\ Sound(t) /\ t.sent = h.sent /\ t.wheel.posted = h.wheel.posted
      BY <1>1, TakesSound DEF Leases
    <2> HIDE DEF t
    <2> DEFINE e == Ended(t)
    <2>3. /\ Sound(e) /\ e.sent = h.sent /\ e.goal = None
          /\ e.wheel.posted \in {Nobody, "brain"}
      BY <2>1, <2>2, EndedSound DEF MayAcquire
    <2>4. h' = Executed(e, "brain", r)
      BY <2>1 DEF t
    <2> HIDE DEF e
    <2>5. /\ Sound(h') /\ h'.sent \subseteq h.sent \cup {"brain"} /\ h'.goal = None
      BY <1>1, <2>3, <2>4, ExecutedSound
    <2>6. level # 3
      BY <1>4 DEF Decide, TickInv, TickTypeOK
    <2> QED
      BY <1>2, <2>5, <2>6, LayerInv DEF Layers, FreeLayers, None
  <1> QED
    BY <1>3, <1>4

\* The last layer: the goal is graded, advanced or begun.
LEMMA ActivitiesInv ==
  ASSUME TickInv, Activities
  PROVE  TickInv'
  <1>1. Sound(h) /\ level \in 0 .. 3
    BY DEF TickInv, TickTypeOK
  <1>2. UNCHANGED <<scene, level, pending>> /\ pc = "activities" /\ pc' = "objective"
    BY DEF Activities, Go
  <1>3. CASE h' = h
    BY <1>1, <1>2, <1>3, QuietLayerInv DEF Layers
  <1>4. CASE h' = Ended(h)
    <2>1. Sound(h') /\ h'.sent = h.sent /\ h'.goal = None
      BY <1>1, <1>4, EndedSound
    <2> QED
      BY <1>2, <2>1, QuietLayerInv DEF Layers, None
  <1>5. CASE h.goal = "plain" /\ h' \in Judged(h)
    <2>1. /\ Sound(h') /\ h'.sent \subseteq h.sent \cup {"roam"}
          /\ h'.goal \in {None, h.goal}
      BY <1>1, <1>5, JudgedSound
    <2>2. ~scene.job
      BY <1>2, <1>5 DEF TickInv, JobEndsGoal
    <2>3. level = 3 => pending
      BY <1>5 DEF TickInv, PaidAfterPark
    <2> QED
      BY <1>1, <1>2, <1>5, <2>1, <2>2, <2>3, LayerInv DEF Layers
  <1>6. CASE level < 3 /\ ~scene.job /\ h' \in Advanced(h) \cup Begun(h)
    <2>1. Sound(h') /\ h'.sent \subseteq h.sent \cup {"roam"}
      BY <1>1, <1>6, AdvancedSound, BegunSound
    <2> QED
      BY <1>2, <1>6, <2>1, LayerInv DEF Layers
  <1>7. \/ h' \in {h, Ended(h)}
        \/ h.goal = "plain" /\ h' \in Judged(h)
        \/ level < 3 /\ ~scene.job /\ h' \in Advanced(h) \cup Begun(h)
    <2>1. CASE h.goal # None /\ h' \in Judged(h)
      BY <1>1, <2>1, JudgedSound
    <2>2. CASE ~(h.goal # None /\ h' \in Judged(h))
      <3>1. \/ h' = h \/ h' = Ended(h)
            \/ ~StandsDown /\ ~InMission /\ (h' \in Advanced(h) \/ h' \in Begun(h))
        BY <2>2, Zenon DEF Activities
      <3>2. ~StandsDown => level < 3
        BY <1>1 DEF StandsDown
      <3>3. ~InMission => ~scene.job
        BY DEF InMission
      <3> QED
        BY <3>1, <3>2, <3>3
    <2> QED
      BY <2>1, <2>2
  <1> QED
    BY <1>3, <1>4, <1>5, <1>6, <1>7

-----------------------------------------------------------------------------
(* The theorems                                                            *)

\* Every step of the harness preserves it.
LEMMA StepInv == TickInv /\ [TickNext]_tickVars => TickInv'
  <1> SUFFICES ASSUME TickInv, [TickNext]_tickVars PROVE TickInv'
    OBVIOUS
  <1>1. CASE Poll \/ OnBreak
    BY <1>1, PollInv
  <1>2. CASE StartBreak
    BY <1>2, StartBreakInv
  <1>3. CASE GameRestarts
    BY <1>3, GameRestartsInv
  <1>4. CASE Directive
    BY <1>4, DirectiveInv
  <1>5. CASE BeginReflex
    BY <1>5, BeginReflexInv
  <1>6. CASE SurvivalRung \/ VehicleRung \/ StuckRung \/ FreeRoamRung \/ Wander \/ Resume
    BY <1>6, RungsInv
  <1>7. CASE EscapeInterior
    BY <1>7, EscapeInteriorInv
  <1>8. CASE Phone
    BY <1>8, PhoneInv
  <1>9. CASE BeginPark
    BY <1>9, BeginParkInv
  <1>10. CASE FinishPark
    BY <1>10, FinishParkInv
  <1>11. CASE Decide \/ DecideNothing \/ NoBrain
    BY <1>11, BrainInv
  <1>12. CASE DayPlanStep
    BY <1>12, DayPlanInv
  <1>13. CASE Activities
    BY <1>13, ActivitiesInv
  <1>14. CASE Objective
    BY <1>14, ObjectiveInv
  <1>15. CASE Drained \/ EndTick
    BY <1>15, StillInv
  <1>16. CASE UNCHANGED tickVars
    BY <1>16 DEF tickVars, TickInv, TickTypeOK, Sound, OnlyDirectives,
       PaidAfterPark, JobEndsGoal
  <1> QED
    BY <1>1, <1>2, <1>3, <1>4, <1>5, <1>6, <1>7, <1>8, <1>9, <1>10, <1>11,
       <1>12, <1>13, <1>14, <1>15, <1>16 DEF TickNext

\* The loop never leaves the states the inductive invariant describes, what
\* the layers share is well typed, and the level is one of the governor's.
THEOREM TickInvariance == TickSpec => []TickInv
  BY InitInv, StepInv, PTL DEF TickSpec

\* Whatever the snapshots, the results of the posts and the order the layers
\* fire in, at most one owner posts movement between two openings of the tick:
\* acquire's latch on the poster is enough.
THEOREM OneMoverPerTick == TickSpec => []OneMover
  <1>1. TickInv => OneMover
    <2> SUFFICES ASSUME TickInv PROVE OneMover
      OBVIOUS
    <2> DEFINE posts == h.sent \ {"operator"}
    <2>1. posts = {} \/ posts = {h.wheel.posted}
      BY DEF TickInv, Sound
    <2>2. Cardinality({}) = 0 /\ Cardinality({h.wheel.posted}) = 1
      BY FS_EmptySet, FS_Singleton
    <2> QED
      BY <2>1, <2>2 DEF OneMover
  <1> QED
    BY <1>1, TickInvariance, PTL

\* No way of losing the wheel (a hook, the end of a job, forced idle, the park,
\* a restart of the game) leaves a planned goal, or the token of the way out of
\* a building, with a layer that no longer holds it.
THEOREM ClaimsStayHeld == TickSpec => []ClaimsAreHeld
  <1>1. TickInv => ClaimsAreHeld
    BY DEF TickInv, Sound, ClaimsAreHeld
  <1> QED
    BY <1>1, TickInvariance, PTL

\* During a job no free-roam layer moves the player, and after the budget stop
\* has been obeyed nothing that is paid for does.
THEOREM LayersStandAside == TickSpec => []StandAside
  <1>1. TickInv => StandAside
    BY DEF TickInv, PaidAfterPark, JobEndsGoal, StandAside, Paid, FreeLayers
  <1> QED
    BY <1>1, TickInvariance, PTL

-----------------------------------------------------------------------------
(* Deaths: the inductive invariant                                         *)

ClipPhases == {"free", "slow", "cleared", "waits", "uploads", "inserts"}
ClipRows == [for : Nat, file : Nat, late : BOOLEAN]
Shelves == [store : BOOLEAN, objects : SUBSET (Nat \X Nat), rows : SUBSET ClipRows]
DeathsTypeOK ==
  /\ body \in [is : SUBSET Kinds, spells : Nat, anew : BOOLEAN]
  /\ before \in [knows : BOOLEAN, was : SUBSET Kinds, rests : BOOLEAN]
  /\ recovery \in BOOLEAN /\ aim \in Nat
  /\ told \in [now : [Kinds -> Nat], spells : SUBSET Nat, missed : SUBSET Nat, seen : Nat]
  /\ clip \in [at : ClipPhases, for : Nat, file : Nat, late : BOOLEAN]
  /\ obs \in [asked : SUBSET Nat, path : Nat]
  /\ shelf \in Shelves

\* What was told of this spell was in the last snapshot, unless there is none to
\* compare with; a man only arrested has not been told dead.
ToldIsKnown ==
  /\ \A k \in Kinds : /\ told.now[k] <= 1
                      /\ k \in body.is /\ told.now[k] > 0 /\ before.knows => k \in before.was
  /\ body.is = {"busted"} => told.now["death"] = 0

\* A spell that the last snapshot shows as it is now was told or missed, and so was
\* the last one a reflex saw.
SeenIsTold ==
  /\ body.is # Up /\ before.knows /\ body.is \subseteq before.was =>
        body.spells \in told.spells \cup told.missed
  /\ told.seen # 0 => told.seen \in told.spells \cup told.missed

\* A clip is of a told spell, its file is the replay asked for, and its object
\* is there before its row.
ClipIsOfSpell ==
  /\ clip.at # "free" => clip.for \in told.spells
  /\ clip.at \in {"cleared", "waits"} /\ obs.path # Nothing =>
        clip.late \/ obs.path = clip.for
  /\ clip.at \in {"uploads", "inserts"} => clip.late \/ clip.file = clip.for
  /\ clip.at = "inserts" /\ shelf.store => <<clip.for, clip.file>> \in shelf.objects
  /\ \A r \in shelf.rows : /\ r.for \in told.spells /\ (r.late \/ r.file = r.for)
                           /\ shelf.store => <<r.for, r.file>> \in shelf.objects

\* Whoever is down unseen has not been seen down in this spell, and a goal from
\* before a spell that was seen lives only while the respawn is awaited.
AimsForget ==
  /\ told.seen <= body.spells
  /\ body.is # Up /\ (before.was = Up \/ body.anew) => told.seen < body.spells
  /\ ~recovery => aim >= told.seen
  /\ before.knows /\ ~before.rests /\ before.was = Up => ~recovery

DeathsInv == DeathsTypeOK /\ ToldIsKnown /\ SeenIsTold /\ ClipIsOfSpell /\ AimsForget

LEMMA DeathsBegin == DeathsInit => DeathsInv
  <1> SUFFICES ASSUME DeathsInit PROVE DeathsInv
    OBVIOUS
  <1>1. DeathsTypeOK
    <2>1. PICK c \in BOOLEAN : shelf = [store |-> c, objects |-> {}, rows |-> {}]
      BY DEF DeathsInit
    <2>2. shelf \in Shelves
      BY <2>1 DEF Shelves
    <2> QED
      BY <2>2 DEF DeathsInit, DeathsTypeOK, Up, Nothing, ClipPhases
  <1>2. ToldIsKnown
    BY DEF DeathsInit, ToldIsKnown, Kinds, Up
  <1>3. ClipIsOfSpell
    BY DEF DeathsInit, ClipIsOfSpell
  <1>4. AimsForget
    BY DEF DeathsInit, AimsForget, Up
  <1>5. SeenIsTold
    BY DEF DeathsInit, SeenIsTold, Up
  <1> QED
    BY <1>1, <1>2, <1>3, <1>4, <1>5 DEF DeathsInv

\* The game moves on: a new spell, another state of the same one, a new process.
LEMMA BodyInv ==
  ASSUME DeathsInv, GoesDown \/ BodyChanges
  PROVE  DeathsInv'
  <1>1. CASE GoesDown
    <2> DEFINE shown(d) == IF d \in before.was THEN {body.spells + 1} ELSE {}
    <2>1. PICK k \in Kinds :
             /\ body' = [body EXCEPT !.is = {k}, !.spells = @ + 1]
             /\ told' = [told EXCEPT !.now = [j \in Kinds |-> 0], !.missed = @ \cup shown(k)]
      BY <1>1 DEF GoesDown
    <2>2. /\ body.is = Up
          /\ UNCHANGED <<before, recovery, aim, clip, obs, shelf>>
      BY <1>1 DEF GoesDown
    <2>3. /\ body' \in [is : SUBSET Kinds, spells : Nat, anew : BOOLEAN]
          /\ body'.is = {k} /\ body'.spells = body.spells + 1
          /\ told' \in [now : [Kinds -> Nat], spells : SUBSET Nat, missed : SUBSET Nat, seen : Nat]
          /\ told'.now = [j \in Kinds |-> 0] /\ told'.spells = told.spells
          /\ told'.missed = told.missed \cup shown(k)
          /\ told'.seen = told.seen /\ told.seen \in Nat /\ body.spells \in Nat
      <3>1. /\ body \in [is : SUBSET Kinds, spells : Nat, anew : BOOLEAN]
            /\ told \in [now : [Kinds -> Nat], spells : SUBSET Nat, missed : SUBSET Nat, seen : Nat]
        BY DEF DeathsInv, DeathsTypeOK
      <3>2. body.spells + 1 \in Nat /\ {k} \in SUBSET Kinds
        BY <3>1
      <3>3. /\ body' \in [is : SUBSET Kinds, spells : Nat, anew : BOOLEAN]
            /\ body'.is = {k} /\ body'.spells = body.spells + 1
        BY <2>1, <3>1, <3>2
      <3> DEFINE none == [j \in Kinds |-> 0]
                 more == told.missed \cup shown(k)
      <3>4. none \in [Kinds -> Nat] /\ more \in SUBSET Nat
        BY <3>1, <3>2
      <3>6. told' = [told EXCEPT !.now = none, !.missed = more]
        BY <2>1
      <3> HIDE DEF none, more
      <3>5. /\ told' \in [now : [Kinds -> Nat], spells : SUBSET Nat, missed : SUBSET Nat, seen : Nat]
            /\ told'.now = none /\ told'.spells = told.spells /\ told'.seen = told.seen
            /\ told'.missed = more
        BY <3>1, <3>4, <3>6
      <3> QED
        BY <3>1, <3>3, <3>5 DEF none, more
    <2>8. SeenIsTold'
      BY <2>2, <2>3 DEF DeathsInv, SeenIsTold
    <2>4. DeathsTypeOK'
      BY <2>2, <2>3 DEF DeathsInv, DeathsTypeOK
    <2>5. ToldIsKnown'
      BY <2>2, <2>3 DEF ToldIsKnown, Kinds
    <2>6. ClipIsOfSpell'
      BY <2>2, <2>3 DEF DeathsInv, ClipIsOfSpell
    <2>7. AimsForget'
      BY <2>2, <2>3 DEF DeathsInv, AimsForget
    <2> QED
      BY <2>4, <2>5, <2>6, <2>7, <2>8 DEF DeathsInv
  <1>2. CASE BodyChanges
    <2>1. UNCHANGED <<before, recovery, aim, told, clip, obs, shelf>>
      BY <1>2 DEF BodyChanges
    <2>2. /\ body' \in [is : SUBSET Kinds, spells : Nat, anew : BOOLEAN]
          /\ body'.spells = body.spells
          /\ \/ body.is = {"busted"} /\ body'.is = Kinds /\ body'.anew = body.anew
             \/ body'.is = Up
      BY <1>2 DEF BodyChanges, DeathsInv, DeathsTypeOK, Up
    <2>3. DeathsTypeOK'
      BY <2>1, <2>2 DEF DeathsInv, DeathsTypeOK
    <2>4. ToldIsKnown'
      BY <2>1, <2>2 DEF DeathsInv, ToldIsKnown, Kinds, Up
    <2>5. ClipIsOfSpell'
      BY <2>1 DEF DeathsInv, ClipIsOfSpell
    <2>6. AimsForget'
      BY <2>1, <2>2 DEF DeathsInv, AimsForget, Up, Kinds
    <2>7. SeenIsTold'
      BY <2>1, <2>2 DEF DeathsInv, SeenIsTold, Up, Kinds
    <2> QED
      BY <2>3, <2>4, <2>5, <2>6, <2>7 DEF DeathsInv
  <1> QED
    BY <1>1, <1>2

LEMMA DeathPollInv ==
  ASSUME DeathsInv, RestartPoll \/ BreakPoll \/ AimSet
  PROVE  DeathsInv'
  <1>1. CASE RestartPoll
    <2>1. UNCHANGED <<told, clip, obs, shelf>> /\ body.anew
          /\ body' = [body EXCEPT !.anew = FALSE]
          /\ before' = [before EXCEPT !.knows = FALSE, !.was = Up]
          /\ recovery' = FALSE /\ aim' = body.spells
      BY <1>1 DEF RestartPoll
    <2>2. DeathsTypeOK'
      BY <2>1 DEF DeathsInv, DeathsTypeOK, Up
    <2>3. body'.is = body.is /\ body'.spells = body.spells /\ ~before'.knows
          /\ before'.was = Up /\ ~body'.anew
      BY <2>1 DEF DeathsInv, DeathsTypeOK
    <2>4. ToldIsKnown'
      BY <2>1, <2>3 DEF DeathsInv, ToldIsKnown
    <2>5. ClipIsOfSpell'
      BY <2>1 DEF DeathsInv, ClipIsOfSpell
    <2>6. AimsForget'
      BY <2>1, <2>3 DEF DeathsInv, AimsForget
    <2>7. SeenIsTold'
      BY <2>1, <2>3 DEF DeathsInv, SeenIsTold
    <2> QED
      BY <2>2, <2>4, <2>5, <2>6, <2>7 DEF DeathsInv
  <1>2. CASE BreakPoll
    <2> DEFINE more == told.missed \cup Spell(News # {} \/ (body.is # Up /\ ~before.knows))
    <2>1. UNCHANGED <<body, recovery, aim, clip, obs, shelf>> /\ ~body.anew
          /\ before' = [Observed EXCEPT !.rests = TRUE]
          /\ told' = [told EXCEPT !.missed = more]
      BY <1>2 DEF BreakPoll
    <2>3. before'.knows /\ before'.rests /\ before'.was = body.is
      BY <2>1 DEF DeathsInv, DeathsTypeOK, Observed
    <2>8. more \in SUBSET Nat /\ told.missed \subseteq more
      BY DEF DeathsInv, DeathsTypeOK, Spell
    <2>9. body.is # Up => body.spells \in told.spells \cup more
      BY DEF DeathsInv, SeenIsTold, Spell, News
    <2> HIDE DEF more
    <2>10. /\ told'.now = told.now /\ told'.spells = told.spells
           /\ told'.seen = told.seen /\ told'.missed = more
           /\ told' \in [now : [Kinds -> Nat], spells : SUBSET Nat, missed : SUBSET Nat, seen : Nat]
      BY <2>1, <2>8 DEF DeathsInv, DeathsTypeOK
    <2>2. DeathsTypeOK'
      BY <2>1, <2>10 DEF DeathsInv, DeathsTypeOK, Observed
    <2>4. ToldIsKnown'
      BY <2>1, <2>3, <2>10 DEF DeathsInv, ToldIsKnown
    <2>5. ClipIsOfSpell'
      BY <2>1, <2>10 DEF DeathsInv, ClipIsOfSpell
    <2>6. AimsForget'
      BY <2>1, <2>3, <2>10 DEF DeathsInv, AimsForget
    <2>7. SeenIsTold'
      BY <2>1, <2>3, <2>8, <2>9, <2>10 DEF DeathsInv, SeenIsTold
    <2> QED
      BY <2>2, <2>4, <2>5, <2>6, <2>7 DEF DeathsInv
  <1>3. CASE AimSet
    <2>1. UNCHANGED <<body, before, recovery, told, clip, obs, shelf>>
          /\ before.was = Up
          /\ aim' = IF body.is = Up THEN body.spells ELSE body.spells - 1
      BY <1>3 DEF AimSet
    <2>2. body.spells \in Nat /\ told.seen \in Nat
          /\ (body.is # Up => told.seen < body.spells) /\ told.seen <= body.spells
      BY <2>1 DEF DeathsInv, DeathsTypeOK, AimsForget
    <2>3. aim' \in Nat /\ aim' >= told.seen
      BY <2>1, <2>2
    <2>4. DeathsTypeOK' /\ ToldIsKnown' /\ SeenIsTold' /\ ClipIsOfSpell'
      BY <2>1, <2>3 DEF DeathsInv, DeathsTypeOK, ToldIsKnown, SeenIsTold, ClipIsOfSpell
    <2>5. AimsForget'
      BY <2>1, <2>3 DEF DeathsInv, AimsForget
    <2> QED
      BY <2>4, <2>5 DEF DeathsInv
  <1> QED
    BY <1>1, <1>2, <1>3

\* A poll tells what is new, starts its clip, and forgets after a respawn.
LEMMA ReflexPollInv ==
  ASSUME DeathsInv, ReflexPoll
  PROVE  DeathsInv'
  <1> DEFINE now == [k \in Kinds |-> told.now[k] + (IF k \in News THEN 1 ELSE 0)]
             spells == told.spells \cup Spell(News # {})
             missed == told.missed \cup Spell(body.is # Up /\ ~before.knows)
             latest == IF body.is = Up THEN told.seen ELSE body.spells
  <1>1. /\ UNCHANGED <<body, obs, shelf>> /\ ~body.anew
        /\ before' = [Observed EXCEPT !.rests = FALSE]
        /\ told' = [now |-> now, spells |-> spells, missed |-> missed, seen |-> latest]
        /\ clip' = ClipStarts /\ recovery' = (body.is # Up)
        /\ aim' = IF Respawned THEN body.spells ELSE aim
    BY DEF ReflexPoll
  <1>2. DeathsTypeOK
    BY DEF DeathsInv
  <1>3. /\ before' \in [knows : BOOLEAN, was : SUBSET Kinds, rests : BOOLEAN]
        /\ before'.knows /\ ~before'.rests /\ before'.was = body.is
    BY <1>1, <1>2 DEF DeathsTypeOK, Observed
  <1>4. now \in [Kinds -> Nat] /\ spells \in SUBSET Nat /\ latest \in Nat
        /\ told.spells \subseteq spells /\ (News # {} => body.spells \in spells)
        /\ missed \in SUBSET Nat /\ told.missed \subseteq missed
    BY <1>2 DEF DeathsTypeOK, Spell
  <1>5. told'.now = now /\ told'.spells = spells /\ told'.missed = missed /\ told'.seen = latest
    BY <1>1
  <1>13. body.is # Up => body.spells \in spells \cup missed
    BY DEF DeathsInv, SeenIsTold, Spell, News
  <1>6. /\ clip' \in [at : ClipPhases, for : Nat, file : Nat, late : BOOLEAN]
        /\ \/ clip' = clip
           \/ clip'.at = "slow" /\ clip'.for = body.spells /\ News # {}
        /\ clip'.late = clip.late
    BY <1>1, <1>2 DEF ClipStarts, DeathsTypeOK, ClipPhases
  <1>7. News \subseteq body.is /\ \A k \in News : before.knows /\ k \notin before.was
    BY DEF News
  <1>8. ToldIsKnown'
    <2>1. ASSUME NEW k \in Kinds PROVE now[k] <= 1
      <3>1. told.now[k] \in Nat /\ told.now[k] <= 1
        BY <1>2 DEF DeathsInv, DeathsTypeOK, ToldIsKnown
      <3>2. k \in News => ~ (told.now[k] > 0)
        BY <1>7 DEF DeathsInv, ToldIsKnown
      <3> QED
        BY <3>1, <3>2
    <2>2. body.is = {"busted"} => now["death"] = 0
      <3>1. "death" \in Kinds
        BY DEF Kinds
      <3> QED
        BY <1>2, <1>7, <3>1 DEF DeathsInv, ToldIsKnown, DeathsTypeOK
    <2> HIDE DEF now
    <2> QED
      BY <1>1, <1>3, <1>5, <2>1, <2>2 DEF ToldIsKnown
  <1> HIDE DEF now, spells, missed
  <1>14. SeenIsTold'
    BY <1>1, <1>3, <1>4, <1>5, <1>13 DEF DeathsInv, SeenIsTold
  <1>9. ClipIsOfSpell'
    BY <1>1, <1>4, <1>5, <1>6 DEF DeathsInv, ClipIsOfSpell
  <1>10. aim' \in Nat /\ (body.is = Up => aim' >= latest)
    <2>1. body.is = Up => ~recovery \/ Respawned
      BY DEF Respawned
    <2> QED
      BY <1>1, <1>2, <2>1 DEF DeathsInv, DeathsTypeOK, AimsForget
  <1>11. DeathsTypeOK'
    BY <1>1, <1>2, <1>3, <1>4, <1>6, <1>10 DEF DeathsTypeOK
  <1>12. AimsForget'
    BY <1>1, <1>2, <1>3, <1>5, <1>10 DEF DeathsInv, DeathsTypeOK, AimsForget
  <1> QED
    BY <1>8, <1>9, <1>11, <1>12, <1>14 DEF DeathsInv

\* The clip's thread, OBS and the store.
LEMMA ClipInv ==
  ASSUME DeathsInv,
         Cleared \/ ReplayAsked \/ Announced \/ SavedSeen \/ Uploads \/ Inserts \/ Fails
  PROVE  DeathsInv'
  <1>1. UNCHANGED <<body, before, recovery, aim, told>>
    BY DEF Cleared, ReplayAsked, Announced, SavedSeen, Uploads, Inserts, Fails, ClipOnly
  <1>2. ToldIsKnown' /\ SeenIsTold' /\ AimsForget'
    BY <1>1 DEF DeathsInv, ToldIsKnown, SeenIsTold, AimsForget
  <1>3. DeathsTypeOK /\ ClipIsOfSpell
    BY DEF DeathsInv
  <1>4. /\ clip' \in [at : ClipPhases, for : Nat, file : Nat, late : BOOLEAN]
        /\ obs' \in [asked : SUBSET Nat, path : Nat]
        /\ shelf' \in Shelves
        /\ ClipIsOfSpell'
    <2>1. CASE Cleared
      BY <1>1, <1>3, <2>1 DEF Cleared, DeathsTypeOK, ClipIsOfSpell, ClipPhases, Nothing
    <2>2. CASE ReplayAsked
      BY <1>1, <1>3, <2>2 DEF ReplayAsked, DeathsTypeOK, ClipIsOfSpell, ClipPhases
    <2>3. CASE Announced
      <3>1. PICK r \in obs.asked :
               /\ obs' = [asked |-> obs.asked \ {r}, path |-> r]
               /\ clip' = [clip EXCEPT !.late = @ \/ (clip.at \in {"cleared", "waits"} /\ clip.for # r)]
        BY <2>3 DEF Announced
      <3>2. r \in Nat /\ shelf' = shelf
        BY <1>3, <2>3 DEF DeathsTypeOK, Announced
      <3>3. /\ clip'.at = clip.at /\ clip'.for = clip.for /\ clip'.file = clip.file
            /\ clip'.late = (clip.late \/ (clip.at \in {"cleared", "waits"} /\ clip.for # r))
            /\ clip' \in [at : ClipPhases, for : Nat, file : Nat, late : BOOLEAN]
            /\ obs' \in [asked : SUBSET Nat, path : Nat] /\ obs'.path = r
        BY <1>3, <3>1, <3>2 DEF DeathsTypeOK
      <3>4. ClipIsOfSpell'
        BY <1>1, <1>3, <3>2, <3>3 DEF ClipIsOfSpell
      <3> QED
        BY <1>3, <3>2, <3>3, <3>4 DEF DeathsTypeOK
    <2>4. CASE SavedSeen
      BY <1>1, <1>3, <2>4 DEF SavedSeen, DeathsTypeOK, ClipIsOfSpell, ClipPhases
    <2>5. CASE Uploads
      <3> DEFINE pair == <<clip.for, clip.file>>
      <3>1. /\ clip.at = "uploads" /\ obs' = obs /\ pair \in Nat \X Nat
            /\ clip' \in {ClipOver, [clip EXCEPT !.at = "inserts"]}
            /\ \/ shelf.store /\ shelf' = [shelf EXCEPT !.objects = @ \cup {pair}]
               \/ ~shelf.store /\ shelf' = shelf
        BY <1>3, <2>5 DEF Uploads, DeathsTypeOK
      <3> HIDE DEF pair
      <3>2. /\ shelf'.rows = shelf.rows /\ shelf'.store = shelf.store
            /\ shelf.objects \subseteq shelf'.objects
            /\ shelf.store => pair \in shelf'.objects
            /\ shelf' \in Shelves
        BY <1>3, <3>1 DEF DeathsTypeOK, Shelves
      <3>3. /\ clip' \in [at : ClipPhases, for : Nat, file : Nat, late : BOOLEAN]
            /\ clip'.late = clip.late
            /\ \/ clip'.at = "free"
               \/ clip'.at = "inserts" /\ clip'.for = clip.for /\ clip'.file = clip.file
        <4>1. clip \in [at : ClipPhases, for : Nat, file : Nat, late : BOOLEAN]
          BY <1>3 DEF DeathsTypeOK
        <4>2. CASE clip' = ClipOver
          BY <4>1, <4>2 DEF ClipOver, Nothing, ClipPhases
        <4>3. CASE clip' = [clip EXCEPT !.at = "inserts"]
          BY <4>1, <4>3 DEF ClipPhases
        <4> QED
          BY <3>1, <4>2, <4>3
      <3>4. ClipIsOfSpell'
        BY <1>1, <1>3, <3>1, <3>2, <3>3 DEF ClipIsOfSpell, pair
      <3> QED
        BY <1>3, <3>1, <3>2, <3>3, <3>4 DEF DeathsTypeOK
    <2>6. CASE Inserts
      <3> DEFINE row == ClipRow
      <3>1. /\ clip.at = "inserts" /\ shelf' = [shelf EXCEPT !.rows = @ \cup {row}]
            /\ obs' = obs /\ clip' = ClipOver
            /\ row \in ClipRows /\ row.for = clip.for /\ row.file = clip.file /\ row.late = clip.late
        BY <1>3, <2>6 DEF Inserts, DeathsTypeOK, ClipRow, ClipRows
      <3> HIDE DEF row
      <3>2. /\ row.for \in told.spells /\ (row.late \/ row.file = row.for)
            /\ shelf.store => <<row.for, row.file>> \in shelf.objects
        BY <1>3, <3>1 DEF ClipIsOfSpell
      <3>3. /\ shelf'.objects = shelf.objects /\ shelf'.rows = shelf.rows \cup {row}
            /\ shelf'.store = shelf.store /\ shelf' \in Shelves
        BY <1>3, <3>1 DEF DeathsTypeOK, Shelves
      <3>4. /\ clip' \in [at : ClipPhases, for : Nat, file : Nat, late : BOOLEAN]
            /\ clip'.late = clip.late /\ clip'.at = "free"
        BY <1>3, <3>1 DEF DeathsTypeOK, ClipOver, Nothing, ClipPhases
      <3>5. ClipIsOfSpell'
        BY <1>1, <1>3, <3>1, <3>2, <3>3, <3>4 DEF ClipIsOfSpell
      <3> QED
        BY <1>3, <3>1, <3>3, <3>4, <3>5 DEF DeathsTypeOK
    <2>7. CASE Fails
      BY <1>1, <1>3, <2>7 DEF Fails, ClipOver, DeathsTypeOK, ClipIsOfSpell, ClipPhases, Nothing
    <2> QED
      BY <2>1, <2>2, <2>3, <2>4, <2>5, <2>6, <2>7
  <1> QED
    BY <1>1, <1>2, <1>3, <1>4 DEF DeathsInv, DeathsTypeOK

\* However often he goes down, and whatever breaks, failed polls, new processes and
\* late replays lie in between: a death is never told twice, and every spell a reflex
\* saw him down in was told but those whose first sight tells nothing (on a break,
\* with no snapshot before it, or with one that had him down the same way); a clip's
\* row names a told spell and, where a store is configured, its stored object; and
\* no goal outlives a spell a poll has seen (Perceptor, obs.py, DeathArrestRecovery).
THEOREM DeathsStayTold ==
  DeathsInit /\ [][DeathsNext]_deathVars => []DeathsAreTold
  <1>1. DeathsInit => DeathsInv
    BY DeathsBegin
  <1>2. DeathsInv /\ [DeathsNext]_deathVars => DeathsInv'
    <2>1. DeathsInv /\ DeathsNext => DeathsInv'
      BY BodyInv, DeathPollInv, ReflexPollInv, ClipInv DEF DeathsNext
    <2>2. DeathsInv /\ UNCHANGED deathVars => DeathsInv'
      BY DEF deathVars, DeathsInv, DeathsTypeOK, ToldIsKnown, SeenIsTold, ClipIsOfSpell, AimsForget
    <2> QED
      BY <2>1, <2>2
  <1>3. DeathsInv => DeathsAreTold
    BY DEF DeathsInv, ToldIsKnown, SeenIsTold, ClipIsOfSpell, AimsForget, DeathsAreTold
  <1> QED
    BY <1>1, <1>2, <1>3, PTL

-----------------------------------------------------------------------------
(* Emergencies: what is done to get him out of trouble is done in measure  *)

\* Ever is none of the readings a clock can show: it stands for "never".
LEMMA EverIsNever ==
  /\ Cooldown \in Nat /\ WaterTimeout \in Nat /\ JackGrace \in Nat /\ Ever \in Nat
  /\ Cooldown > 0
  /\ Cooldown + 1 < Ever /\ WaterTimeout + 1 < Ever /\ JackGrace + 1 < Ever
  BY EmergencyAssumption DEF Ever

\* A nudge that was asked for is done, on its way, or was left behind.
Asks == nudges.done + Pending
Before == mark.asked
Nudges == [time : Nat, done : Nat]
Requests == [at : {"none", "sent", "queued"}, late : Nat]
Ladders == [reversed : Nat, tried : Nat, nudged : Nat]
Windows == [time : Nat, asked : Nat]

\* Every nudge asked for since the window opened but the first has paid its
\* cooldown: these asks, and the clock of the last, are covered by the time gone by.
PaidFor == \/ Asks <= Before
        \/ Asks * Cooldown + stuck.tried + mark.time
             <= nudges.time + Cooldown + Before * Cooldown
NudgeInv ==
  /\ nudges \in Nudges /\ ask \in Requests /\ stuck \in Ladders /\ mark \in Windows
  /\ mark.time <= nudges.time
  /\ stuck.tried = Ever => Asks <= Before
  /\ stuck.tried # Ever => stuck.tried <= Cooldown + 1 /\ PaidFor

\* The detector's clock never leads the water's own.
WaterInv ==
  /\ water \in [since : Nat, left : Nat, walked : BOOLEAN,
                wants : {"none", "exit", "walk"}, wet : Nat]
  /\ water.wet <= WaterTimeout + 1
  /\ water.since # Ever => water.since <= water.wet
  /\ water.wants = "exit" => water.wet > WaterTimeout

\* The gate's clock of the last jacking leads the true one by a poll at most.
StrandInv ==
  /\ strand.jacked \in Nat /\ strand.since \in Nat
  /\ \/ strand.jacked = Ever /\ strand.since = Ever
     \/ /\ strand.jacked <= JackGrace + 1 /\ strand.since <= JackGrace + 1
        /\ strand.jacked <= strand.since + 1
  /\ strand.wants => strand.since >= JackGrace

\* A clock runs, and stands once it is past its top.
LEMMA AgedIs ==
    ASSUME NEW n \in Nat, NEW top \in Nat
    PROVE  /\ Aged(n, top) \in Nat
           /\ n = Ever => Aged(n, top) = Ever
           /\ n # Ever /\ n > top => Aged(n, top) = n
           /\ n # Ever /\ n <= top => Aged(n, top) = n + 1
  BY DEF Aged

\* One nudge more costs one cooldown more.
LEMMA OneMore ==
    ASSUME NEW n \in Nat, NEW k \in Nat
    PROVE  n * k \in Nat /\ (n + 1) * k = n * k + k
  OBVIOUS

LEMMA WaterInitInv == WaterInit => WaterInv
  BY EverIsNever DEF WaterInit, Afloat, WaterInv

LEMMA InWaterInv ==
    ASSUME WaterInv, NEW w, w = InTheWater,
           water' = [w EXCEPT !.since = Aged(w.since, WaterTimeout), !.left = Aged(w.left, EscapeWindow),
                              !.wet = Aged(w.wet, WaterTimeout)]
    PROVE  WaterInv'
  <1>1. EscapeWindow \in Nat
    BY EmergencyAssumption
  <1>2. CASE water.since # Ever /\ water.since >= WaterTimeout
    <2>1. w = [water EXCEPT !.left = 0, !.walked = FALSE, !.wants = "exit"]
      BY <1>2 DEF InTheWater
    <2>2. /\ w.since = water.since /\ w.wet = water.wet /\ w.left = 0 /\ w.walked = FALSE
          /\ w.wants = "exit"
          /\ w \in [since : Nat, left : Nat, walked : BOOLEAN,
                    wants : {"none", "exit", "walk"}, wet : Nat]
      <3>1. water \in [since : Nat, left : Nat, walked : BOOLEAN,
                    wants : {"none", "exit", "walk"}, wet : Nat]
        BY DEF WaterInv
      <3>2. w.since = water.since /\ w.wet = water.wet /\ w.left = 0 /\ w.wants = "exit"
        BY <2>1, <3>1
      <3>3. w.walked = FALSE
        BY <2>1, <3>1, Zenon
      <3>4. w \in [since : Nat, left : Nat, walked : BOOLEAN,
                    wants : {"none", "exit", "walk"}, wet : Nat]
        <4>1. w = [since |-> water.since, left |-> 0, walked |-> FALSE, wants |-> "exit",
                   wet |-> water.wet]
          BY <2>1, <3>1
        <4>2. water.since \in Nat /\ water.wet \in Nat /\ 0 \in Nat /\ FALSE \in BOOLEAN
          BY <3>1
        <4> QED
          BY <4>1, <4>2
      <3> QED
        BY <3>2, <3>3, <3>4
    <2>3. /\ water'.since = Aged(water.since, WaterTimeout) /\ water'.wet = Aged(water.wet, WaterTimeout)
          /\ water'.left = Aged(0, EscapeWindow) /\ water'.walked = FALSE
          /\ water'.wants = "exit"
          /\ water' \in [since : Nat, left : Nat, walked : BOOLEAN,
                    wants : {"none", "exit", "walk"}, wet : Nat]
      BY <1>1, <2>2, EverIsNever, AgedIs
    <2>4. water.since \in Nat /\ water.wet \in Nat /\ water.since <= water.wet /\ water.wet <= WaterTimeout + 1
      BY <1>2 DEF WaterInv
    <2>5. water'.wet > WaterTimeout /\ water'.wet <= WaterTimeout + 1 /\ water'.since <= water'.wet
      BY <1>2, <2>3, <2>4, EverIsNever, AgedIs
    <2> QED
      BY <2>3, <2>5 DEF WaterInv
  <1>3. CASE ~(water.since # Ever /\ water.since >= WaterTimeout)
    <2> DEFINE s == IF water.since = Ever THEN 0 ELSE water.since
    <2>1. w = [water EXCEPT !.since = s, !.wants = "none"]
      BY <1>3 DEF InTheWater, WaterInv
    <2>2. s \in Nat /\ s # Ever /\ s <= water.wet /\ water.wet \in Nat /\ water.wet <= WaterTimeout + 1
      BY EverIsNever DEF WaterInv
    <2> HIDE DEF s
    <2>3. /\ w.since = s /\ w.wet = water.wet /\ w.left = water.left /\ w.walked = water.walked
          /\ w.wants = "none"
          /\ w \in [since : Nat, left : Nat, walked : BOOLEAN,
                    wants : {"none", "exit", "walk"}, wet : Nat]
      BY <2>1, <2>2 DEF WaterInv
    <2>4. /\ water'.since = Aged(s, WaterTimeout) /\ water'.wet = Aged(water.wet, WaterTimeout)
          /\ water'.walked = water.walked
          /\ water'.wants = "none"
          /\ water' \in [since : Nat, left : Nat, walked : BOOLEAN,
                    wants : {"none", "exit", "walk"}, wet : Nat]
      BY <1>1, <2>3, EverIsNever, AgedIs
    <2>5. water'.wet <= WaterTimeout + 1 /\ water'.since <= water'.wet
      BY <2>2, <2>4, EverIsNever, AgedIs
    <2> QED
      BY <2>4, <2>5 DEF WaterInv
  <1> QED
    BY <1>2, <1>3

LEMMA OutOfWaterInv ==
    ASSUME WaterInv, NEW rides \in BOOLEAN, NEW land \in BOOLEAN,
           NEW w, w = OutOfTheWater(rides, land),
           water' = [w EXCEPT !.since = Aged(w.since, WaterTimeout), !.left = Aged(w.left, EscapeWindow),
                              !.wet = 0]
    PROVE  WaterInv'
  <1> DEFINE dry == [water EXCEPT !.since = DryClock, !.wants = "none"]
             Waters == [since : Nat, left : Nat, walked : BOOLEAN,
                    wants : {"none", "exit", "walk"}, wet : Nat]
  <1>1. EscapeWindow \in Nat
    BY EmergencyAssumption
  <1>2. dry \in Waters /\ dry.since = Ever /\ dry.walked = water.walked
        /\ dry.wants = "none"
    BY EverIsNever DEF WaterInv, DryClock
  <1>3. \/ w = dry
        \/ w = [dry EXCEPT !.left = Ever]
        \/ /\ ~water.walked
           /\ w = [dry EXCEPT !.walked = TRUE, !.wants = IF land THEN "walk" ELSE "none"]
    <2>1. CASE water.left = Ever
      BY <2>1 DEF OutOfTheWater
    <2>2. CASE water.left # Ever /\ water.left > EscapeWindow
      BY <2>2 DEF OutOfTheWater
    <2>3. CASE water.left # Ever /\ water.left <= EscapeWindow /\ (water.walked \/ rides)
      BY <1>1, <2>3 DEF OutOfTheWater, WaterInv
    <2>4. CASE water.left # Ever /\ water.left <= EscapeWindow /\ ~(water.walked \/ rides)
      BY <1>1, <2>4 DEF OutOfTheWater, WaterInv
    <2> QED
      BY <1>1, <2>1, <2>2, <2>3, <2>4 DEF WaterInv
  <1> HIDE DEF dry
  <1>4. w \in Waters /\ w.since = Ever /\ w.wants # "exit"
    <2>1. CASE w = dry
      BY <1>2, <2>1 DEF WaterInv
    <2>2. CASE w = [dry EXCEPT !.left = Ever]
      BY <1>2, <2>2, EverIsNever DEF WaterInv
    <2>3. CASE /\ ~water.walked
               /\ w = [dry EXCEPT !.walked = TRUE, !.wants = IF land THEN "walk" ELSE "none"]
      <3> DEFINE s == dry.since
                 l == dry.left
                 e == dry.wet
                 g == IF land THEN "walk" ELSE "none"
      <3>4. w = [dry EXCEPT !.walked = TRUE, !.wants = g]
        BY <2>3
      <3>5. w = [since |-> s, left |-> l, walked |-> TRUE, wants |-> g, wet |-> e]
        <4> HIDE DEF g
        <4> QED
          BY <1>2, <3>4
      <3>6. /\ s \in Nat /\ l \in Nat /\ e \in Nat
            /\ g \in {"none", "walk"} /\ s = Ever /\ TRUE \in BOOLEAN
        BY <1>2
      <3> HIDE DEF s, l, e, g
      <3>7. w \in Waters /\ w.since = Ever /\ w.wants \in {"none", "walk"}
        BY <3>5, <3>6
      <3> QED
        BY <3>7
    <2> QED
      BY <1>3, <2>1, <2>2, <2>3
  <1>5. /\ water' \in Waters /\ water'.since = Aged(Ever, WaterTimeout) /\ water'.wet = 0
        /\ water'.wants = w.wants /\ water'.walked = w.walked
    BY <1>1, <1>4, EverIsNever, AgedIs
  <1> QED
    BY <1>4, <1>5, EverIsNever, AgedIs DEF WaterInv

LEMMA WaterStepInv == WaterInv /\ [WaterNext]_waterVars => WaterInv'
  <1>1. ASSUME WaterInv, WaterPoll PROVE WaterInv'
    <2>1. PICK wet \in BOOLEAN, rides \in BOOLEAN, land \in BOOLEAN :
            LET w == IF wet THEN InTheWater ELSE OutOfTheWater(rides, land) IN
            water' = [w EXCEPT !.since = Aged(w.since, WaterTimeout), !.left = Aged(w.left, EscapeWindow),
                               !.wet = IF wet THEN Aged(w.wet, WaterTimeout) ELSE 0]
      BY <1>1 DEF WaterPoll
    <2>2. CASE wet
      <3> DEFINE w == InTheWater
      <3>1. water' = [w EXCEPT !.since = Aged(w.since, WaterTimeout), !.left = Aged(w.left, EscapeWindow),
                               !.wet = Aged(w.wet, WaterTimeout)]
        BY <2>1, <2>2
      <3>2. w = InTheWater
        OBVIOUS
      <3> HIDE DEF w
      <3> QED
        BY <1>1, <3>1, <3>2, InWaterInv
    <2>3. CASE ~wet
      <3> DEFINE w == OutOfTheWater(rides, land)
      <3>1. water' = [w EXCEPT !.since = Aged(w.since, WaterTimeout), !.left = Aged(w.left, EscapeWindow),
                               !.wet = 0]
        BY <2>1, <2>3
      <3>2. w = OutOfTheWater(rides, land)
        OBVIOUS
      <3> HIDE DEF w
      <3> QED
        BY <1>1, <3>1, <3>2, OutOfWaterInv
    <2> QED
      BY <2>2, <2>3
  <1>2. ASSUME water' = Afloat PROVE WaterInv'
    BY <1>2, EverIsNever DEF Afloat, WaterInv
  <1>3. ASSUME WaterInv, UNCHANGED waterVars PROVE WaterInv'
    BY <1>3 DEF waterVars, WaterInv
  <1> QED
    BY <1>1, <1>2, <1>3 DEF WaterNext

LEMMA StrandStepInv == StrandInv /\ [StrandNext]_strandVars => StrandInv'
  <1>1. ASSUME StrandInv, StrandPoll PROVE StrandInv'
    <2>1. PICK now \in BOOLEAN :
            /\ strand'.jacked = Aged(JackedAt(now), JackGrace)
            /\ strand'.since = IF now THEN 0 ELSE Aged(strand.since, JackGrace)
            /\ strand'.wants => ~RecentlyJacked(now)
      <3>1. PICK now \in BOOLEAN, rides \in BOOLEAN, busy \in BOOLEAN, others \in BOOLEAN, runs \in BOOLEAN :
              LET fed == Fed(now, busy)
                  stands == others \/ RecentlyJacked(fed) \/ SearchOver(rides)
                  goes == ~busy /\ ~stands /\ SearchDue
                  s == IF busy THEN strand.search
                       ELSE IF stands THEN NoSearch
                       ELSE IF goes THEN [attempts |-> strand.search.attempts + 1, last |-> 0]
                       ELSE strand.search IN
              strand' = [search |-> [s EXCEPT !.last = Aged(s.last, RetryGap)],
                         jacked |-> Aged(JackedAt(fed), JackGrace), wants |-> goes, runs |-> runs,
                         since |-> IF now THEN 0 ELSE Aged(strand.since, JackGrace)]
        BY <1>1 DEF StrandPoll
      <3>4. Fed(now, busy) = now
        BY DEF Fed
      <3>2. /\ strand'.jacked = Aged(JackedAt(now), JackGrace)
            /\ strand'.since = IF now THEN 0 ELSE Aged(strand.since, JackGrace)
        BY <3>1, <3>4
      <3>3. strand'.wants = (~busy /\ ~(others \/ RecentlyJacked(now) \/ SearchOver(rides)) /\ SearchDue)
        BY <3>1, <3>4
      <3> QED
        BY <3>2, <3>3
    <2>2. strand.jacked \in Nat /\ strand.since \in Nat
      BY <1>1 DEF StrandInv
    <2>3. CASE now
      <3>1. JackedAt(now) = 0
        BY <2>3 DEF JackedAt
      <3>4. Aged(0, JackGrace) = 1
        <4>1. 0 \in Nat /\ JackGrace \in Nat /\ 0 # Ever /\ 0 <= JackGrace
          BY EverIsNever
        <4> QED
          BY <4>1, AgedIs
      <3>2. strand'.jacked = 1 /\ strand'.since = 0
        BY <2>1, <2>3, <3>1, <3>4
      <3>3. strand'.wants => 0 >= JackGrace
        BY <2>1, <3>1, EverIsNever DEF RecentlyJacked
      <3> QED
        BY <3>2, <3>3, EverIsNever DEF StrandInv
    <2>4. CASE ~now
      <3>1. JackedAt(now) = strand.jacked
        BY <2>4 DEF JackedAt
      <3> DEFINE j == Aged(strand.jacked, JackGrace)
                 i == Aged(strand.since, JackGrace)
      <3>5. j \in Nat /\ i \in Nat
        BY <2>2, EverIsNever, AgedIs
      <3>2. strand'.jacked = j /\ strand'.since = i /\ j \in Nat /\ i \in Nat
        BY <2>1, <2>4, <3>1, <3>5
      <3>3. CASE strand.jacked = Ever /\ strand.since = Ever
        <4>1. j = Ever /\ i = Ever
          BY <2>2, <3>3, EverIsNever, AgedIs
        <4> QED
          BY <3>2, <4>1, EverIsNever DEF StrandInv
      <3>4. CASE /\ strand.jacked <= JackGrace + 1 /\ strand.since <= JackGrace + 1
                 /\ strand.jacked <= strand.since + 1
        <4>1. strand.jacked # Ever /\ strand.since # Ever
          BY <2>2, <3>4, EverIsNever
        <4>2. /\ strand.jacked > JackGrace => j = strand.jacked
              /\ strand.jacked <= JackGrace => j = strand.jacked + 1
              /\ strand.since > JackGrace => i = strand.since
              /\ strand.since <= JackGrace => i = strand.since + 1
          BY <2>2, <4>1, EverIsNever, AgedIs
        <4>3. j <= JackGrace + 1 /\ i <= JackGrace + 1 /\ j <= i + 1
          BY <2>2, <3>2, <3>4, <4>2, EverIsNever
        <4>4. strand'.wants => i >= JackGrace
          <5>1. strand'.wants => strand.jacked >= JackGrace
            BY <2>1, <2>2, <3>1, EverIsNever DEF RecentlyJacked
          <5> QED
            BY <2>2, <3>2, <3>4, <4>2, <5>1, EverIsNever
        <4> QED
          BY <3>2, <4>3, <4>4 DEF StrandInv
      <3> QED
        BY <1>1, <3>3, <3>4 DEF StrandInv
    <2> QED
      BY <2>3, <2>4
  <1>2. ASSUME strand' = Settled PROVE StrandInv'
    BY <1>2, EverIsNever DEF Settled, StrandInv
  <1>3. ASSUME StrandInv, UNCHANGED strandVars PROVE StrandInv'
    BY <1>3 DEF strandVars, StrandInv
  <1> QED
    BY <1>1, <1>2, <1>3 DEF StrandNext

\* Every step of the nudge, by what it does to the asks, the clock and the time.
LEMMA NudgeInitInv == NudgeInit => NudgeInv
  <1>1. ASSUME NudgeInit PROVE NudgeInv
    <2>1. /\ stuck = [reversed |-> Ever, tried |-> Ever, nudged |-> 0]
          /\ ask = [at |-> "none", late |-> 0] /\ nudges = [time |-> 0, done |-> 0]
          /\ mark = [time |-> 0, asked |-> 0]
      BY <1>1 DEF NudgeInit, NoLadder
    <2>2. Asks = 0 /\ Before = 0 /\ stuck.tried = Ever
      BY <2>1 DEF Asks, Before, Pending
    <2>3. nudges \in Nudges /\ ask \in Requests /\ stuck \in Ladders /\ mark \in Windows
      BY <2>1, EverIsNever DEF Nudges, Requests, Ladders, Windows
    <2> QED
      BY <2>1, <2>2, <2>3 DEF NudgeInv
  <1> QED
    BY <1>1

LEMMA AsksCount ==
    ASSUME nudges \in Nudges, ask \in Requests
    PROVE  /\ Asks \in Nat /\ Pending \in Nat /\ nudges.done \in Nat /\ nudges.time \in Nat
           /\ ask.late \in Nat /\ nudges.done <= Asks
           /\ ask.at \in {"sent", "queued"} => Asks = nudges.done + 1 + ask.late
           /\ ask.at = "none" => Asks = nudges.done + ask.late
  BY DEF Asks, Pending, Nudges, Requests

\* A window that opens has nothing to pay for yet.
LEMMA WindowInv ==
    ASSUME NudgeInv, WindowOpens
    PROVE  NudgeInv'
  <1>1. /\ nudges' = nudges /\ ask' = ask /\ stuck' = stuck
        /\ nudges \in Nudges /\ ask \in Requests /\ stuck \in Ladders
        /\ mark' = [time |-> nudges.time, asked |-> Asks]
    BY DEF WindowOpens, NudgeInv, Asks
  <1>2. Asks \in Nat /\ nudges.time \in Nat
    BY <1>1, AsksCount
  <1>3. mark' \in Windows /\ mark'.time = nudges.time /\ mark'.asked = Asks
    BY <1>1, <1>2 DEF Windows
  <1>4. Asks' = Asks /\ Before' = Asks /\ Asks \in Nat
    BY <1>1, <1>3, AsksCount DEF Asks, Before, Pending
  <1>5. stuck'.tried # Ever => stuck'.tried <= Cooldown + 1
    BY <1>1 DEF NudgeInv
  <1> QED
    BY <1>1, <1>2, <1>3, <1>4, <1>5 DEF NudgeInv, PaidFor

\* Asks that do not grow leave the measure kept.
LEMMA NoMoreAsks ==
    ASSUME NudgeInv, mark' = mark, Asks \in Nat, Asks' \in Nat, Asks' <= Asks,
           stuck'.tried = stuck.tried, nudges'.time = nudges.time,
           nudges' \in Nudges, ask' \in Requests, stuck' \in Ladders
    PROVE  NudgeInv'
  <1> DEFINE a == Asks
             b == Asks'
             m == Before
  <1>1. a \in Nat /\ b \in Nat /\ b <= a /\ m \in Nat /\ Before' = m
    BY DEF NudgeInv, Windows, Before
  <1>2. mark' \in Windows /\ mark'.time <= nudges'.time
    BY DEF NudgeInv
  <1>3. CASE stuck.tried = Ever
    <2>1. a <= m
      BY <1>3 DEF NudgeInv
    <2> HIDE DEF a, b, m
    <2>2. b <= m
      BY <1>1, <2>1
    <2> QED
      BY <1>1, <1>2, <1>3, <2>2 DEF NudgeInv, b
  <1>4. CASE stuck.tried # Ever
    <2> DEFINE t == stuck.tried + mark.time
               T == nudges.time + Cooldown + m * Cooldown
    <2>1. stuck.tried <= Cooldown + 1 /\ (a <= m \/ a * Cooldown + t <= T)
      <3>1. a * Cooldown \in Nat /\ stuck.tried \in Nat /\ mark.time \in Nat
        BY <1>1, EverIsNever, OneMore DEF NudgeInv, Ladders, Windows
      <3>2. a * Cooldown + t = a * Cooldown + stuck.tried + mark.time
        BY <3>1
      <3> QED
        BY <1>4, <3>2 DEF NudgeInv, PaidFor
    <2>2. t \in Nat /\ T \in Nat /\ b * Cooldown \in Nat /\ a * Cooldown \in Nat
      <3>1. stuck.tried \in Nat /\ mark.time \in Nat /\ nudges.time \in Nat /\ Cooldown \in Nat
        BY EverIsNever DEF NudgeInv, Ladders, Windows, Nudges
      <3> HIDE DEF a, b, m
      <3>2. b * Cooldown \in Nat /\ a * Cooldown \in Nat /\ m * Cooldown \in Nat
        BY <1>1, <3>1, OneMore
      <3> QED
        BY <3>1, <3>2
    <2>3. b * Cooldown <= a * Cooldown
      <3>1. Cooldown \in Nat
        BY EverIsNever
      <3> HIDE DEF a, b
      <3> QED
        BY <1>1, <3>1
    <2> HIDE DEF a, b, m, t, T
    <2>4. b <= m \/ b * Cooldown + t <= T
      BY <1>1, <2>1, <2>2, <2>3
    <2>5. PaidFor'
      <3>1. b * Cooldown + t = b * Cooldown + stuck.tried + mark.time
        BY <2>2, EverIsNever DEF NudgeInv, Ladders, Windows, t
      <3> QED
        BY <1>1, <2>4, <3>1 DEF PaidFor, b, T
    <2> QED
      BY <1>2, <1>4, <2>1, <2>5 DEF NudgeInv
  <1> QED
    BY <1>3, <1>4

LEMMA StuckPollInv ==
    ASSUME NudgeInv, StuckPoll
    PROVE  NudgeInv'
  <1>1. nudges' = nudges /\ mark' = mark /\ Asks \in Nat /\ stuck \in Ladders /\ ask.at = "none"
        /\ ask \in Requests /\ nudges \in Nudges /\ mark \in Windows /\ Asks = nudges.done + ask.late
        /\ mark.time <= nudges.time
    BY AsksCount DEF StuckPoll, NudgeInv
  <1>2. CASE ask' = ask /\ stuck' \in {[stuck EXCEPT !.reversed = Ever, !.nudged = 0],
                                       [stuck EXCEPT !.reversed = 0]}
    <2>1. stuck' \in Ladders /\ stuck'.tried = stuck.tried
      <3>1. CASE stuck' = [stuck EXCEPT !.reversed = Ever, !.nudged = 0]
        BY <1>1, <3>1, EverIsNever DEF Ladders
      <3>2. CASE stuck' = [stuck EXCEPT !.reversed = 0]
        BY <1>1, <3>2 DEF Ladders
      <3> QED
        BY <1>2, <3>1, <3>2
    <2>2. Asks' = Asks
      BY <1>1, <1>2 DEF Asks, Pending
    <2> QED
      BY <1>1, <1>2, <2>1, <2>2, NoMoreAsks
  <1>3. CASE NudgeDue /\ stuck' = Asked /\ ask' = [ask EXCEPT !.at = "sent"]
    <2> DEFINE a == Asks
               m == Before
               T == nudges.time
               O == mark.time
    <2>1. stuck' \in Ladders /\ stuck'.tried = 0
      <3>1. stuck.nudged + 1 \in Nat
        BY <1>1 DEF Ladders
      <3> QED
        BY <1>1, <1>3, <3>1 DEF Asked, Ladders
    <2>2. ask' \in Requests /\ ask'.at = "sent" /\ ask'.late = ask.late
      BY <1>1, <1>3 DEF Requests
    <2>3. Asks' = a + 1 /\ Before' = m
      BY <1>1, <2>2, AsksCount DEF Asks, Before, Pending
    <2>4. /\ a \in Nat /\ m \in Nat /\ T \in Nat /\ O \in Nat /\ O <= T
          /\ a * Cooldown \in Nat /\ m * Cooldown \in Nat
      BY <1>1, EverIsNever, OneMore DEF Nudges, Windows, Before
    <2>5. a <= m \/ a * Cooldown + O <= T + m * Cooldown
      <3>1. stuck.tried \in Nat /\ stuck.tried >= Cooldown
        BY <1>1, <1>3 DEF NudgeDue, Ladders
      <3>2. CASE stuck.tried = Ever
        BY <3>2 DEF NudgeInv
      <3>3. CASE stuck.tried # Ever
        <4>1. a <= m \/ a * Cooldown + stuck.tried + O <= T + Cooldown + m * Cooldown
          BY <3>3 DEF NudgeInv, PaidFor
        <4> HIDE DEF a, m, T, O
        <4> QED
          BY <2>4, <3>1, <4>1, EverIsNever
      <3> QED
        BY <3>2, <3>3
    <2> HIDE DEF a, m, T, O
    <2>6. a + 1 <= m \/ (a + 1) * Cooldown + 0 + O <= T + Cooldown + m * Cooldown
      <3>1. (a + 1) * Cooldown = a * Cooldown + Cooldown
        BY <2>4, EverIsNever, OneMore
      <3>2. CASE a + 1 <= m
        BY <3>2
      <3>3. CASE a = m
        BY <2>4, <3>1, <3>3, EverIsNever
      <3>4. CASE a > m
        BY <2>4, <2>5, <3>1, <3>4, EverIsNever
      <3> QED
        BY <2>4, <3>2, <3>3, <3>4
    <2>7. PaidFor'
      BY <1>1, <2>1, <2>3, <2>6 DEF PaidFor, T, O
    <2>8. stuck'.tried # Ever /\ stuck'.tried <= Cooldown + 1
      BY <2>1, EverIsNever
    <2> QED
      BY <1>1, <2>1, <2>2, <2>7, <2>8 DEF NudgeInv
  <1> QED
    BY <1>2, <1>3 DEF StuckPoll

LEMMA RoutedInv ==
    ASSUME NudgeInv, Routed \/ LeftBehind \/ NudgeApplied
    PROVE  NudgeInv'
  <1>1. /\ stuck' = stuck /\ stuck \in Ladders /\ mark' = mark
        /\ nudges \in Nudges /\ ask \in Requests /\ Asks \in Nat
    BY AsksCount DEF Routed, LeftBehind, NudgeApplied, NudgeInv
  <1>2. nudges' \in Nudges /\ ask' \in Requests /\ nudges'.time = nudges.time /\ Asks' \in Nat /\ Asks' <= Asks
    <2>1. CASE Routed
      <3>1. ask' \in Requests /\ ask'.late = ask.late /\ nudges' = nudges /\ ask.at = "sent"
        BY <1>1, <2>1 DEF Routed, Requests
      <3> QED
        BY <1>1, <3>1 DEF Asks, Pending, Nudges, Requests
    <2>2. CASE LeftBehind
      <3>1. /\ ask' \in Requests /\ ask'.late = ask.late + 1 /\ nudges' = nudges /\ ask.at = "queued"
            /\ ask'.at = "none"
        BY <1>1, <2>2 DEF LeftBehind, Requests
      <3> QED
        BY <1>1, <3>1 DEF Asks, Pending, Nudges, Requests
    <2>3. CASE NudgeApplied
      <3>1. nudges' \in Nudges /\ nudges'.time = nudges.time /\ nudges'.done \in {nudges.done, nudges.done + 1}
        <4>1. nudges' = nudges \/ nudges' = [nudges EXCEPT !.done = @ + 1]
          BY <2>3 DEF NudgeApplied
        <4>2. nudges.done + 1 \in Nat
          BY <1>1 DEF Nudges
        <4>3. CASE nudges' = nudges
          BY <1>1, <4>3
        <4>4. CASE nudges' = [nudges EXCEPT !.done = @ + 1]
          BY <1>1, <4>2, <4>4 DEF Nudges
        <4> QED
          BY <4>1, <4>3, <4>4
      <3>2. CASE ask.at = "queued" /\ ask' = [ask EXCEPT !.at = "none"]
        <4>1. ask' \in Requests /\ ask'.at = "none" /\ ask'.late = ask.late
          BY <1>1, <3>2 DEF Requests
        <4> QED
          BY <1>1, <3>1, <3>2, <4>1 DEF Asks, Pending, Nudges, Requests
      <3>3. CASE ask.late > 0 /\ ask' = [ask EXCEPT !.late = @ - 1]
        <4>1. ask.late - 1 \in Nat
          BY <1>1, <3>3 DEF Requests
        <4>2. ask' \in Requests /\ ask'.at = ask.at /\ ask'.late = ask.late - 1
          BY <1>1, <3>3, <4>1 DEF Requests
        <4> QED
          BY <1>1, <3>1, <3>3, <4>1, <4>2 DEF Asks, Pending, Nudges, Requests
      <3> QED
        BY <2>3, <3>2, <3>3 DEF NudgeApplied
    <2> QED
      BY <2>1, <2>2, <2>3
  <1> QED
    BY <1>1, <1>2, NoMoreAsks

LEMMA NudgeClockInv ==
    ASSUME NudgeInv, NudgeClock
    PROVE  NudgeInv'
  <1> DEFINE t == Aged(stuck.tried, Cooldown)
             e == Aged(stuck.reversed, Ladder)
             n == nudges.time + 1
  <1>1. /\ nudges \in Nudges /\ ask' = ask /\ mark' = mark /\ ask \in Requests /\ mark \in Windows
        /\ stuck \in Ladders /\ Asks \in Nat /\ mark.time <= nudges.time
    BY AsksCount DEF NudgeClock, NudgeInv
  <1>2. t \in Nat /\ e \in Nat /\ n \in Nat
    <2>1. /\ Ladder \in Nat /\ Cooldown \in Nat
          /\ stuck.tried \in Nat /\ stuck.reversed \in Nat /\ nudges.time \in Nat
      BY <1>1, EmergencyAssumption DEF Ladders, Nudges
    <2>2. t \in Nat
      BY <2>1, AgedIs
    <2>3. e \in Nat
      BY <2>1, AgedIs
    <2> QED
      BY <2>1, <2>2, <2>3
  <1>3. nudges' = [nudges EXCEPT !.time = n] /\ stuck' = [stuck EXCEPT !.reversed = e, !.tried = t]
    BY DEF NudgeClock
  <1>4. /\ stuck.tried = Ever => t = Ever
        /\ stuck.tried # Ever /\ stuck.tried > Cooldown => t = stuck.tried
        /\ stuck.tried # Ever /\ stuck.tried <= Cooldown => t = stuck.tried + 1
    BY <1>1, EverIsNever, AgedIs DEF Ladders
  <1> HIDE DEF t, e
  <1>5. /\ nudges' \in Nudges /\ nudges'.done = nudges.done
        /\ nudges'.time = nudges.time + 1
        /\ stuck' \in Ladders /\ stuck'.tried = t
    BY <1>1, <1>2, <1>3 DEF Nudges, Ladders
  <1>6. Asks' = Asks /\ Before' = Before
    BY <1>1, <1>5 DEF Asks, Before, Pending
  <1>9. mark.time <= nudges.time + 1
    BY <1>1 DEF Windows, Nudges
  <1>7. CASE stuck.tried = Ever
    <2>1. Asks <= Before
      BY <1>7 DEF NudgeInv
    <2> QED
      BY <1>1, <1>4, <1>5, <1>6, <1>7, <1>9, <2>1 DEF NudgeInv
  <1>8. CASE stuck.tried # Ever
    <2> DEFINE c == Asks * Cooldown
               m == Before * Cooldown
    <2>1. /\ stuck.tried <= Cooldown + 1
          /\ Asks <= Before \/ c + stuck.tried + mark.time <= nudges.time + Cooldown + m
      BY <1>8 DEF NudgeInv, PaidFor
    <2>4. /\ stuck.tried \in Nat /\ nudges.time \in Nat /\ mark.time \in Nat /\ c \in Nat /\ m \in Nat
      <3>1. Before \in Nat
        BY <1>1 DEF Before, Windows
      <3>2. c \in Nat /\ m \in Nat
        BY <1>1, <3>1, EverIsNever, OneMore
      <3> QED
        BY <1>1, <3>2 DEF Ladders, Nudges, Windows
    <2> HIDE DEF c, m
    <2>2. /\ t <= Cooldown + 1 /\ t # Ever
          /\ Asks <= Before \/ c + t + mark.time <= (nudges.time + 1) + Cooldown + m
      BY <1>2, <1>4, <1>8, <2>1, <2>4, EverIsNever
    <2>3. PaidFor'
      BY <1>1, <1>5, <1>6, <2>2 DEF PaidFor, c, m
    <2> QED
      BY <1>1, <1>5, <1>9, <2>2, <2>3 DEF NudgeInv
  <1> QED
    BY <1>7, <1>8

LEMMA NudgeStepInv == NudgeInv /\ [NudgeNext]_nudgeVars => NudgeInv'
  <1>1. ASSUME NudgeInv, Built \/ WorldMoves \/ UNCHANGED nudgeVars PROVE NudgeInv'
    <2>1. UNCHANGED <<stuck, ask, nudges, mark>>
      BY <1>1 DEF Built, WorldMoves, nudgeVars
    <2> QED
      BY <1>1, <2>1 DEF NudgeInv, PaidFor, Asks, Before, Pending
  <1> QED
    BY <1>1, WindowInv, StuckPollInv, RoutedInv, NudgeClockInv DEF NudgeNext

\* What is covered by the time of a window fits into the window.
LEMMA NudgesFit ==
    ASSUME NudgeInv
    PROVE  nudges.done <= mark.asked + 1 + (nudges.time - mark.time) \div Cooldown
  <1> DEFINE a == Asks
             b == Before
             t == nudges.time - mark.time
             d == nudges.done
             q == t \div Cooldown
  <1>1. /\ a \in Nat /\ b \in Nat /\ t \in Nat /\ d \in Nat /\ d <= a
        /\ nudges.time \in Nat /\ mark.time \in Nat /\ stuck.tried \in Nat
    <2>1. nudges \in Nudges /\ ask \in Requests /\ mark \in Windows /\ stuck \in Ladders /\ mark.time <= nudges.time
      BY DEF NudgeInv
    <2> QED
      BY <2>1, AsksCount DEF Before, Nudges, Windows, Ladders
  <1>2. a * Cooldown \in Nat /\ b * Cooldown \in Nat
    BY <1>1, EverIsNever, OneMore
  <1>3. a <= b \/ a * Cooldown <= t + Cooldown + b * Cooldown
    <2>1. a <= b \/ a * Cooldown + stuck.tried + mark.time <= nudges.time + Cooldown + b * Cooldown
      BY DEF NudgeInv, PaidFor
    <2> HIDE DEF a, b
    <2> QED
      BY <1>1, <1>2, <2>1, EverIsNever
  <1> HIDE DEF a, b, t, d
  <1>4. t = Cooldown * q + (t % Cooldown) /\ (t % Cooldown) \in 0 .. Cooldown - 1 /\ q \in Nat
    BY <1>1, EverIsNever
  <1> HIDE DEF q
  <1>5. ASSUME d > b + 1 + q PROVE FALSE
    <2>1. a >= b + q + 2 /\ ~(a <= b)
      BY <1>1, <1>4, <1>5
    <2>2. (b + q + 2) * Cooldown <= a * Cooldown
      BY <1>1, <1>4, <2>1, EverIsNever
    <2>3. (b + q + 2) * Cooldown = b * Cooldown + Cooldown * q + 2 * Cooldown
      BY <1>1, <1>4, EverIsNever
    <2>4. Cooldown * q \in Nat
      BY <1>4, EverIsNever
    <2> QED
      BY <1>1, <1>2, <1>3, <1>4, <2>1, <2>2, <2>3, <2>4, EverIsNever
  <1>6. d <= b + 1 + q
    BY <1>1, <1>4, <1>5
  <1> QED
    BY <1>6 DEF t, d, q, b, Before

\* Whatever resets the timers, and in whatever order requests, commands, polls and
\* restarts come: in any window of time cars and men are moved once, once more for
\* each cooldown in it and once for each command on its way when it opened; he is
\* told to leave a car the water has held for the whole timeout; and he takes no
\* stranger's car while his own may be had (StuckDetector, WaterEscalator,
\* JackHandoffGate).
THEOREM EmergenciesStayMeasured ==
    /\ NudgeInit /\ [][NudgeNext]_nudgeVars
    /\ WaterInit /\ [][WaterNext]_waterVars
    /\ StrandInit /\ [][StrandNext]_strandVars
    => []EmergenciesAreMeasured
  <1>1. StrandInit => StrandInv
    BY EverIsNever DEF StrandInit, StrandInv, Settled
  <1>2. NudgeInv /\ WaterInv /\ StrandInv => EmergenciesAreMeasured
    BY NudgesFit DEF WaterInv, StrandInv, EmergenciesAreMeasured
  <1> QED
    BY <1>1, <1>2, NudgeInitInv, NudgeStepInv, WaterInitInv, WaterStepInv,
       StrandStepInv, PTL
=============================================================================
