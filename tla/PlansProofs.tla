----------------------------- MODULE PlansProofs -----------------------------
(* Proofs about what plans and keeps count: FreeRoam, for every menu of    *)
(* goals and every scene; Ledger, for every division of the hour and every *)
(* cap; DayPlan, for every number of jobs; BaseRate, for every kind of     *)
(* question, history and spacing of rounds; Offers and Brain, for every    *)
(* spacing, cap and price.  And about the machines the loop consults:      *)
(* Refusals, Threat and Screen, for every scene and duration.              *)
EXTENDS FreeRoam, Ledger, DayPlan, BaseRate, Offers, Brain, Refusals, Threat, Screen, SumProofs

-----------------------------------------------------------------------------
(* The free-roam slot: the inductive invariant                             *)

Locks == [goal : Goals, attempts : 1 .. Attempts, strikes : 0 .. Strikes - 1, old : BOOLEAN]
Machines == [step : Nat, ours : BOOLEAN]
Slot ==
  [lock : {Nothing} \cup Locks, runner : {Nothing} \cup Machines,
   lease : BOOLEAN, busy : BOOLEAN, arsenal : BOOLEAN, stray : BOOLEAN,
   last : {Nothing} \cup Goals, ran : SUBSET Goals, spent : Nat, done : Nat]

\* The cheat layer is on for the goal that holds the lock, or astray.
Armed(m) == m.arsenal /\ ~m.stray => m.lock # Nothing /\ m.lock.goal.cheat

\* A state of the slot between two calls: typed, nothing without its goal, and the
\* cheat layer on for the goal that wants it.
Sound(m) ==
  /\ m \in Slot
  /\ m.lock = Nothing => m.runner = Nothing /\ ~m.lease /\ ~m.busy
  /\ Armed(m)

-----------------------------------------------------------------------------
(* The operators                                                           *)

\* A lock is not the empty slot.
LEMMA LocksAreSome == \A l \in Locks : l # Nothing
  <1> SUFFICES ASSUME NEW l \in Locks, l = Nothing PROVE FALSE
    OBVIOUS
  <1>1. DOMAIN l = {"goal", "attempts", "strikes", "old"}
    BY DEF Locks
  <1>2. DOMAIN l = {}
    <2>1. DOMAIN Nothing = {}
      BY DEF Nothing
    <2> QED
      BY <2>1, Zenon
  <1> QED
    BY <1>1, <1>2

\* The end of a goal leaves nothing of it behind, unless a switch was lost.
LEMMA EndedSound ==
  ASSUME NEW m, m \in Slot, m.lock # Nothing, Armed(m), NEW outcome, NEW n \in Ended(m, outcome)
  PROVE  Sound(n) /\ n.lock = Nothing
  <1> DEFINE e == [Closed(m, outcome) EXCEPT !.runner = Nothing, !.lease = FALSE, !.busy = FALSE]
  <1>1. /\ Closed(m, outcome) \in Slot /\ Closed(m, outcome).lock = Nothing
        /\ Closed(m, outcome).arsenal = m.arsenal /\ Closed(m, outcome).stray = m.stray
    <2> DEFINE n0 == [m EXCEPT !.lock = Nothing]
    <2>1. n0 \in Slot /\ n0.lock = Nothing /\ n0.arsenal = m.arsenal /\ n0.stray = m.stray
      BY DEF Slot
    <2>2. PICK d \in Nat : Closed(m, outcome) = n0 \/ Closed(m, outcome) = [n0 EXCEPT !.done = d]
      <3> DEFINE d == IF n0.done < OfferAfter THEN n0.done + 1 ELSE n0.done
      <3>1. d \in Nat /\ 0 \in Nat
        BY <2>1 DEF Slot
      <3>2. \/ Closed(m, outcome) = n0
            \/ Closed(m, outcome) = [n0 EXCEPT !.done = 0]
            \/ Closed(m, outcome) = [n0 EXCEPT !.done = d]
        BY DEF Closed
      <3> HIDE DEF d, n0
      <3> QED
        BY <3>1, <3>2
    <2> HIDE DEF n0
    <2> QED
      BY <2>1, <2>2 DEF Slot
  <1>2. /\ e \in Slot /\ e.lock = Nothing /\ e.runner = Nothing /\ ~e.lease /\ ~e.busy
        /\ e.arsenal = m.arsenal /\ e.stray = m.stray
    BY <1>1 DEF Slot
  <1>3. n \in IF m.lock.goal.cheat THEN SwitchedOff(e) ELSE {e}
    BY DEF Ended
  <1> HIDE DEF e
  <1>4. CASE n = e /\ ~m.lock.goal.cheat
    BY <1>2, <1>4 DEF Sound, Armed
  <1>5. CASE n = [e EXCEPT !.arsenal = FALSE]
    BY <1>2, <1>5 DEF Sound, Armed, Slot
  <1>6. CASE n = [e EXCEPT !.stray = @ \/ e.arsenal]
    <2>1. e.stray \/ e.arsenal \in BOOLEAN
      BY <1>2 DEF Slot
    <2> QED
      BY <1>2, <1>6, <2>1 DEF Sound, Armed, Slot
  <1> QED
    BY <1>3, <1>4, <1>5, <1>6 DEF SwitchedOff

\* A step is posted under the goal, or the post was lost and the goal ends.
LEMMA IssuedSound ==
  ASSUME NEW m, Sound(m), m.lock # Nothing, NEW r \in Machines, NEW n \in Issued(m, r)
  PROVE  Sound(n) /\ n.lock \in {Nothing, m.lock}
  <1>1. CASE n = [m EXCEPT !.runner = r]
    BY <1>1 DEF Sound, Armed, Slot
  <1>2. CASE n = [m EXCEPT !.runner = [r EXCEPT !.ours = TRUE], !.lease = TRUE]
    <2>1. [r EXCEPT !.ours = TRUE] \in Machines
      BY DEF Machines
    <2> QED
      BY <1>2, <2>1 DEF Sound, Armed, Slot
  <1>3. CASE n \in Ended(m, "bridge_task_lost")
    BY <1>3, EndedSound DEF Sound
  <1> QED
    BY <1>1, <1>2, <1>3 DEF Issued

\* A fresh plan is one more attempt of the same goal, or the goal ends.
LEMMA ReplannedSound ==
  ASSUME NEW m, Sound(m), m.lock # Nothing, NEW s, NEW otherwise,
         NEW n \in Replanned(m, s, otherwise)
  PROVE  /\ Sound(n)
         /\ n.lock # Nothing =>
              n.lock = m.lock \/ n.lock = [m.lock EXCEPT !.attempts = @ + 1]
  <1> DEFINE a == [m EXCEPT !.lock.attempts = @ + 1]
  <1>1. CASE m.lock.attempts < Attempts /\ n \in Issued(a, Fresh)
    <2>1. m.lock \in Locks /\ m.lock.attempts \in 1 .. Attempts
      BY DEF Sound, Slot, Locks
    <2>2. a.lock = [m.lock EXCEPT !.attempts = @ + 1] /\ a.lock \in Locks
      BY <1>1, <2>1 DEF Sound, Slot, Locks, Attempts
    <2>3. a \in Slot /\ a.lock # Nothing
      BY <2>2, LocksAreSome DEF Sound, Slot
    <2>4. Sound(a)
      BY <2>1, <2>2, <2>3 DEF Sound, Armed, Slot, Locks
    <2>5. Fresh \in Machines
      BY DEF Fresh, Machines
    <2> HIDE DEF a
    <2> QED
      BY <1>1, <2>2, <2>3, <2>4, <2>5, IssuedSound
  <1>2. CASE n \in Ended(m, otherwise)
    BY <1>2, EndedSound DEF Sound
  <1> QED
    BY <1>1, <1>2 DEF Replanned

-----------------------------------------------------------------------------
(* Every poll preserves the invariant                                      *)

RoamInv == Sound(roam)

LEMMA RoamInitInv == RoamInit => RoamInv
  BY DEF RoamInit, RoamInv, Sound, Armed, Slot

\* How a step may leave the lock of a goal that goes on: as it was, with one more
\* attempt or strike, or older.
GoesOn(l, k) ==
  /\ k.goal = l.goal /\ (l.old => k.old)
  /\ k.attempts >= l.attempts /\ k.strikes >= l.strikes

\* A lock that stays, or is tried once more, goes on.
LEMMA LockGoesOn ==
  ASSUME NEW l \in Locks, NEW k, k = l \/ k = [l EXCEPT !.attempts = @ + 1]
  PROVE  GoesOn(l, k)
  BY DEF GoesOn, Locks, Attempts, Strikes

\* A lock that gets older goes on.
LEMMA LockAges ==
  ASSUME NEW l \in Locks
  PROVE  LET k == [l EXCEPT !.old = TRUE]
         IN k \in Locks /\ k.goal = l.goal /\ GoesOn(l, k)
  <1> DEFINE k == [l EXCEPT !.old = TRUE]
  <1>1. l.attempts \in Nat /\ l.strikes \in Nat
    BY DEF Locks, Attempts, Strikes
  <1>2. /\ k \in Locks /\ k.goal = l.goal /\ k.old
        /\ k.attempts = l.attempts /\ k.strikes = l.strikes
    BY DEF Locks
  <1> HIDE DEF k
  <1>3. GoesOn(l, k)
    BY <1>1, <1>2 DEF GoesOn
  <1> QED
    BY <1>2, <1>3 DEF k

\* What ends the goal, or does nothing else, keeps the promise about its clock.
LEMMA EndedStep ==
  ASSUME RoamInv, roam.lock # Nothing, NEW outcome, roam' \in Ended(roam, outcome)
  PROVE  RoamInv' /\ GoalKeepsItsClock
  <1>1. Sound(roam') /\ roam'.lock = Nothing
    BY EndedSound DEF RoamInv, Sound
  <1> QED
    BY <1>1 DEF RoamInv, GoalKeepsItsClock

LEMMA EscalatesStep ==
  ASSUME RoamInv, NEW s, NEW errand, GoalEscalates(s, errand)
  PROVE  RoamInv' /\ GoalKeepsItsClock
  <1> DEFINE m == [roam EXCEPT !.lock.strikes = @ + 1]
  <1>1. roam.lock \in Locks /\ roam.lock # Nothing /\ roam \in Slot
    BY DEF GoalEscalates, RoamInv, Sound, Slot
  <1>2. roam.lock.strikes + 1 < Strikes
    <2>1. ~(roam.lock.strikes + 1 >= Strikes)
      BY DEF GoalEscalates, Verdict
    <2> QED
      BY <1>1, <2>1 DEF Locks, Strikes
  <1>3. /\ m.lock = [roam.lock EXCEPT !.strikes = @ + 1]
        /\ m.lock \in Locks /\ GoesOn(roam.lock, m.lock)
    BY <1>1, <1>2 DEF Locks, Strikes, Attempts, Slot, GoesOn
  <1>4. m \in Slot /\ m.lock # Nothing
    BY <1>1, <1>3, LocksAreSome DEF Slot
  <1>5. Sound(m)
    <2>1. m.arsenal = roam.arsenal /\ m.stray = roam.stray /\ m.lock.goal = roam.lock.goal
      BY <1>1, <1>3 DEF Slot, Locks
    <2> QED
      BY <1>4, <2>1 DEF Sound, Armed, RoamInv
  <1>6. roam' \in Replanned(m, s, "stuck")
    BY DEF GoalEscalates
  <1> HIDE DEF m
  <1>7. /\ Sound(roam')
        /\ roam'.lock # Nothing =>
             roam'.lock = m.lock \/ roam'.lock = [m.lock EXCEPT !.attempts = @ + 1]
    BY <1>4, <1>5, <1>6, ReplannedSound
  <1>8. ASSUME roam'.lock # Nothing
        PROVE  GoesOn(roam.lock, roam'.lock)
    <2>1. GoesOn(m.lock, roam'.lock) /\ roam'.lock \in Locks
      BY <1>3, <1>7, <1>8, LockGoesOn DEF Sound, Slot
    <2> QED
      BY <1>1, <1>3, <2>1 DEF GoesOn, Locks, Attempts, Strikes
  <1> QED
    BY <1>7, <1>8 DEF RoamInv, GoalKeepsItsClock, GoesOn

\* The running goal's next step, a fresh plan, or its end.
LEMMA AdvancesStep ==
  ASSUME RoamInv, NEW s, NEW errand, GoalAdvances(s, errand)
  PROVE  RoamInv' /\ GoalKeepsItsClock
  <1> DEFINE r == [Fresh EXCEPT !.step = roam.runner.step + 1]
  <1>1. roam.lock \in Locks /\ roam.lock # Nothing /\ roam.runner \in Machines
    BY DEF GoalAdvances, Goes, RoamInv, Sound, Slot
  <1>2. Fresh \in Machines /\ r \in Machines
    <2>1. Fresh \in Machines
      BY DEF Fresh, Machines
    <2>2. roam.runner.step + 1 \in Nat
      BY <1>1 DEF Machines
    <2> QED
      BY <2>1, <2>2 DEF Machines
  <1>3. \/ roam' \in Issued(roam, Fresh)
        \/ roam' \in Issued(roam, r)
        \/ roam' \in Replanned(roam, s, "actions_done_goal_unmet")
    BY DEF GoalAdvances
  <1> HIDE DEF r
  <1>4. /\ Sound(roam')
        /\ roam'.lock # Nothing =>
             roam'.lock = roam.lock \/ roam'.lock = [roam.lock EXCEPT !.attempts = @ + 1]
    BY <1>1, <1>2, <1>3, IssuedSound, ReplannedSound DEF RoamInv
  <1> QED
    BY <1>1, <1>4, LockGoesOn DEF RoamInv, GoalKeepsItsClock, GoesOn

\* The step machine is dropped under the goal, and perhaps built anew.
LEMMA AbandonedStep ==
  ASSUME RoamInv, NEW s, NEW errand, GoalAbandoned(s, errand)
  PROVE  RoamInv' /\ GoalKeepsItsClock
  <1> DEFINE m == [roam EXCEPT !.runner = Nothing]
  <1>1. roam.lock \in Locks /\ roam.lock # Nothing
    BY DEF GoalAbandoned, Goes, RoamInv, Sound, Slot
  <1>2. Sound(m) /\ m.lock = roam.lock
    BY <1>1 DEF RoamInv, Sound, Armed, Slot
  <1>3. roam' = m \/ roam' \in Replanned(m, s, "preempted")
    BY DEF GoalAbandoned
  <1> HIDE DEF m
  <1>4. /\ Sound(roam')
        /\ roam'.lock # Nothing =>
             roam'.lock = roam.lock \/ roam'.lock = [roam.lock EXCEPT !.attempts = @ + 1]
    BY <1>1, <1>2, <1>3, ReplannedSound
  <1> QED
    BY <1>1, <1>4, LockGoesOn DEF RoamInv, GoalKeepsItsClock, GoesOn

\* A goal begins in a free slot, armed when it wants the cheat layer, or closed at
\* once when the layer was refused.
LEMMA BeginsStep ==
  ASSUME RoamInv, NEW s, GoalBegins(s)
  PROVE  RoamInv' /\ GoalKeepsItsClock
  <1>1. roam.lock = Nothing /\ Sound(roam) /\ (roam.arsenal => roam.stray)
    BY DEF GoalBegins, RoamInv, Sound, Armed
  <1>2. PICK g \in Offered(roam, s) :
          LET m == Committed(roam, g)
              n == [m EXCEPT !.lease = TRUE, !.busy = TRUE]
          IN roam' \in IF g.handoff THEN {[m EXCEPT !.busy = TRUE]}
                       ELSE IF ~g.cheat THEN Issued(n, Fresh)
                       ELSE Issued([n EXCEPT !.arsenal = TRUE], Fresh) \cup Refused(m)
    BY DEF GoalBegins
  <1>3. g \in Goals
    BY DEF Offered, Filtered, Job, Fallback
  <1> DEFINE m == Committed(roam, g)
             n == [m EXCEPT !.lease = TRUE, !.busy = TRUE]
             a == [n EXCEPT !.arsenal = TRUE]
             l == [goal |-> g, attempts |-> 1, strikes |-> 0, old |-> FALSE]
  <1>4. l \in Locks /\ l # Nothing /\ l.goal = g
    <2>1. l \in Locks
      BY <1>3 DEF Locks, Attempts, Strikes
    <2> QED
      BY <2>1, LocksAreSome
  <1>5. /\ m \in Slot /\ m.lock = l /\ m.arsenal = roam.arsenal /\ m.stray = roam.stray
        /\ m.runner = Nothing /\ ~m.busy
    <2>1. roam \in Slot /\ roam.spent + g.cost \in Nat /\ roam.ran \cup {g} \subseteq Goals
      BY <1>1, <1>3, RoamAssumption DEF Sound, Slot
    <2>2. m = [roam EXCEPT !.lock = l, !.last = g, !.ran = @ \cup {g}, !.spent = @ + g.cost]
      BY DEF Committed
    <2> HIDE DEF m, l
    <2> QED
      BY <1>1, <1>3, <1>4, <2>1, <2>2 DEF Sound, Slot
  <1>6. \/ roam' = [m EXCEPT !.busy = TRUE]
        \/ roam' \in Issued(n, Fresh)
        \/ g.cheat /\ roam' \in Issued(a, Fresh)
        \/ roam' \in Refused(m)
    BY <1>2
  <1> HIDE DEF m, l
  <1>7. Sound(m) /\ m.lock # Nothing
    BY <1>1, <1>4, <1>5 DEF Sound, Armed
  <1>8. Sound(n) /\ n.lock # Nothing
    BY <1>7 DEF Sound, Armed, Slot
  <1>9. g.cheat => Sound(a) /\ a.lock # Nothing
    BY <1>4, <1>5, <1>7, <1>8 DEF Sound, Armed, Slot
  <1>10. Fresh \in Machines
    BY DEF Fresh, Machines
  <1>11. ASSUME roam' \in Refused(m)
         PROVE  Sound(roam')
    <2> DEFINE c == Closed(m, "cheat_refused")
               e == [c EXCEPT !.lease = FALSE]
    <2>1. c = [m EXCEPT !.lock = Nothing]
      BY DEF Closed
    <2>2. /\ e \in Slot /\ e.lock = Nothing /\ e.runner = Nothing /\ ~e.lease /\ ~e.busy
          /\ e.arsenal = m.arsenal /\ e.stray = m.stray
      BY <1>5, <2>1 DEF Slot
    <2>3. roam' = e \/ roam' = [e EXCEPT !.arsenal = TRUE, !.stray = TRUE]
      BY <1>11 DEF Refused
    <2> HIDE DEF e
    <2>4. CASE roam' = e
      BY <1>1, <1>5, <2>2, <2>4 DEF Sound, Armed
    <2>5. CASE roam' = [e EXCEPT !.arsenal = TRUE, !.stray = TRUE]
      BY <2>2, <2>5 DEF Sound, Armed, Slot
    <2> QED
      BY <2>3, <2>4, <2>5
  <1>12. ASSUME roam' = [m EXCEPT !.busy = TRUE]
         PROVE  Sound(roam')
    BY <1>7, <1>12 DEF Sound, Armed, Slot
  <1> HIDE DEF n, a
  <1>13. Sound(roam')
    BY <1>6, <1>8, <1>9, <1>10, <1>11, <1>12, IssuedSound
  <1> QED
    BY <1>1, <1>13 DEF RoamInv, GoalKeepsItsClock

\* The bridge and the clocks.
LEMMA ElsewhereStep ==
  ASSUME RoamInv, BridgeRestores \/ GoalAges \/ HourPasses
  PROVE  RoamInv' /\ GoalKeepsItsClock
  <1>1. CASE BridgeRestores
    <2>1. Sound(roam') /\ roam'.lock = roam.lock
      BY <1>1 DEF BridgeRestores, RoamInv, Sound, Armed, Slot
    <2> QED
      BY <2>1, LockGoesOn DEF RoamInv, Sound, Slot, GoalKeepsItsClock, GoesOn
  <1>2. CASE HourPasses
    <2>1. Sound(roam') /\ roam'.lock = roam.lock
      BY <1>2 DEF HourPasses, RoamInv, Sound, Armed, Slot
    <2> QED
      BY <2>1, LockGoesOn DEF RoamInv, Sound, Slot, GoalKeepsItsClock, GoesOn
  <1>3. CASE GoalAges
    <2>1. roam.lock \in Locks /\ roam \in Slot /\ roam.lock # Nothing
      BY <1>3 DEF GoalAges, RoamInv, Sound, Slot
    <2> DEFINE l == [roam.lock EXCEPT !.old = TRUE]
    <2>2. roam' = [roam EXCEPT !.lock = l]
      BY <1>3, <2>1 DEF GoalAges, Slot
    <2>3. l \in Locks /\ l.goal = roam.lock.goal /\ GoesOn(roam.lock, l)
      BY <2>1, LockAges
    <2>4. l # Nothing
      BY <2>3, LocksAreSome
    <2> HIDE DEF l
    <2>5. /\ roam' \in Slot /\ roam'.lock = l
          /\ roam'.arsenal = roam.arsenal /\ roam'.stray = roam.stray
      BY <2>1, <2>2, <2>3 DEF Slot
    <2>6. Sound(roam')
      BY <2>3, <2>4, <2>5 DEF RoamInv, Sound, Armed
    <2> QED
      BY <2>3, <2>5, <2>6 DEF RoamInv, GoalKeepsItsClock, GoesOn
  <1> QED
    BY <1>1, <1>2, <1>3

LEMMA RoamStep ==
  ASSUME RoamInv, [RoamNext]_roamVars
  PROVE  RoamInv' /\ [GoalKeepsItsClock]_roamVars
  <1>1. ASSUME NEW s \in Scenes, NEW errand \in Tasks, NEW done \in BOOLEAN,
               GoalEnds(s, done, errand)
        PROVE  RoamInv' /\ GoalKeepsItsClock
    BY <1>1, EndedStep DEF GoalEnds
  <1>2. ASSUME NEW s \in Scenes, NEW errand \in Tasks, Evicted(s, errand)
        PROVE  RoamInv' /\ GoalKeepsItsClock
    BY <1>2, EndedStep DEF Evicted, Goes
  <1>3. CASE Cut("preempted")
    BY <1>3, EndedStep DEF Cut
  <1>4. CASE UNCHANGED roamVars
    BY <1>4 DEF roamVars, RoamInv
  <1> QED
    BY <1>1, <1>2, <1>3, <1>4, EscalatesStep, AdvancesStep, AbandonedStep, BeginsStep,
       ElsewhereStep DEF RoamNext

-----------------------------------------------------------------------------
(* The theorems                                                            *)

\* Nothing waits for a goal that has ended, however it ended, and the cheat layer
\* is on only for the goal that wants it or because a switch was lost
\* (main._end_activity_if_running, _begin_roam_goal, _switch_arsenal).
THEOREM NothingIsLeftBehind == RoamSpec => []NothingOutlivesTheGoal
  <1>1. RoamInv => NothingOutlivesTheGoal
    BY DEF RoamInv, Sound, Armed, NothingOutlivesTheGoal
  <1> QED
    BY <1>1, RoamInitInv, RoamStep, PTL DEF RoamSpec

\* No poll replaces a goal under its step machine or sets its clock back: what the
\* timeout that ends every goal rests on (RoamEngine.replan keeps the lock).
THEOREM ClocksOnlyRun == RoamSpec => [][GoalKeepsItsClock]_roamVars
  BY RoamInitInv, RoamStep, PTL DEF RoamSpec

-----------------------------------------------------------------------------
(* The ledger: the inductive invariant                                     *)

Hours == [PartsOfHour -> Nat]
Totals == [calls : Hours, deaths : Nat, seeded : BOOLEAN]

LedgerTypeOK ==
  /\ governor \in Hours /\ kept \in Hours /\ fresh \in Hours
  /\ totals \in Totals /\ file \in Totals
  /\ rows \in Nat /\ up \in BOOLEAN

\* The totals of a running process lag behind its governor, never behind the file:
\* so whatever they save has all that was saved before, and counts no call twice.
TotalsLag ==
  \A a \in PartsOfHour : kept[a] <= totals.calls[a] /\ totals.calls[a] <= governor[a]

LedgerInv ==
  /\ LedgerTypeOK
  /\ file.calls = kept
  /\ up => TotalsLag
  /\ SpendIsRemembered

-----------------------------------------------------------------------------
(* The operators                                                           *)

LEMMA NoCallsAre == NoCalls \in Hours /\ \A a \in PartsOfHour : NoCalls[a] = 0
  BY DEF NoCalls, Hours

LEMMA PlusType ==
  ASSUME NEW c \in Hours, NEW d \in Hours
  PROVE  Plus(c, d) \in Hours /\ \A a \in PartsOfHour : Plus(c, d)[a] = c[a] + d[a]
  BY DEF Plus, Hours

\* Two hours are the same when every part of them is.
LEMMA SameHour ==
  ASSUME NEW c \in Hours, NEW d \in Hours, \A a \in PartsOfHour : c[a] = d[a]
  PROVE  c = d
  BY DEF Hours

\* What ages keeps its order, and its sums.
LEMMA OlderType ==
  ASSUME NEW c \in Hours
  PROVE  /\ Older(c) \in Hours
         /\ \A a \in PartsOfHour :
              /\ a = 0 => Older(c)[a] = 0
              /\ a # 0 => a - 1 \in PartsOfHour /\ Older(c)[a] = c[a - 1]
  <1>1. \A a \in PartsOfHour : a # 0 => a - 1 \in PartsOfHour
    BY LedgerConstants DEF PartsOfHour
  <1> QED
    BY <1>1 DEF Older, Hours

\* What a save of the totals puts into the file, when they do not lag behind it.
LEMMA ReachedIs ==
  ASSUME LedgerTypeOK, NEW t, t.calls \in Hours,
         \A a \in PartsOfHour : kept[a] <= t.calls[a]
  PROVE  Reached(t) = t.calls
  <1>1. ASSUME NEW a \in PartsOfHour
        PROVE  Greater(kept[a], t.calls[a]) = t.calls[a]
    <2>1. kept[a] \in Nat /\ t.calls[a] \in Nat /\ kept[a] <= t.calls[a]
      BY DEF LedgerTypeOK, Hours
    <2> QED
      BY <2>1 DEF Greater
  <1>2. Reached(t) = [a \in PartsOfHour |-> t.calls[a]]
    BY <1>1 DEF Reached
  <1> QED
    BY <1>2 DEF Hours

-----------------------------------------------------------------------------
(* Every step preserves the invariant                                      *)

\* Nothing was ever counted.
LEMMA LedgerInitInv == LedgerInit => LedgerInv
  <1> SUFFICES ASSUME LedgerInit PROVE LedgerInv
    OBVIOUS
  <1>1. NoFile \in Totals /\ NoFile.calls = NoCalls
    BY NoCallsAre DEF NoFile, Totals
  <1>2. LedgerTypeOK
    BY <1>1, NoCallsAre DEF LedgerInit, LedgerTypeOK
  <1>3. ~up /\ file.calls = kept
    BY <1>1 DEF LedgerInit
  <1> QED
    BY <1>2, <1>3 DEF LedgerInv, SpendIsRemembered

\* A process starts from the file, or from nothing when the file was lost.
LEMMA StartInv ==
  ASSUME LedgerInv, NEW lost \in BOOLEAN, NEW reachable \in BOOLEAN, NEW ok \in BOOLEAN,
         Start(lost, reachable, ok)
  PROVE  LedgerInv'
  <1> DEFINE f == IF lost THEN NoFile ELSE file
             seeds == ~f.seeded /\ reachable
             t == IF seeds THEN SeededFrom(Loaded(f)) ELSE Loaded(f)
  <1>1. /\ up' = TRUE /\ totals' = t /\ file' = (IF seeds /\ ok THEN t ELSE f)
        /\ governor' = f.calls /\ kept' = (IF lost THEN NoCalls ELSE kept)
        /\ fresh' = NoCalls /\ rows' = rows
    BY DEF Start, BudgetSeed, Loaded
  <1>2. f \in Totals /\ f.calls = kept' /\ f.calls \in Hours
    BY <1>1, NoCallsAre DEF LedgerInv, LedgerTypeOK, NoFile, Totals
  <1>3. t \in Totals /\ t.calls = f.calls
    <2>1. Greater(f.deaths, rows) \in Nat
      BY <1>2 DEF Greater, LedgerInv, LedgerTypeOK, Totals
    <2>2. /\ [f EXCEPT !.deaths = Greater(@, rows), !.seeded = TRUE] \in Totals
          /\ [f EXCEPT !.deaths = Greater(@, rows), !.seeded = TRUE].calls = f.calls
      BY <1>2, <2>1 DEF Totals
    <2> HIDE DEF f
    <2> QED
      BY <1>2, <2>2 DEF SeededFrom, LifetimeSeed, Loaded
  <1> HIDE DEF f, t, seeds
  <1>4. file' \in Totals /\ file'.calls = kept'
    BY <1>1, <1>2, <1>3
  <1>5. \A a \in PartsOfHour : kept'[a] <= totals'.calls[a] /\ totals'.calls[a] <= governor'[a]
    <2>1. \A a \in PartsOfHour : f.calls[a] \in Nat
      BY <1>2 DEF Hours
    <2> QED
      BY <1>1, <1>2, <1>3, <2>1
  <1>6. governor' = Plus(kept', fresh')
    <2>1. \A a \in PartsOfHour : f.calls[a] \in Nat /\ f.calls[a] = f.calls[a] + NoCalls[a]
      BY <1>2, NoCallsAre DEF Hours
    <2>2. /\ Plus(f.calls, NoCalls) \in Hours
          /\ \A a \in PartsOfHour : Plus(f.calls, NoCalls)[a] = f.calls[a] + NoCalls[a]
      BY <1>2, NoCallsAre, PlusType
    <2>3. f.calls = Plus(f.calls, NoCalls)
      BY <1>2, <2>1, <2>2, SameHour
    <2> QED
      BY <1>1, <1>2, <2>3
  <1>7. LedgerTypeOK'
    BY <1>1, <1>2, <1>3, <1>4, NoCallsAre DEF LedgerInv, LedgerTypeOK
  <1> QED
    BY <1>4, <1>5, <1>6, <1>7 DEF LedgerInv, TotalsLag, SpendIsRemembered

\* A call is counted by the governor and by this process alike.
LEMMA CallInv ==
  ASSUME LedgerInv, Call
  PROVE  LedgerInv'
  <1>1. /\ up /\ governor \in Hours /\ fresh \in Hours /\ kept \in Hours
        /\ governor = Plus(kept, fresh) /\ TotalsLag /\ totals.calls \in Hours
        /\ governor' = [governor EXCEPT ![0] = @ + 1]
        /\ fresh' = [fresh EXCEPT ![0] = @ + 1]
        /\ UNCHANGED <<totals, file, rows, up, kept>>
    BY DEF Call, LedgerInv, LedgerTypeOK, SpendIsRemembered, Totals
  <1>2. governor' \in Hours /\ fresh' \in Hours
    <2>1. 0 \in PartsOfHour
      BY LedgerConstants DEF PartsOfHour
    <2>2. governor[0] + 1 \in Nat /\ fresh[0] + 1 \in Nat
      BY <1>1, <2>1 DEF Hours
    <2> QED
      BY <1>1, <2>2 DEF Hours
  <1>3. LedgerTypeOK'
    BY <1>1, <1>2 DEF LedgerInv, LedgerTypeOK
  <1>4. TotalsLag'
    <2>1. ASSUME NEW a \in PartsOfHour
          PROVE  kept'[a] <= totals'.calls[a] /\ totals'.calls[a] <= governor'[a]
      <3>1. /\ kept[a] <= totals.calls[a] /\ totals.calls[a] <= governor[a]
            /\ totals.calls[a] \in Nat /\ governor[a] \in Nat
        BY <1>1 DEF TotalsLag, Hours
      <3>2. governor'[a] \in {governor[a], governor[a] + 1}
        BY <1>1 DEF Hours
      <3> QED
        BY <1>1, <3>1, <3>2
    <2> QED
      BY <2>1 DEF TotalsLag
  <1>5. governor' = Plus(kept, fresh')
    <2>1. ASSUME NEW a \in PartsOfHour
          PROVE  governor'[a] = kept[a] + fresh'[a]
      <3>1. /\ governor[a] = kept[a] + fresh[a]
            /\ kept[a] \in Nat /\ fresh[a] \in Nat
        BY <1>1, PlusType DEF Hours
      <3>2. /\ governor'[a] = IF a = 0 THEN governor[a] + 1 ELSE governor[a]
            /\ fresh'[a] = IF a = 0 THEN fresh[a] + 1 ELSE fresh[a]
        BY <1>1 DEF Hours
      <3> QED
        BY <3>1, <3>2
    <2>2. /\ Plus(kept, fresh') \in Hours
          /\ \A a \in PartsOfHour : Plus(kept, fresh')[a] = kept[a] + fresh'[a]
      BY <1>1, <1>2, PlusType
    <2>3. \A a \in PartsOfHour : governor'[a] = Plus(kept, fresh')[a]
      BY <2>1, <2>2
    <2> QED
      BY <1>2, <2>2, <2>3, SameHour
  <1> QED
    BY <1>1, <1>3, <1>4, <1>5 DEF LedgerInv, SpendIsRemembered

\* A save brings the file up to what the totals hold, and moves as many calls from
\* this process's to the file's.
LEMMA SavedCalls ==
  ASSUME LedgerInv, up, NEW t, t.calls = totals.calls
  PROVE  LET k == Reached(t)
             n == [a \in PartsOfHour |-> fresh[a] + kept[a] - k[a]]
         IN k = t.calls /\ n \in Hours /\ governor = Plus(k, n)
  <1> DEFINE n == [a \in PartsOfHour |-> fresh[a] + kept[a] - t.calls[a]]
  <1>1. /\ governor \in Hours /\ fresh \in Hours /\ kept \in Hours /\ t.calls \in Hours
        /\ governor = Plus(kept, fresh) /\ TotalsLag
    BY DEF LedgerInv, LedgerTypeOK, SpendIsRemembered, Totals
  <1>2. \A a \in PartsOfHour :
          /\ kept[a] <= t.calls[a] /\ t.calls[a] <= governor[a]
          /\ kept[a] \in Nat /\ fresh[a] \in Nat /\ t.calls[a] \in Nat
          /\ governor[a] = kept[a] + fresh[a]
    BY <1>1, PlusType DEF TotalsLag, Hours
  <1>3. Reached(t) = t.calls
    BY <1>1, <1>2, ReachedIs DEF LedgerInv
  <1>4. n \in Hours /\ \A a \in PartsOfHour : governor[a] = t.calls[a] + n[a]
    BY <1>2 DEF Hours
  <1> HIDE DEF n
  <1>5. /\ Plus(t.calls, n) \in Hours
        /\ \A a \in PartsOfHour : Plus(t.calls, n)[a] = t.calls[a] + n[a]
    BY <1>1, <1>4, PlusType
  <1>6. governor = Plus(t.calls, n)
    BY <1>1, <1>4, <1>5, SameHour
  <1> QED
    BY <1>3, <1>4, <1>6 DEF n

\* A heartbeat takes the governor's calls over, and saves them or not.
LEMMA BeatInv ==
  ASSUME LedgerInv, NEW ok \in BOOLEAN, NEW lands \in BOOLEAN, Beat(ok, lands)
  PROVE  LedgerInv'
  <1> DEFINE t == [totals EXCEPT !.calls = governor]
  <1>1. /\ up /\ governor \in Hours /\ fresh \in Hours /\ kept \in Hours
        /\ governor = Plus(kept, fresh) /\ TotalsLag /\ totals \in Totals
        /\ file \in Totals /\ file.calls = kept /\ rows \in Nat
    BY DEF Beat, LedgerInv, LedgerTypeOK, SpendIsRemembered
  <1>2. t \in Totals /\ t.calls = governor
    BY <1>1 DEF Totals
  <1>3. /\ totals' = t /\ file' = (IF ok THEN t ELSE file)
        /\ kept' = (IF ok THEN Plus(kept, fresh) ELSE kept)
        /\ fresh' = (IF ok THEN NoCalls ELSE fresh)
        /\ governor' = governor /\ up' = up
    BY DEF Beat, Adopted, Saved
  <1>4. rows' \in Nat
    <2>1. Greater(rows, totals.deaths) \in Nat
      BY <1>1 DEF Greater, Totals
    <2> QED
      BY <1>1, <2>1 DEF Beat
  <1> HIDE DEF t
  <1>5. kept' \in Hours /\ fresh' \in Hours /\ kept' = file'.calls
    BY <1>1, <1>2, <1>3, NoCallsAre
  <1>6. \A a \in PartsOfHour : governor[a] \in Nat /\ kept[a] <= governor[a]
    BY <1>1, PlusType DEF Hours
  <1>7. TotalsLag'
    BY <1>1, <1>2, <1>3, <1>6 DEF TotalsLag
  <1>8. governor' = Plus(kept', fresh')
    <2>1. CASE ok
      <3>1. \A a \in PartsOfHour : governor[a] = governor[a] + NoCalls[a]
        BY <1>6, NoCallsAre
      <3>2. /\ Plus(governor, NoCalls) \in Hours
            /\ \A a \in PartsOfHour : Plus(governor, NoCalls)[a] = governor[a] + NoCalls[a]
        BY <1>1, NoCallsAre, PlusType
      <3>3. governor = Plus(governor, NoCalls)
        BY <1>1, <3>1, <3>2, SameHour
      <3> QED
        BY <1>1, <1>3, <2>1, <3>3
    <2>2. CASE ~ok
      BY <1>1, <1>3, <2>2
    <2> QED
      BY <2>1, <2>2
  <1>9. LedgerTypeOK'
    BY <1>1, <1>2, <1>3, <1>4, <1>5 DEF LedgerTypeOK
  <1> QED
    BY <1>5, <1>7, <1>8, <1>9 DEF LedgerInv, SpendIsRemembered

\* A death is counted and saved with the calls the totals have.
LEMMA BumpInv ==
  ASSUME LedgerInv, NEW ok \in BOOLEAN, Bump(ok)
  PROVE  LedgerInv'
  <1> DEFINE t == [totals EXCEPT !.deaths = @ + 1]
             n == [a \in PartsOfHour |-> fresh[a] + kept[a] - Reached(t)[a]]
             m == [a \in PartsOfHour |-> fresh[a] + kept[a] - kept[a]]
  <1>1. /\ up /\ governor \in Hours /\ fresh \in Hours /\ kept \in Hours
        /\ governor = Plus(kept, fresh) /\ TotalsLag /\ totals \in Totals
        /\ file \in Totals /\ file.calls = kept /\ rows \in Nat
    BY DEF Bump, LedgerInv, LedgerTypeOK, SpendIsRemembered
  <1>2. t \in Totals /\ t.calls = totals.calls
    BY <1>1 DEF Totals
  <1>3. /\ totals' = t /\ file' = (IF ok THEN t ELSE file)
        /\ kept' = (IF ok THEN Reached(t) ELSE kept)
        /\ fresh' = (IF ok THEN n ELSE m)
        /\ governor' = governor /\ up' = up /\ rows' = rows
    BY DEF Bump, Saved
  <1>4. m = fresh
    <2>1. \A a \in PartsOfHour : fresh[a] + kept[a] - kept[a] = fresh[a]
      BY <1>1 DEF Hours
    <2>2. m = [a \in PartsOfHour |-> fresh[a]]
      BY <2>1
    <2> QED
      BY <1>1, <2>2 DEF Hours
  <1> HIDE DEF t, m
  <1>5. Reached(t) = t.calls /\ n \in Hours /\ governor = Plus(Reached(t), n)
    BY <1>1, <1>2, SavedCalls
  <1> HIDE DEF n
  <1>6. kept' \in Hours /\ fresh' \in Hours /\ kept' = file'.calls
    BY <1>1, <1>2, <1>3, <1>4, <1>5 DEF Totals
  <1>7. governor' = Plus(kept', fresh')
    BY <1>1, <1>3, <1>4, <1>5
  <1>8. TotalsLag'
    <2>1. \A a \in PartsOfHour : totals.calls[a] \in Nat
      BY <1>1 DEF Totals, Hours
    <2> QED
      BY <1>1, <1>2, <1>3, <1>5, <2>1 DEF TotalsLag
  <1>9. LedgerTypeOK'
    BY <1>1, <1>2, <1>3, <1>6 DEF LedgerTypeOK
  <1> QED
    BY <1>6, <1>7, <1>8, <1>9 DEF LedgerInv, SpendIsRemembered

\* Every list of calls gets a part of an hour older.
LEMMA PartPassesInv ==
  ASSUME LedgerInv, PartPasses
  PROVE  LedgerInv'
  <1>1. /\ governor \in Hours /\ fresh \in Hours /\ kept \in Hours
        /\ totals \in Totals /\ file \in Totals /\ file.calls = kept
        /\ totals.calls \in Hours
        /\ rows \in Nat /\ up \in BOOLEAN
    BY DEF LedgerInv, LedgerTypeOK, Totals
  <1>2. /\ governor' = Older(governor) /\ kept' = Older(kept) /\ fresh' = Older(fresh)
        /\ totals' = [totals EXCEPT !.calls = Older(@)]
        /\ file' = [file EXCEPT !.calls = Older(@)]
        /\ rows' = rows /\ up' = up
    BY DEF PartPasses
  <1>3. /\ governor' \in Hours /\ kept' \in Hours /\ fresh' \in Hours
        /\ Older(totals.calls) \in Hours
    BY <1>1, <1>2, OlderType
  <1>4. /\ totals' \in Totals /\ totals'.calls = Older(totals.calls)
        /\ file' \in Totals /\ file'.calls = kept'
    BY <1>1, <1>2, <1>3 DEF Totals
  <1>5. LedgerTypeOK'
    BY <1>1, <1>2, <1>3, <1>4 DEF LedgerTypeOK
  <1>6. ASSUME up
        PROVE  TotalsLag' /\ governor' = Plus(kept', fresh')
    <2>1. \A a \in PartsOfHour :
            /\ kept[a] <= totals.calls[a] /\ totals.calls[a] <= governor[a]
            /\ governor[a] = kept[a] + fresh[a]
      BY <1>1, <1>6, PlusType DEF LedgerInv, TotalsLag, SpendIsRemembered
    <2>2. ASSUME NEW a \in PartsOfHour
          PROVE  /\ Older(kept)[a] <= Older(totals.calls)[a]
                 /\ Older(totals.calls)[a] <= Older(governor)[a]
                 /\ Older(governor)[a] = Older(kept)[a] + Older(fresh)[a]
      <3>1. CASE a = 0
        <4>1. /\ Older(kept)[a] = 0 /\ Older(totals.calls)[a] = 0
              /\ Older(governor)[a] = 0 /\ Older(fresh)[a] = 0
          BY <1>1, <3>1, OlderType
        <4> QED
          BY <4>1
      <3>2. CASE a # 0
        <4>1. /\ a - 1 \in PartsOfHour
              /\ Older(kept)[a] = kept[a - 1] /\ Older(totals.calls)[a] = totals.calls[a - 1]
              /\ Older(governor)[a] = governor[a - 1] /\ Older(fresh)[a] = fresh[a - 1]
          BY <1>1, <3>2, OlderType
        <4> QED
          BY <2>1, <4>1
      <3> QED
        BY <3>1, <3>2
    <2>3. TotalsLag'
      BY <1>2, <1>4, <2>2 DEF TotalsLag
    <2>4. /\ Plus(kept', fresh') \in Hours
          /\ \A a \in PartsOfHour : Plus(kept', fresh')[a] = kept'[a] + fresh'[a]
      BY <1>3, PlusType
    <2>5. \A a \in PartsOfHour : governor'[a] = Plus(kept', fresh')[a]
      BY <1>2, <2>2, <2>4
    <2> QED
      BY <1>3, <2>3, <2>4, <2>5, SameHour
  <1> QED
    BY <1>2, <1>4, <1>5, <1>6 DEF LedgerInv, SpendIsRemembered

\* A process that stops saves what its totals have, or is killed.
LEMMA EndsInv ==
  ASSUME LedgerInv, NEW saves \in BOOLEAN, Ends(saves)
  PROVE  LedgerInv'
  <1>1. /\ up /\ ~up' /\ up' \in BOOLEAN /\ totals \in Totals /\ file \in Totals
        /\ file.calls = kept /\ kept \in Hours /\ rows' \in Nat
        /\ file' = (IF saves THEN totals ELSE file)
        /\ kept' = (IF saves THEN Reached(totals) ELSE kept)
        /\ fresh' = NoCalls /\ governor' = NoCalls /\ totals' = NoFile
    BY DEF Ends, Saved, LedgerInv, LedgerTypeOK
  <1>2. Reached(totals) = totals.calls /\ totals.calls \in Hours
    BY <1>1, SavedCalls DEF Totals
  <1>3. NoFile \in Totals
    BY NoCallsAre DEF NoFile, Totals
  <1>4. LedgerTypeOK' /\ file'.calls = kept'
    BY <1>1, <1>2, <1>3, NoCallsAre DEF LedgerTypeOK
  <1> QED
    BY <1>1, <1>4 DEF LedgerInv, SpendIsRemembered

LEMMA LedgerStep ==
  ASSUME LedgerInv, [LedgerNext]_ledgerVars
  PROVE  LedgerInv'
  <1>1. CASE UNCHANGED ledgerVars
    BY <1>1 DEF ledgerVars, LedgerInv, LedgerTypeOK, TotalsLag, SpendIsRemembered
  <1> QED
    BY <1>1, StartInv, CallInv, BeatInv, BumpInv, PartPassesInv, EndsInv DEF LedgerNext

\* The governor's hour is every call that has reached the file and every call of
\* this process, and no other, through crashes, lost files and saves that carry an
\* older list (budget.py seeded by main.py from totals.py).
THEOREM SpendStaysRemembered == LedgerSpec => []SpendIsRemembered
  <1>1. LedgerInv => SpendIsRemembered
    BY DEF LedgerInv
  <1> QED
    BY <1>1, LedgerInitInv, LedgerStep, PTL DEF LedgerSpec

-----------------------------------------------------------------------------
(* The missions row                                                        *)

\* The row's start is one the game has begun; a start that is stamped, or still to
\* be seen, is later than the last one a row carries.
RowsInv ==
  /\ job \in [active : BOOLEAN, cut : BOOLEAN, polled : BOOLEAN, count : Nat]
  /\ stamp \in 0 .. job.count
  /\ rowed \in [last : 0 .. job.count, twice : BOOLEAN]
  /\ stamp # 0 => rowed.last < stamp
  /\ Started => rowed.last < job.count
  /\ OneRowPerStart

LEMMA DayInitInv == DayInit => RowsInv
  BY DEF DayInit, RowsInv, Started, OneRowPerStart

\* A tick stamps the start it sees, or writes the row of the end it sees and drops
\* the stamp; an ending nobody could read keeps both.
LEMMA TickRows ==
  ASSUME RowsInv, NEW awake \in BOOLEAN, Tick(awake)
  PROVE  RowsInv'
  <1>1. PICK o \in {"failed", "passed", "unknown"} :
          /\ stamp' = IF Started THEN TrackStart
                      ELSE IF EndedNow THEN TrackEnd(stamp, o) ELSE stamp
          /\ rowed' = IF EndedNow THEN RowsAfter(o) ELSE rowed
    BY DEF Tick
  <1>2. job' = [job EXCEPT !.polled = job.active]
    BY DEF Tick
  <1>3. /\ job' \in [active : BOOLEAN, cut : BOOLEAN, polled : BOOLEAN, count : Nat]
        /\ job'.count = job.count /\ job'.active = job.active /\ job'.polled = job.active
    BY <1>2 DEF RowsInv
  <1>4. ~Started'
    BY <1>3 DEF Started
  <1>5. CASE Started
    <2>1. stamp' = job.count /\ rowed' = rowed
      BY <1>1, <1>5 DEF Started, EndedNow, TrackStart
    <2> QED
      BY <1>3, <1>4, <1>5, <2>1 DEF RowsInv, OneRowPerStart
  <1>6. CASE ~Started /\ ~EndedNow
    BY <1>1, <1>3, <1>4, <1>6 DEF RowsInv, OneRowPerStart
  <1>7. CASE EndedNow /\ o = "unknown"
    <2>1. stamp' = stamp /\ rowed' = rowed
      BY <1>1, <1>7 DEF Started, EndedNow, TrackEnd, RowsAfter
    <2> QED
      BY <1>3, <1>4, <2>1 DEF RowsInv, OneRowPerStart
  <1>8. CASE EndedNow /\ o # "unknown"
    <2>1. stamp' = 0
      BY <1>1, <1>8 DEF Started, EndedNow, TrackEnd
    <2>2. rowed' = rowed \/ (stamp # 0 /\ rowed' = [last |-> stamp, twice |-> FALSE])
      <3>1. ~rowed.twice /\ (stamp # 0 => rowed.last # stamp)
        BY DEF RowsInv, OneRowPerStart
      <3>2. CASE stamp = 0
        BY <1>1, <1>8, <3>2 DEF RowsAfter
      <3>3. CASE stamp # 0
        <4>1. rowed' = [last |-> stamp, twice |-> rowed.twice \/ rowed.last = stamp]
          BY <1>1, <1>8, <3>3 DEF RowsAfter
        <4>2. (rowed.twice \/ rowed.last = stamp) = FALSE
          BY <3>1, <3>3
        <4> QED
          BY <3>3, <4>1, <4>2
      <3> QED
        BY <3>2, <3>3
    <2>3. rowed' \in [last : 0 .. job.count, twice : BOOLEAN] /\ ~rowed'.twice
      <3>1. /\ rowed \in [last : 0 .. job.count, twice : BOOLEAN] /\ ~rowed.twice
            /\ stamp \in 0 .. job.count
        BY DEF RowsInv, OneRowPerStart
      <3>2. CASE rowed' = [last |-> stamp, twice |-> FALSE]
        BY <3>1, <3>2
      <3> QED
        BY <2>2, <3>1, <3>2
    <2> QED
      BY <1>3, <1>4, <2>1, <2>3 DEF RowsInv, OneRowPerStart
  <1> QED
    BY <1>5, <1>6, <1>7, <1>8

\* The game's jobs come one after another; a restart forgets the stamp.
LEMMA ElsewhereRows ==
  ASSUME RowsInv,
         TickOnBreak \/ GameMoves \/ DayRestarts \/ RoamTells \/ Later \/ UNCHANGED dayVars
  PROVE  RowsInv'
  <1>1. CASE TickOnBreak
    BY <1>1 DEF TickOnBreak, RowsInv, Started, OneRowPerStart
  <1>2. CASE GameMoves
    <2>1. stamp' = stamp /\ rowed' = rowed
      BY <1>2 DEF GameMoves
    <2>2. CASE ~job.active /\ job' = [job EXCEPT !.active = TRUE, !.count = @ + 1]
      <3>1. /\ job' \in [active : BOOLEAN, cut : BOOLEAN, polled : BOOLEAN, count : Nat]
            /\ job'.count = job.count + 1 /\ job.count \in Nat
        <4>1. /\ job \in [active : BOOLEAN, cut : BOOLEAN, polled : BOOLEAN, count : Nat]
              /\ job.count \in Nat /\ job.count + 1 \in Nat
          BY DEF RowsInv
        <4>2. job' = [job EXCEPT !.active = TRUE, !.count = job.count + 1]
          BY <2>2
        <4> QED
          BY <4>1, <4>2
      <3>2. /\ stamp \in 0 .. job'.count /\ rowed.last < job'.count
            /\ rowed \in [last : 0 .. job'.count, twice : BOOLEAN]
        <4>1. rowed \in [last : 0 .. job.count, twice : BOOLEAN] /\ stamp \in 0 .. job.count
          BY DEF RowsInv
        <4>2. rowed.last \in 0 .. job.count /\ 0 .. job.count \subseteq 0 .. job'.count
          BY <3>1, <4>1
        <4> QED
          BY <3>1, <4>1, <4>2
      <3> QED
        BY <2>1, <3>1, <3>2 DEF RowsInv, OneRowPerStart
    <2>3. CASE job.active /\ job' = [job EXCEPT !.active = FALSE]
      BY <2>1, <2>3 DEF RowsInv, Started, OneRowPerStart
    <2>4. CASE job' = [job EXCEPT !.cut = ~@]
      <3>1. /\ job' \in [active : BOOLEAN, cut : BOOLEAN, polled : BOOLEAN, count : Nat]
            /\ job'.count = job.count /\ Started' = Started
        BY <2>4 DEF RowsInv, Started
      <3> QED
        BY <2>1, <3>1 DEF RowsInv, OneRowPerStart
    <2> QED
      BY <1>2, <2>2, <2>3, <2>4 DEF GameMoves
  <1>3. CASE DayRestarts
    <2>1. stamp' = 0 /\ rowed' = rowed
      BY <1>3 DEF DayRestarts
    <2>2. /\ job' \in [active : BOOLEAN, cut : BOOLEAN, polled : BOOLEAN, count : Nat]
          /\ job'.count = job.count /\ ~job'.active
      BY <1>3 DEF DayRestarts, RowsInv
    <2> QED
      BY <2>1, <2>2 DEF RowsInv, Started, OneRowPerStart
  <1>4. CASE RoamTells \/ Later \/ UNCHANGED dayVars
    BY <1>4 DEF RoamTells, Later, dayVars, RowsInv, Started, OneRowPerStart
  <1> QED
    BY <1>1, <1>2, <1>3, <1>4

\* No start that was observed gets two missions rows, whatever starts and endings
\* the breaks hide and whatever stamps an unread ending leaves behind
\* (MissionTracker.feed and main._write_mission_row).
THEOREM RowsAreWrittenOnce == DaySpec => []OneRowPerStart
  <1>1. RowsInv /\ [DayNext]_dayVars => RowsInv'
    BY TickRows, ElsewhereRows DEF DayNext, TickAwake, TickAsleep
  <1>2. RowsInv => OneRowPerStart
    BY DEF RowsInv
  <1> QED
    BY <1>1, <1>2, DayInitInv, PTL DEF DaySpec

-----------------------------------------------------------------------------
(* The odds                                                                *)

Events == [ts : Nat, kind : EventKinds]
AskedOf(es) == {e.ts : e \in {f \in es : f.kind = Question}}

\* What happened since the cutoff is in the log, and nothing but what happened; the
\* times that were computed are still those of the log.
OddsInv ==
  /\ clock \in Nat
  /\ happened \subseteq Events
  /\ log \subseteq happened
  /\ \A e \in happened : e.ts >= Cutoff => e \in log
  /\ hits.known => hits.times = AskedOf(log)

LEMMA CutoffType ==
  ASSUME clock \in Nat
  PROVE  Cutoff \in Nat
  BY BaseRateConstants DEF Cutoff

\* Pruning drops only what is older than the history.
LEMMA KeptIs ==
  ASSUME NEW es
  PROVE  /\ Kept(es) \subseteq es
         /\ \A e \in es : e.ts >= Cutoff => e \in Kept(es)
  BY DEF Kept

LEMMA OddsInitInv == BaseRateInit => OddsInv
  BY DEF BaseRateInit, OddsInv, Unknown

\* An event, early or late, enters the log unless it is too old, and the computed
\* times are forgotten.
LEMMA ObserveInv ==
  ASSUME OddsInv, NEW e \in Events, Observe(e)
  PROVE  OddsInv'
  <1> DEFINE es == log \union {e}
  <1>1. /\ log' = Kept(es) /\ happened' = happened \union {e} /\ clock' = clock
        /\ ~hits'.known
    BY DEF Observe, Forgets, Unknown
  <1>2. Cutoff' = Cutoff
    BY <1>1 DEF Cutoff
  <1>3. Kept(es) \subseteq es /\ \A f \in es : f.ts >= Cutoff => f \in Kept(es)
    BY KeptIs
  <1>4. es \subseteq happened' /\ \A f \in happened' : f.ts >= Cutoff => f \in es
    BY <1>1 DEF OddsInv
  <1>5. happened' \subseteq Events /\ clock' \in Nat
    BY <1>1 DEF OddsInv
  <1> HIDE DEF es
  <1> QED
    BY <1>1, <1>2, <1>3, <1>4, <1>5 DEF OddsInv

\* The clock runs: the cutoff only moves on.
LEMMA ClockInv ==
  ASSUME OddsInv, TimePasses
  PROVE  OddsInv'
  <1>1. clock \in Nat /\ clock' = clock + 1 /\ UNCHANGED <<log, hits, happened>>
    BY DEF OddsInv, TimePasses
  <1>2. Cutoff \in Nat /\ Cutoff' \in Nat /\ Cutoff' >= Cutoff
    BY <1>1, BaseRateConstants DEF Cutoff
  <1>3. \A e \in happened : e.ts >= Cutoff' => e \in log
    <2>1. \A e \in happened : e.ts \in Nat
      BY DEF OddsInv, Events
    <2> QED
      BY <1>2, <2>1 DEF OddsInv
  <1> QED
    BY <1>1, <1>3 DEF OddsInv

LEMMA MatchingIs ==
  ASSUME OddsInv
  PROVE  Matching = AskedOf(log)
  BY DEF OddsInv, Matching, AskedOf

LEMMA OddsStep ==
  ASSUME OddsInv, [BaseRateNext]_baseRateVars
  PROVE  OddsInv'
  <1>1. CASE Live
    <2>1. PICK kind \in EventKinds : Observe(Entry(clock, kind))
      BY <1>1 DEF Live
    <2>2. Entry(clock, kind) \in Events
      BY DEF Entry, Events, OddsInv
    <2> QED
      BY <2>1, <2>2, ObserveInv
  <1>2. CASE Warm
    <2>1. PICK kind \in EventKinds, ts \in 0 .. Horizon : Observe(Entry(ts, kind))
      BY <1>2 DEF Warm
    <2>2. Entry(ts, kind) \in Events
      BY DEF Entry, Events
    <2> QED
      BY <2>1, <2>2, ObserveInv
  <1>3. CASE Measure
    <2>1. /\ hits' = [known |-> TRUE, times |-> AskedOf(log)]
          /\ UNCHANGED <<clock, log, happened>>
      BY <1>3, MatchingIs DEF Measure
    <2> QED
      BY <2>1 DEF OddsInv, AskedOf, Cutoff
  <1>4. CASE UNCHANGED baseRateVars
    BY <1>4 DEF baseRateVars, OddsInv, AskedOf, Cutoff
  <1> QED
    BY <1>1, <1>2, <1>3, <1>4, ClockInv DEF BaseRateNext

\* A round that is counted is won by the log's events exactly when it was won by
\* what happened: its window lies after the cutoff.
LEMMA SameWins ==
  ASSUME OddsInv
  PROVE  Wins(Matching) = Wins({e.ts : e \in {f \in happened : f.kind = Question}})
  <1> DEFINE all == {e.ts : e \in {f \in happened : f.kind = Question}}
  <1>1. ASSUME NEW a \in Counted, NEW t \in all, a + LockDelay <= t
        PROVE  t \in AskedOf(log)
    <2>1. PICK e \in happened : e.kind = Question /\ t = e.ts
      OBVIOUS
    <2>2. a \in Nat /\ a >= Cutoff
      BY DEF Counted, Anchors
    <2>3. e.ts \in Nat /\ Cutoff \in Nat
      BY CutoffType DEF OddsInv, Events
    <2>4. e.ts >= Cutoff
      BY <1>1, <2>1, <2>2, <2>3, BaseRateConstants
    <2> QED
      BY <2>1, <2>4 DEF OddsInv, AskedOf
  <1>2. AskedOf(log) \subseteq all
    BY DEF OddsInv, AskedOf
  <1> HIDE DEF all
  <1>3. Wins(AskedOf(log)) = Wins(all)
    BY <1>1, <1>2 DEF Wins
  <1> QED
    BY <1>3, MatchingIs DEF all

\* The odds offered are those of what happened, though the log was pruned, the warm
\* start's rows came late and the times were computed in between
\* (RollingBaseRate.observe, _prune and measure).
THEOREM OddsStayTrue == BaseRateSpec => []OddsAreOfWhatHappened
  <1>1. OddsInv => OddsAreOfWhatHappened
    BY SameWins DEF OddsAreOfWhatHappened, Calibration
  <1> QED
    BY <1>1, OddsInitInv, OddsStep, PTL DEF BaseRateSpec
-----------------------------------------------------------------------------
(* Questions: asked in measure                                               *)

Types == DOMAIN Lasts
Questions == [type : Types, left : Nat \ {0}]
Askers == [since : Nat, type : Types \cup {"none"}, picked : [Asking -> Nat], event : Nat, open : SUBSET Questions]

\* What is on the page the generator remembers as open, and the hour since a WANTED
\* EVENT it counts from no earlier than the page does.
OffersInv ==
  /\ asker \in Askers /\ sinceEvent \in 0 .. EventEvery
  /\ IsFiniteSet(asker.open) /\ Cardinality(asker.open) <= MaxOpen
  /\ page \subseteq asker.open /\ asker.event <= sinceEvent

LEMMA OpeningIs ==
    ASSUME NEW t \in Asking
    PROVE  Opening(t) \in Questions
  BY CatalogIsBuilt DEF Opening, Questions, Types, Lasts

\* Nothing is open that has no time left.
LEMMA OpenIsOpen ==
    ASSUME NEW open, open \subseteq Questions
    PROVE  StillOpen(open) = open
  BY DEF StillOpen, Questions

\* A minute opens nothing.
LEMMA MinuteOpensNothing ==
    ASSUME NEW open, open \subseteq Questions, IsFiniteSet(open)
    PROVE  /\ StillOpen(Aged(open)) \subseteq Questions /\ IsFiniteSet(StillOpen(Aged(open)))
           /\ Cardinality(StillOpen(Aged(open))) <= Cardinality(open)
  <1> DEFINE older == [q \in open |-> [q EXCEPT !.left = IF @ > 0 THEN @ - 1 ELSE 0]]
  <1>1. Aged(open) = {older[q] : q \in open}
    BY DEF Aged
  <1>2. older \in Surjection(open, Aged(open))
    BY <1>1 DEF Surjection
  <1>. HIDE DEF older
  <1>3. IsFiniteSet(Aged(open)) /\ Cardinality(Aged(open)) <= Cardinality(open)
    BY <1>2, FS_Surjection
  <1>4. StillOpen(Aged(open)) \subseteq Aged(open)
    BY DEF StillOpen
  <1>5. IsFiniteSet(StillOpen(Aged(open))) /\ Cardinality(StillOpen(Aged(open))) <= Cardinality(Aged(open))
    BY <1>3, <1>4, FS_Subset
  <1>6. StillOpen(Aged(open)) \subseteq Questions
    <2> SUFFICES ASSUME NEW q \in open, [q EXCEPT !.left = IF @ > 0 THEN @ - 1 ELSE 0].left > 0
                 PROVE  [q EXCEPT !.left = IF @ > 0 THEN @ - 1 ELSE 0] \in Questions
      BY DEF StillOpen, Aged
    <2>1. q \in Questions
      OBVIOUS
    <2>2. q.left \in Nat \ {0}
      BY <2>1 DEF Questions
    <2>3. [q EXCEPT !.left = IF @ > 0 THEN @ - 1 ELSE 0] = [q EXCEPT !.left = q.left - 1]
      BY <2>2
    <2>4. [q EXCEPT !.left = q.left - 1].left = q.left - 1
      BY <2>1 DEF Questions
    <2>5. q.left - 1 \in Nat \ {0}
      BY <2>2, <2>3, <2>4
    <2>. QED BY <2>1, <2>3, <2>5 DEF Questions
  <1>7. Cardinality(open) \in Nat /\ Cardinality(Aged(open)) \in Nat
        /\ Cardinality(StillOpen(Aged(open))) \in Nat
    BY <1>3, <1>5, FS_CardinalityType
  <1>. QED BY <1>3, <1>5, <1>6, <1>7

LEMMA OffersInitial == OffersInit => OffersInv
  <1> SUFFICES ASSUME OffersInit PROVE OffersInv
    OBVIOUS
  <1>1. IsFiniteSet({}) /\ Cardinality({}) = 0
    BY FS_EmptySet
  <1>2. /\ asker.open = {} /\ page = {} /\ asker.event = EventEvery /\ sinceEvent = EventEvery
    BY DEF OffersInit
  <1>3. {MaxOpen, RoundEvery, EventEvery} \subseteq Nat /\ TypeCooldown \in Nat
    BY OffersConstants DEF TypeCooldown
  <1>4. asker \in Askers
    BY <1>3 DEF OffersInit, Askers
  <1>. QED BY <1>1, <1>2, <1>3, <1>4 DEF OffersInv

\* What the cap and the page need of any step.
LEMMA StaysMeasured ==
    ASSUME OffersInv, OffersInv',
           Cardinality(page') <= Cardinality(page) \/ asker'.type \notin WantedEvents \/ sinceEvent = EventEvery
    PROVE  Measured
  <1>1. page \subseteq Questions /\ page' \subseteq Questions
    BY DEF OffersInv, Askers
  <1>2. StillOpen(page) = page /\ StillOpen(page') = page'
    BY <1>1, OpenIsOpen
  <1>3. IsFiniteSet(page) /\ IsFiniteSet(page') /\ Cardinality(page') <= Cardinality(asker'.open)
    BY FS_Subset DEF OffersInv
  <1>4. /\ Cardinality(page) \in Nat /\ Cardinality(page') \in Nat /\ Cardinality(asker'.open) \in Nat
    BY <1>3, FS_CardinalityType DEF OffersInv
  <1>5. Cardinality(page') <= MaxOpen
    BY <1>3, <1>4, OffersConstants DEF OffersInv
  <1>. QED BY <1>2, <1>4, <1>5 DEF Measured

\* One question more is one within the cap, and no WANTED EVENT before its hour.
LEMMA OffersOne ==
    ASSUME OffersInv, NEW m, NEW t \in Asking, NEW raised, Offer(m, t, raised)
    PROVE  OffersInv' /\ Measured
  <1>1. asker \in Askers /\ asker.open \subseteq Questions /\ StillOpen(asker.open) = asker.open
    BY OpenIsOpen DEF OffersInv, Askers
  <1>2. page \subseteq Questions /\ StillOpen(page) = page
    BY <1>1, OpenIsOpen DEF OffersInv
  <1> DEFINE open == asker.open \cup {Opening(t)}
  <1>3. t \in Types /\ Opening(t) \in Questions /\ IsFiniteSet(open) /\ Cardinality(open) <= MaxOpen
    <2>1. Cardinality(asker.open) < MaxOpen
      BY <1>1 DEF Offer, May
    <2>2. Cardinality(asker.open) \in Nat /\ MaxOpen \in Nat
      BY FS_CardinalityType, OffersConstants DEF OffersInv
    <2>3. IsFiniteSet(open) /\ Cardinality(open) <= Cardinality(asker.open) + 1
      <3>1. IsFiniteSet(asker.open)
        BY DEF OffersInv
      <3>2. /\ IsFiniteSet(open)
            /\ Cardinality(open) = IF Opening(t) \in asker.open THEN Cardinality(asker.open)
                                   ELSE Cardinality(asker.open) + 1
        BY <3>1, FS_AddElement
      <3>. QED BY <2>2, <3>2
    <2>4. Cardinality(open) \in Nat
      BY <2>3, FS_CardinalityType
    <2>. QED BY <2>1, <2>2, <2>3, <2>4, OpeningIs, CatalogIsBuilt DEF Types
  <1>4. Asked(t) \in Askers /\ Asked(t).open = open /\ Asked(t).type = t
        /\ Asked(t).event = IF t \in WantedEvents THEN 0 ELSE asker.event
    <2>1. (IF t \in WantedEvents THEN 0 ELSE asker.event) \in Nat /\ open \subseteq Questions
      BY <1>1, <1>3 DEF Askers
    <2>2. [asker.picked EXCEPT ![t] = 0] \in [Asking -> Nat]
      BY <1>1 DEF Askers
    <2>. QED BY <1>1, <1>3, <2>1, <2>2 DEF Asked, Askers
  <1>. HIDE DEF open
  <1>5. CASE raised = "building"
    <2>1. asker' = [asker EXCEPT !.open = asker.open] /\ page' = page /\ sinceEvent' = sinceEvent
      BY <1>1, <1>5 DEF Offer
    <2>2. asker' = asker
      BY <1>1, <2>1 DEF Askers
    <2>3. OffersInv'
      BY <2>1, <2>2 DEF OffersInv
    <2>4. Cardinality(page) \in Nat
      BY FS_Subset, FS_CardinalityType DEF OffersInv
    <2>. QED BY <2>1, <2>3, <2>4, StaysMeasured
  <1>6. CASE raised # "building" /\ raised # "nothing"
    <2>1. asker' = Asked(t) /\ page' = page /\ sinceEvent' = sinceEvent
      BY <1>6 DEF Offer
    <2>2. asker.event <= sinceEvent /\ page \subseteq asker.open /\ sinceEvent \in 0 .. EventEvery
      BY DEF OffersInv
    <2>3. OffersInv'
      BY <1>3, <1>4, <2>1, <2>2, OffersConstants DEF OffersInv, open
    <2>4. Cardinality(page) \in Nat
      BY FS_Subset, FS_CardinalityType DEF OffersInv
    <2>. QED BY <2>1, <2>3, <2>4, StaysMeasured
  <1>7. CASE raised = "nothing"
    <2>1. /\ asker' = Asked(t) /\ page' = page \cup {Opening(t)}
          /\ sinceEvent' = IF t \in WantedEvents THEN 0 ELSE sinceEvent
      BY <1>2, <1>7 DEF Offer
    <2>2. asker.event <= sinceEvent /\ page \subseteq asker.open /\ sinceEvent \in 0 .. EventEvery
      BY DEF OffersInv
    <2>3. OffersInv'
      BY <1>3, <1>4, <2>1, <2>2, OffersConstants DEF OffersInv, open
    <2>4. t \in WantedEvents => sinceEvent = EventEvery
      <3>1. t \in WantedEvents => asker.event >= EventEvery
        BY DEF Offer, Candidates, Eligible, EventsOfferable
      <3>. QED BY <1>1, <2>2, <3>1, OffersConstants DEF Askers
    <2>. QED BY <1>4, <2>1, <2>3, <2>4, StaysMeasured
  <1>. QED BY <1>5, <1>6, <1>7

LEMMA OffersMinute ==
    ASSUME OffersInv, MinutePasses
    PROVE  OffersInv' /\ Measured
  <1>1. /\ asker' = [asker EXCEPT !.since = Grow(@, RoundEvery), !.event = Grow(@, EventEvery),
                        !.picked = [t \in Asking |-> Grow(@[t], TypeCooldown)],
                        !.open = StillOpen(Aged(asker.open))]
        /\ page' = StillOpen(Aged(page)) /\ sinceEvent' = Grow(sinceEvent, EventEvery)
    BY DEF MinutePasses
  <1>2. asker \in Askers /\ page \subseteq asker.open /\ page \subseteq Questions /\ asker.open \subseteq Questions
    BY DEF OffersInv, Askers
  <1>3. /\ StillOpen(Aged(asker.open)) \subseteq Questions /\ IsFiniteSet(StillOpen(Aged(asker.open)))
        /\ Cardinality(StillOpen(Aged(asker.open))) <= Cardinality(asker.open)
    BY <1>2, MinuteOpensNothing DEF OffersInv
  <1>4. IsFiniteSet(page)
    BY <1>2, FS_Subset DEF OffersInv
  <1>5. Cardinality(page') <= Cardinality(page)
    BY <1>1, <1>2, <1>4, MinuteOpensNothing
  <1>6. \A n \in Nat, top \in Nat : Grow(n, top) \in Nat
    BY DEF Grow
  <1>7. asker' \in Askers /\ asker'.open = StillOpen(Aged(asker.open)) /\ asker'.event = Grow(asker.event, EventEvery)
    <2>1. [t \in Asking |-> Grow(asker.picked[t], TypeCooldown)] \in [Asking -> Nat]
      BY <1>2, <1>6 DEF Askers, TypeCooldown
    <2>2. Grow(asker.since, RoundEvery) \in Nat /\ Grow(asker.event, EventEvery) \in Nat
      BY <1>2, <1>6, OffersConstants DEF Askers
    <2> DEFINE picked == [t \in Asking |-> Grow(asker.picked[t], TypeCooldown)]
    <2>3. asker' = [asker EXCEPT !.since = Grow(asker.since, RoundEvery), !.event = Grow(asker.event, EventEvery),
                       !.picked = picked, !.open = StillOpen(Aged(asker.open))]
      BY <1>1
    <2>4. picked \in [Asking -> Nat]
      BY <2>1
    <2>. HIDE DEF picked
    <2>. QED BY <1>2, <1>3, <2>2, <2>3, <2>4 DEF Askers
  <1>8. page' \subseteq asker'.open
    BY <1>1, <1>2, <1>7 DEF StillOpen, Aged
  <1>9. sinceEvent' \in 0 .. EventEvery /\ asker'.event <= sinceEvent'
    <2>1. EventEvery \in Nat /\ asker.event \in Nat /\ sinceEvent \in 0 .. EventEvery /\ asker.event <= sinceEvent
      BY <1>2, OffersConstants DEF OffersInv, Askers
    <2>2. Grow(sinceEvent, EventEvery) \in 0 .. EventEvery
          /\ Grow(asker.event, EventEvery) <= Grow(sinceEvent, EventEvery)
      BY <2>1 DEF Grow
    <2>. QED BY <1>1, <1>7, <2>2
  <1>10. Cardinality(asker'.open) <= MaxOpen
    <2>1. Cardinality(asker.open) \in Nat /\ Cardinality(asker'.open) \in Nat
      BY <1>3, <1>7, FS_CardinalityType DEF OffersInv
    <2>. QED BY <1>3, <1>7, <2>1, OffersConstants DEF OffersInv
  <1>11. OffersInv'
    BY <1>3, <1>7, <1>8, <1>9, <1>10 DEF OffersInv
  <1>. QED BY <1>5, <1>11, StaysMeasured

LEMMA OffersStep == OffersInv /\ [OffersNext]_offersVars => OffersInv' /\ [Measured]_offersVars
  <1> SUFFICES ASSUME OffersInv, [OffersNext]_offersVars
               PROVE  OffersInv' /\ [Measured]_offersVars
    OBVIOUS
  <1>1. ASSUME NEW refused \in BOOLEAN, Flush(refused)
        PROVE  OffersInv' /\ Measured
    <2>1. asker' = asker /\ page' = page /\ sinceEvent' = sinceEvent
      BY <1>1 DEF Flush
    <2>2. OffersInv'
      BY <2>1 DEF OffersInv
    <2>3. Cardinality(page) \in Nat
      BY FS_Subset, FS_CardinalityType DEF OffersInv
    <2>. QED BY <2>1, <2>2, <2>3, StaysMeasured
  <1>2. CASE UNCHANGED offersVars
    BY <1>2 DEF offersVars, OffersInv
  <1>. QED BY <1>1, <1>2, OffersOne, OffersMinute DEF OffersNext

\* What a process puts on the page is rationed, for every cap and spacing, whatever
\* the writer did to the questions in between.
THEOREM QuestionsStayMeasured == OffersSpec => AskedInMeasure
  <1>. QED BY OffersInitial, OffersStep, PTL DEF OffersSpec, AskedInMeasure

-----------------------------------------------------------------------------
(* The bill of the brain: what an hour can cost                              *)

Costs == [Ages -> Nat]

\* A decision begins below the cap, and is asked for twice at most.
Allowance == IF call = 0 THEN 2 * Dearest ELSE IF call = 1 THEN 0 ELSE Dearest

\* The governor has noted all that is billed, so below the cap by its book is below
\* the cap.
BrainInv ==
  /\ purse.spend \in Costs /\ bill \in Costs /\ call \in 0 .. 2
  /\ \A a \in Ages : bill[a] <= purse.spend[a]
  /\ Spent(bill) < HourlyCap + Allowance

LEMMA AgesAre == IsFiniteSet(Ages) /\ 0 \in Ages /\ Ages \subseteq Nat
  <1>1. \A a, b \in Int : IsFiniteSet(a .. b)
    BY FS_Interval
  <1>2. HourLong - 1 \in Nat
    BY BrainConstants
  <1>. QED BY <1>1, <1>2 DEF Ages

LEMMA SpentIs ==
    ASSUME NEW c \in Costs
    PROVE  /\ Spent(c) = Total(c, Ages) /\ Spent(c) \in Nat
           /\ Counts(c, Ages)
  <1>1. Counts(c, Ages)
    BY DEF Costs, Counts
  <1>2. Spent(c) = Total(c, Ages)
    BY DEF Spent, Total
  <1>. QED BY <1>1, <1>2, AgesAre, TotalType

LEMMA SpentGrows ==
    ASSUME NEW b \in Costs, NEW c \in Costs, \A a \in Ages : b[a] <= c[a]
    PROVE  Spent(b) <= Spent(c)
  BY AgesAre, SpentIs, TotalGrows

\* A cost noted is a cost spent.
LEMMA SpentNoted ==
    ASSUME NEW c \in Costs, NEW cost \in Nat
    PROVE  Noted(c, cost) \in Costs /\ Spent(Noted(c, cost)) = Spent(c) + cost
  <1> DEFINE d == Noted(c, cost)
  <1>1. d \in Costs /\ d[0] = c[0] + cost /\ \A a \in Ages \ {0} : c[a] = d[a]
    BY AgesAre DEF Noted, Costs
  <1>. HIDE DEF d
  <1>2. Total(d, Ages) + c[0] = Total(c, Ages) + d[0]
    <2>1. Counts(c, Ages) /\ Counts(d, Ages)
      BY <1>1, SpentIs
    <2>2. IsFiniteSet(Ages) /\ 0 \in Ages
      BY AgesAre
    <2>3. \A y \in Ages \ {0} : c[y] = d[y]
      BY <1>1
    <2>. QED BY <2>1, <2>2, <2>3, TotalChanged
  <1>3. Spent(d) = Spent(c) + cost
    <2>1. c[0] \in Nat
      BY AgesAre DEF Costs
    <2>. QED BY <1>1, <1>2, <2>1, SpentIs
  <1>. QED BY <1>1, <1>3 DEF d

\* An hour that goes on forgets: what it has left of its spend is no more.
LEMMA SpentLapsed ==
    ASSUME NEW c \in Costs
    PROVE  Lapsed(c) \in Costs /\ Spent(Lapsed(c)) <= Spent(c)
  <1> DEFINE d == Lapsed(c)
             old == Ages \ {HourLong - 1}
             next == [a \in old |-> a + 1]
  <1>1. HourLong \in Nat \ {0}
    BY BrainConstants
  <1>2. d \in Costs /\ d[0] = 0 /\ \A a \in old : d[next[a]] = c[a]
    BY <1>1 DEF Lapsed, Costs, Ages
  <1>3. Ages \ {0} = {next[a] : a \in old}
    <2>1. \A a \in Ages \ {0} : a - 1 \in old /\ a = next[a - 1]
      BY <1>1 DEF Ages
    <2>2. \A a \in old : next[a] \in Ages \ {0}
      BY <1>1 DEF Ages
    <2>3. Ages \ {0} \subseteq {next[a] : a \in old}
      <3> SUFFICES ASSUME NEW a \in Ages \ {0} PROVE a \in {next[b] : b \in old}
        OBVIOUS
      <3>1. a - 1 \in old /\ a = next[a - 1]
        BY <2>1
      <3>. HIDE DEF old, next
      <3>. QED BY <3>1
    <2>. QED BY <2>2, <2>3
  <1>4. \A a, b \in old : next[a] = next[b] => a = b
    BY <1>1 DEF Ages
  <1>5. IsFiniteSet(old) /\ Counts(c, old) /\ HourLong - 1 \in Ages
    BY <1>1, AgesAre, FS_Subset DEF Counts, Costs, Ages
  <1>. HIDE DEF d, old, next
  <1>6. Total(d, {next[a] : a \in old}) = Total(c, old)
    BY <1>2, <1>4, <1>5, TotalMoved
  <1>7. Total(d, Ages) = d[0] + Total(d, Ages \ {0})
    BY <1>2, AgesAre, SpentIs, TotalWithout
  <1>8. Total(c, Ages) = c[HourLong - 1] + Total(c, Ages \ {HourLong - 1})
    BY <1>5, AgesAre, SpentIs, TotalWithout
  <1>9. Total(c, old) \in Nat /\ c[HourLong - 1] \in Nat /\ old = Ages \ {HourLong - 1}
    BY <1>5, TotalType DEF Costs, old
  <1>10. Spent(d) <= Spent(c)
    <2>1. Total(d, Ages) = Total(c, old)
      <3>1. Total(d, Ages \ {0}) = Total(c, old)
        BY <1>3, <1>6, Zenon
      <3>. QED BY <1>2, <1>7, <1>9, <3>1
    <2>2. Total(c, Ages) = c[HourLong - 1] + Total(c, old)
      BY <1>8, <1>9
    <2>3. Spent(d) = Total(d, Ages) /\ Spent(c) = Total(c, Ages)
      BY <1>2, SpentIs
    <2>. QED BY <1>9, <2>1, <2>2, <2>3
  <1>. QED BY <1>2, <1>10 DEF d

LEMMA DearestIs == Dearest \in CallCosts /\ \A c \in CallCosts : c \in Nat /\ c <= Dearest
  <1>1. \E m \in CallCosts : \A x \in CallCosts : x <= m
    BY BrainConstants, LargestExists
  <1>. QED BY <1>1, BrainConstants DEF Dearest

\* Below the governor's third level, its hour is below the cap.
LEMMA LevelThree ==
    ASSUME NEW spend \in Nat, ThrottleFor(spend) < 3
    PROVE  spend < HourlyCap
  <1> SUFFICES ASSUME spend >= HourlyCap PROVE FALSE
    BY BrainConstants
  <1>1. \A t \in {7, 9, 10} : spend * 10 >= t * HourlyCap
    BY BrainConstants
  <1>2. {t \in {7, 9, 10} : spend * 10 >= t * HourlyCap} = {7, 9, 10}
    BY <1>1
  <1>3. Cardinality({7, 9, 10}) = 3
    <2>1. IsFiniteSet({7}) /\ Cardinality({7}) = 1
      BY FS_Singleton
    <2>2. IsFiniteSet({7} \cup {9}) /\ Cardinality({7} \cup {9}) = 2
      BY <2>1, FS_AddElement
    <2>3. Cardinality(({7} \cup {9}) \cup {10}) = 3
      BY <2>2, FS_AddElement
    <2>4. ({7} \cup {9}) \cup {10} = {7, 9, 10}
      OBVIOUS
    <2>. QED BY <2>3, <2>4
  <1>. QED BY <1>2, <1>3 DEF ThrottleFor

LEMMA BrainInitial == BrainInit => BrainInv
  <1> SUFFICES ASSUME BrainInit PROVE BrainInv
    OBVIOUS
  <1>1. bill \in Costs /\ purse.spend \in Costs /\ \A a \in Ages : bill[a] = 0 /\ purse.spend[a] = 0
    BY DEF BrainInit, Costs
  <1>2. Spent(bill) = 0
    BY <1>1, AgesAre, SpentIs, TotalNothing
  <1>. QED BY <1>1, <1>2, DearestIs, BrainConstants DEF BrainInit, BrainInv, Allowance

\* An iteration calls somebody only below the governor's third level.
LEMMA BrainIterates ==
    ASSUME BrainInv, NEW down \in BOOLEAN, NEW busy \in BOOLEAN, NEW trigger \in BOOLEAN,
           Iterate(down, busy, trigger)
    PROVE  BrainInv'
  <1> DEFINE p == Leveled(purse.spend)
             director == ~down /\ DirectorFires(p, trigger)
             tactical == ~down /\ ~director /\ ~busy /\ TacticalFires(p, trigger)
  <1>1. p.spend = purse.spend /\ p.level = ThrottleFor(Spent(purse.spend))
    BY DEF Leveled
  <1>2. /\ call = 0 /\ purse' = p /\ bill' = bill
        /\ director \/ tactical => call' \in {0, 1}
        /\ ~director /\ ~tactical => call' = call
    BY DEF Iterate, Asks
  <1>3. director \/ tactical => p.level < 3
    <2>1. p.level \in Nat
      <3>1. IsFiniteSet({7, 9, 10})
        <4>1. IsFiniteSet({7})
          BY FS_Singleton
        <4>2. IsFiniteSet({7} \cup {9})
          BY <4>1, FS_AddElement
        <4>3. IsFiniteSet(({7} \cup {9}) \cup {10}) /\ ({7} \cup {9}) \cup {10} = {7, 9, 10}
          BY <4>2, FS_AddElement
        <4>. QED BY <4>3
      <3>. QED BY <1>1, <3>1, FS_Subset, FS_CardinalityType DEF ThrottleFor
    <2>. HIDE DEF p
    <2>. QED BY <2>1 DEF DirectorFires, TacticalFires
  <1>4. Spent(purse.spend) \in Nat /\ Spent(bill) \in Nat /\ Spent(bill) <= Spent(purse.spend)
    BY SpentIs, SpentGrows DEF BrainInv
  <1>5. director \/ tactical => Spent(bill) < HourlyCap
    <2>1. director \/ tactical => ThrottleFor(Spent(purse.spend)) < 3
      BY <1>1, <1>3
    <2>2. director \/ tactical => Spent(purse.spend) < HourlyCap
      BY <2>1, <1>4, LevelThree
    <2>. HIDE DEF director, tactical
    <2>. QED BY <1>4, <2>2, BrainConstants
  <1>. HIDE DEF p, director, tactical
  <1>6. CASE director \/ tactical
    BY <1>1, <1>2, <1>4, <1>5, <1>6, DearestIs, BrainConstants DEF BrainInv, Allowance
  <1>7. CASE ~director /\ ~tactical
    BY <1>1, <1>2, <1>7 DEF BrainInv, Allowance
  <1>. QED BY <1>6, <1>7

\* An answer is billed, and noted, before anything else is made of it.
LEMMA BrainIsAnswered ==
    ASSUME BrainInv, NEW outcome \in Verdicts, NEW cost \in CallCosts, Answered(outcome, cost)
    PROVE  BrainInv'
  <1>1. /\ call > 0 /\ bill' = Noted(bill, cost) /\ purse'.spend = Noted(purse.spend, cost)
        /\ call' = 0 \/ (call = 1 /\ call' = 2)
    BY DEF Answered, NotedOnArrival, Leveled, Concluded
  <1>2. cost \in Nat /\ cost <= Dearest /\ Dearest \in Nat /\ HourlyCap \in Nat
    BY DearestIs, BrainConstants
  <1>3. /\ bill' \in Costs /\ Spent(bill') = Spent(bill) + cost
        /\ purse'.spend \in Costs
    BY <1>1, <1>2, SpentNoted DEF BrainInv
  <1>4. \A a \in Ages : bill'[a] <= purse'.spend[a]
    BY <1>1, <1>2 DEF BrainInv, Noted, Costs
  <1>5. Spent(bill) \in Nat /\ call \in {1, 2} /\ call' \in 0 .. 2
    BY <1>1, SpentIs DEF BrainInv
  <1>6. Spent(bill') < HourlyCap + Allowance'
    BY <1>1, <1>2, <1>3, <1>5 DEF BrainInv, Allowance
  <1>. QED BY <1>3, <1>4, <1>5, <1>6 DEF BrainInv

LEMMA BrainStep == BrainInv /\ [BrainNext]_brainVars => BrainInv'
  <1> SUFFICES ASSUME BrainInv, [BrainNext]_brainVars
               PROVE  BrainInv'
    OBVIOUS
  <1>1. ASSUME NEW down \in BOOLEAN, NEW busy \in BOOLEAN, NEW trigger \in BOOLEAN,
               Iterate(down, busy, trigger)
        PROVE  BrainInv'
    BY <1>1, BrainIterates
  <1>2. ASSUME NEW lost \in BOOLEAN, VisionRead(lost)
        PROVE  BrainInv'
    <2>1. /\ bill' = bill /\ call' = call
          /\ purse'.spend = purse.spend \/ purse'.spend = Noted(purse.spend, ReadCost)
      BY <1>2 DEF VisionRead, Leveled
    <2>2. ReadCost \in Nat
      BY BrainConstants
    <2>3. /\ purse'.spend \in Costs /\ \A a \in Ages : purse.spend[a] <= purse'.spend[a]
      <3>1. \A a \in Ages : purse.spend[a] <= Noted(purse.spend, ReadCost)[a]
        BY <2>2 DEF BrainInv, Noted, Costs
      <3>2. \A a \in Ages : purse.spend[a] <= purse.spend[a]
        BY DEF BrainInv, Costs
      <3>3. Noted(purse.spend, ReadCost) \in Costs
        BY <2>2, SpentNoted DEF BrainInv
      <3>. QED BY <2>1, <3>1, <3>2, <3>3 DEF BrainInv
    <2>4. \A a \in Ages : bill'[a] <= purse'.spend[a]
      BY <2>1, <2>3 DEF BrainInv, Costs
    <2>. QED BY <2>1, <2>3, <2>4 DEF BrainInv, Allowance
  <1>3. ASSUME NEW outcome \in Verdicts, NEW cost \in CallCosts, Answered(outcome, cost)
        PROVE  BrainInv'
    BY <1>3, BrainIsAnswered
  <1>4. ASSUME NEW error \in ApiErrors, Unanswered(error)
        PROVE  BrainInv'
    <2>1. /\ purse' = purse /\ bill' = bill
          /\ call' = 0 \/ (call = 1 /\ call' = 2)
      BY <1>4 DEF Unanswered, Concluded
    <2>2. Spent(bill) \in Nat
      BY SpentIs DEF BrainInv
    <2>. QED BY <2>1, <2>2, DearestIs, BrainConstants DEF BrainInv, Allowance
  <1>5. CASE UnitPasses
    <2>1. /\ purse'.spend = Lapsed(purse.spend) /\ bill' = Lapsed(bill) /\ call' = call
      BY <1>5 DEF UnitPasses, BrainInv
    <2>2. /\ bill' \in Costs /\ purse'.spend \in Costs /\ Spent(bill') <= Spent(bill)
          /\ Spent(bill') \in Nat /\ Spent(bill) \in Nat
      BY <2>1, SpentLapsed, SpentIs DEF BrainInv
    <2>3. \A a \in Ages : bill'[a] <= purse'.spend[a]
      <3>1. \A a \in Ages \ {0} : a - 1 \in Ages
        BY BrainConstants DEF Ages
      <3>. QED BY <2>1, <3>1 DEF BrainInv, Lapsed, Costs
    <2>. QED BY <2>1, <2>2, <2>3, DearestIs, BrainConstants DEF BrainInv, Allowance
  <1>6. CASE BigEvent
    BY <1>6 DEF BigEvent, BrainInv, Allowance
  <1>7. CASE UNCHANGED brainVars
    BY <1>7 DEF brainVars, BrainInv, Allowance
  <1>. QED BY <1>1, <1>2, <1>3, <1>4, <1>5, <1>6, <1>7 DEF BrainNext, Attempt

\* The safety half of SpendIsBounded.
SpendUnderCap == Spent(bill) < HourlyCap + 2 * Dearest

\* What decisions are billed in an hour stays below the cap but for the decision that
\* was under way when it was reached: the safety half of SpendIsBounded, for every
\* cap, division of the hour and price.
THEOREM SpendStaysUnderCap == BrainSpec => []SpendUnderCap
  <1>1. BrainInv => SpendUnderCap
    <2> SUFFICES ASSUME BrainInv PROVE SpendUnderCap
      OBVIOUS
    <2>1. Spent(bill) \in Nat
      BY SpentIs DEF BrainInv
    <2>. QED BY <2>1, DearestIs, BrainConstants DEF BrainInv, Allowance, SpendUnderCap
  <1>. QED BY <1>1, BrainInitial, BrainStep, PTL DEF BrainSpec

-----------------------------------------------------------------------------
(* Refusals: a task is stopped only when it had its whole window            *)

TaskTypes == Kinds \cup {"none"}
TasksSeen == [type : TaskTypes, status : Afterwards]
Stalls == [anchored : BOOLEAN, still : 0 .. StallWindow, knows : BOOLEAN,
           since : 0 .. StallGap, type : TaskTypes, left : Nat]

\* The detector's window is no longer than the task has really stood still in it.
StallInv ==
  /\ task \in TasksSeen /\ stall \in Stalls /\ stood \in Nat
  /\ stall.anchored /\ stall.knows => stood >= stall.still

LEMMA StallInitial == RefusalsInit => StallInv
  BY DEF RefusalsInit, StallInv, Stalls, StallGap, StallWindow, TasksSeen, TaskTypes, NoTask, Afterwards

LEMMA StallFedType ==
    ASSUME StallInv, NEW g
    PROVE  StallFed(g) \in Stalls
  <1>1. stall \in Stalls /\ task.type \in TaskTypes
    BY DEF StallInv, TasksSeen
  <1>2. 0 \in 0 .. StallWindow /\ 0 \in 0 .. StallGap /\ StallBlock \in Nat
    BY DEF StallWindow, StallGap, StallBlock
  <1>3. [stall EXCEPT !.anchored = FALSE] \in Stalls
    BY <1>1 DEF Stalls
  <1>4. [stall EXCEPT !.anchored = TRUE, !.still = 0, !.knows = TRUE] \in Stalls
    BY <1>1, <1>2 DEF Stalls
  <1>5. [stall EXCEPT !.still = 0, !.since = 0, !.type = task.type, !.left = StallBlock] \in Stalls
    BY <1>1, <1>2 DEF Stalls
  <1>. QED BY <1>1, <1>3, <1>4, <1>5 DEF StallFed

\* What every poll leaves, whatever it posts.
LEMMA StallSettles ==
    ASSUME StallInv, NEW g, NEW i, NEW t \in Kinds \cup {"stop", "none"}, NEW who, NEW status \in Afterwards,
           Settles(g, StallFed(g), i, t, who, status)
    PROVE  StallInv'
  <1>1. StallFed(g) \in Stalls
    BY StallFedType
  <1>2. \A n \in Nat : Less(n) \in Nat
    BY DEF Less
  <1>3. /\ stall' = [StallFed(g) EXCEPT !.knows = @ /\ who = "none", !.since = Upto(@, StallGap),
                       !.left = Less(@), !.still = IF StallFed(g).anchored THEN Upto(@, StallWindow) ELSE @]
        /\ stood' = IF who = "none" /\ Watching(g) THEN IF g.moved THEN 1 ELSE Upto(stood, StallWindow) ELSE 0
    BY DEF Settles
  <1>4. stall' \in Stalls
    <2> DEFINE s == StallFed(g)
    <2>1. s \in Stalls
      BY <1>1
    <2>. HIDE DEF s
    <2>2. /\ (s.knows /\ who = "none") \in BOOLEAN
          /\ Upto(s.since, StallGap) \in 0 .. StallGap /\ Less(s.left) \in Nat
          /\ (IF s.anchored THEN Upto(s.still, StallWindow) ELSE s.still) \in 0 .. StallWindow
      BY <2>1, <1>2 DEF Stalls, Upto, StallWindow, StallGap
    <2>3. stall' = [s EXCEPT !.knows = s.knows /\ who = "none", !.since = Upto(s.since, StallGap),
                       !.left = Less(s.left), !.still = IF s.anchored THEN Upto(s.still, StallWindow) ELSE s.still]
      BY <1>3 DEF s
    <2>. QED BY <2>1, <2>2, <2>3 DEF Stalls
  <1>5. stood' \in Nat
    BY <1>3 DEF StallInv, Upto, StallWindow
  <1>6. task' \in TasksSeen
    BY DEF Settles, StallInv, TasksSeen, TaskTypes, NoTask, Afterwards
  <1>7. ASSUME stall'.anchored, stall'.knows
        PROVE  stood' >= stall'.still
    <2>1. /\ who = "none" /\ StallFed(g).anchored /\ StallFed(g).knows
          /\ stall'.still = Upto(StallFed(g).still, StallWindow)
      BY <1>1, <1>3, <1>7 DEF Stalls
    <2>2. Watching(g)
      <3>1. stall \in Stalls
        BY DEF StallInv
      <3>2. ~[stall EXCEPT !.anchored = FALSE].anchored
        BY <3>1 DEF Stalls
      <3>. QED BY <2>1, <3>2 DEF StallFed, Intervenes
    <2>3. /\ stood \in Nat /\ stall.still \in 0 .. 2 /\ stall \in Stalls
          /\ stood' = IF g.moved THEN 1 ELSE IF stood < 2 THEN stood + 1 ELSE 2
          /\ stall'.still = IF StallFed(g).still < 2 THEN StallFed(g).still + 1 ELSE 2
      <3>1. stood \in Nat /\ stall.still \in 0 .. 2 /\ stall \in Stalls
        BY DEF StallInv, Stalls, StallWindow
      <3>2. stood' = IF g.moved THEN 1 ELSE Upto(stood, StallWindow)
        BY <1>3, <2>1, <2>2
      <3>3. \A n : Upto(n, StallWindow) = IF n < 2 THEN n + 1 ELSE 2
        BY Zenon DEF Upto, StallWindow
      <3>4. stall'.still = Upto(StallFed(g).still, StallWindow)
        BY <2>1
      <3>5. stall'.still = IF StallFed(g).still < 2 THEN StallFed(g).still + 1 ELSE 2
        BY <3>3, <3>4, Zenon
      <3>6. stood' = IF g.moved THEN 1 ELSE IF stood < 2 THEN stood + 1 ELSE 2
        BY <3>2, <3>3, Zenon
      <3>. QED BY <3>1, <3>5, <3>6
    <2>4. CASE SameAnchor(g) /\ ~Intervenes(g)
      <3>1. StallFed(g) = stall /\ ~g.moved /\ stood >= stall.still
        BY <2>2, <2>4 DEF StallFed, SameAnchor, StallInv
      <3>. QED BY <3>1, <2>3
    <2>5. CASE ~SameAnchor(g) \/ Intervenes(g)
      <3>1. /\ [stall EXCEPT !.anchored = TRUE, !.still = 0, !.knows = TRUE].still = 0
            /\ [stall EXCEPT !.still = 0, !.since = 0, !.type = task.type, !.left = StallBlock].still = 0
        BY <2>3 DEF Stalls
      <3>2. StallFed(g).still = 0
        BY <2>2, <2>5, <3>1 DEF StallFed, Intervenes
      <3>. QED BY <3>2, <2>3
    <2>. QED BY <2>4, <2>5
  <1>. QED BY <1>4, <1>5, <1>6, <1>7 DEF StallInv

LEMMA StallStep == StallInv /\ [RefusalsNext]_refusalsVars => StallInv' /\ [StopsAreEarned]_refusalsVars
  <1> SUFFICES ASSUME StallInv, [RefusalsNext]_refusalsVars
               PROVE  StallInv' /\ [StopsAreEarned]_refusalsVars
    OBVIOUS
  <1>1. ASSUME NEW g \in Glances, StopTheTask(g)
        PROVE  StallInv' /\ StopsAreEarned
    <2>1. PICK i \in {idle, Consulted(g)} : Settles(g, StallFed(g), i, "stop", "stall", "idle")
      BY <1>1 DEF StopTheTask
    <2>2. StallInv'
      BY <2>1, StallSettles DEF Afterwards
    <2>3. stood >= StallWindow
      BY <1>1 DEF StopTheTask, Intervenes, SameAnchor, StallInv, Stalls, StallWindow
    <2>. QED BY <2>2, <2>3 DEF StopsAreEarned
  <1>2. ASSUME NEW g \in Glances, NEW status \in Afterwards, OthersAct(g, "walk_to", status)
        PROVE  StallInv' /\ posted'.who # "stall"
    <2>1. CASE Settles(g, StallFed(g), idle, "walk_to", "other", status)
      BY <2>1, StallSettles DEF Settles, Kinds
    <2>2. CASE Settles(g, StallFed(g), idle, "none", "none", status)
      BY <2>2, StallSettles DEF Settles
    <2>. QED BY <1>2, <2>1, <2>2 DEF OthersAct
  <1>3. ASSUME NEW g \in Glances, NEW status \in Afterwards, BreakerAsked(g, status)
        PROVE  StallInv' /\ posted'.who # "stall"
    <2> DEFINE i == IF g.calm THEN Consulted(g) ELSE idle
               t == RungType(g, IdleSeen(g).rung)
    <2>1. Settles(g, StallFed(g), i, t, "breaker", status) \/ Settles(g, StallFed(g), i, "none", "none", status)
      BY <1>3 DEF BreakerAsked
    <2>2. t \in Kinds
      BY DEF RungType, Kinds
    <2>. HIDE DEF i, t
    <2>3. CASE Settles(g, StallFed(g), i, t, "breaker", status)
      BY <2>2, <2>3, StallSettles DEF Settles
    <2>4. CASE Settles(g, StallFed(g), i, "none", "none", status)
      BY <2>4, StallSettles DEF Settles
    <2>. QED BY <2>1, <2>3, <2>4
  <1>4. CASE UNCHANGED refusalsVars
    BY <1>4 DEF refusalsVars, StallInv
  <1>. QED BY <1>1, <1>2, <1>3, <1>4 DEF RefusalsNext, StopsAreEarned

\* The detector takes a task away only when this task, and not the one before it, has
\* run for the whole window without moving him: the safety half of RefusalsLetHimAct.
THEOREM StopsStayEarned == RefusalsSpec => [][StopsAreEarned]_refusalsVars
  <1>. QED BY StallInitial, StallStep, PTL DEF RefusalsSpec

-----------------------------------------------------------------------------
(* Survival: an order the game is carrying out is not posted over itself     *)

OrderTypes == {"none", "drive_to", "wander_drive", "flee_police", "seek_cover", "flee_ped",
               "fight_ped", "fight_hated"}
Orders == [type : OrderTypes, at : {"none", "named", "near"}]

\* What runs is seen to run, or the latch remembers it for as long as a snapshot may
\* not show it; a task of another owner is none of survival's.
AtIt ==
  \/ slot.order.type = "drive_to"
  \/ glimpsed.type = slot.order.type
  \/ latch.order = slot.order /\ latch.age + late <= Lag

ThreatInv ==
  /\ slot \in [order : Orders, runs : BOOLEAN] /\ glimpsed \in Orders
  /\ latch \in [order : Orders, age : Nat] /\ late \in Nat
  /\ slot.runs => AtIt

\* Whatever survival orders, it is not the trip of a plan.
LEMMA SurvivalOrders ==
    ASSUME NEW s, NEW running
    PROVE  ThreatAction(s, running) \in Orders /\ ThreatAction(s, running).type # "drive_to"
  <1> DEFINE Own(o) == o \in Orders /\ o.type # "drive_to"
  <1>1. /\ Own(NoOrder) /\ Own(Order("wander_drive", "none")) /\ Own(Order("seek_cover", "none"))
        /\ Own(Order("flee_police", "none")) /\ Own(Order("flee_ped", "named"))
        /\ Own(Order("fight_ped", "named")) /\ Own(Order("fight_ped", "near"))
        /\ Own(Order("fight_hated", "none"))
    BY DEF NoOrder, Order, Orders, OrderTypes
  <1>. HIDE DEF Own
  <1>2. Own(BreakContact(s))
    BY <1>1 DEF BreakContact
  <1>3. Own(Outgunned(s)) /\ Own(Hurt(s)) /\ Own(Fight(s)) /\ Own(Otherwise(s))
    BY <1>1, <1>2 DEF Outgunned, Hurt, Fight, Otherwise
  <1>4. Own(Hostile(s, running))
    BY <1>1, <1>3 DEF Hostile
  <1>5. Own(ThreatAction(s, running))
    BY <1>1, <1>3, <1>4 DEF ThreatAction
  <1>. QED BY <1>5 DEF Own

LEMMA ThreatInitial == ThreatInit => ThreatInv
  BY HoldOutlastsLag DEF ThreatInit, ThreatInv, NoOrder, Orders, OrderTypes

LEMMA ThreatInvIsSafe == ThreatInv => NotAtItTwice
  <1> SUFFICES ASSUME ThreatInv, slot.runs, slot.order = ThreatAction(scene, glimpsed)
               PROVE  ~ShouldIssue(slot.order)
    BY DEF NotAtItTwice
  <1>1. slot.order.type # "drive_to"
    BY SurvivalOrders
  <1>. QED BY <1>1, HoldOutlastsLag DEF ThreatInv, AtIt, ShouldIssue

LEMMA ThreatStep == ThreatInv /\ [ThreatNext]_threatVars => ThreatInv'
  <1> SUFFICES ASSUME ThreatInv, [ThreatNext]_threatVars
               PROVE  ThreatInv'
    OBVIOUS
  <1>1. ASSUME NEW reached \in BOOLEAN, Decide(reached)
        PROVE  ThreatInv'
    <2> DEFINE o == ThreatAction(scene, glimpsed)
               sends == o # NoOrder /\ ShouldIssue(o) /\ reached
    <2>1. o \in Orders
      BY SurvivalOrders
    <2>2. /\ latch' = IF o # NoOrder THEN Latched(o, sends) ELSE latch
          /\ IF sends THEN slot' = [order |-> o, runs |-> TRUE] /\ late' = Lag ELSE UNCHANGED <<slot, late>>
          /\ UNCHANGED <<scene, glimpsed>>
      BY <1>1 DEF Decide
    <2>3. CASE sends
      <3>1. latch' = [order |-> o, age |-> 0] /\ slot' = [order |-> o, runs |-> TRUE] /\ late' = Lag
            /\ glimpsed' = glimpsed
        BY <2>2, <2>3 DEF Latched
      <3>. HIDE DEF o
      <3>. QED BY <2>1, <3>1, HoldOutlastsLag DEF ThreatInv, AtIt
    <2>4. CASE ~sends
      <3>1. latch' = latch /\ slot' = slot /\ late' = late /\ glimpsed' = glimpsed
        BY <2>2, <2>4 DEF Latched
      <3>. QED BY <3>1 DEF ThreatInv, AtIt
    <2>. QED BY <2>3, <2>4
  <1>2. ASSUME NEW s \in Situations, NEW next \in NextSlots, Passes(s, next)
        PROVE  ThreatInv'
    <2>1. /\ slot' = next /\ late' = IF late > 0 THEN late - 1 ELSE 0
          /\ glimpsed' = IF late > 0 THEN glimpsed ELSE IF next.runs THEN next.order ELSE NoOrder
          /\ latch' = [latch EXCEPT !.age = IF @ < LatchHold THEN @ + 1 ELSE @]
      BY <1>2 DEF Passes
    <2>2. /\ next \in [order : Orders, runs : BOOLEAN]
          /\ next.runs => next.order.type = "drive_to" \/ (slot.runs /\ next.order = slot.order)
      <3>1. next = slot \/ next = [slot EXCEPT !.runs = FALSE]
              \/ next = [order |-> Order("drive_to", "none"), runs |-> TRUE]
        BY <1>2 DEF NextSlots
      <3>2. Order("drive_to", "none") \in Orders /\ Order("drive_to", "none").type = "drive_to"
        BY DEF Order, Orders, OrderTypes
      <3>3. slot \in [order : Orders, runs : BOOLEAN]
        BY DEF ThreatInv
      <3>4. CASE next = slot
        BY <3>3, <3>4
      <3>5. CASE next = [slot EXCEPT !.runs = FALSE]
        BY <3>3, <3>5
      <3>6. CASE next = [order |-> Order("drive_to", "none"), runs |-> TRUE]
        BY <3>2, <3>6
      <3>. QED BY <3>1, <3>4, <3>5, <3>6
    <2>3. late' \in Nat /\ glimpsed' \in Orders /\ latch' \in [order : Orders, age : Nat]
      BY <2>1, <2>2, HoldOutlastsLag DEF ThreatInv, NoOrder, Orders, OrderTypes
    <2>4. ASSUME next.runs, next.order.type # "drive_to"
          PROVE  AtIt'
      <3>1. slot.runs /\ slot'.order = slot.order
        BY <2>1, <2>2, <2>4
      <3>2. CASE late = 0
        BY <2>1, <2>4, <3>1, <3>2 DEF AtIt, ThreatInv
      <3>3. CASE late > 0
        BY <2>1, <2>2, <2>4, <3>1, <3>3, HoldOutlastsLag DEF AtIt, ThreatInv
      <3>. QED BY <3>2, <3>3 DEF ThreatInv
    <2>. QED BY <2>1, <2>2, <2>3, <2>4 DEF ThreatInv, AtIt
  <1>3. CASE UNCHANGED threatVars
    BY <1>3 DEF threatVars, ThreatInv, AtIt
  <1>. QED BY <1>1, <1>2, <1>3 DEF ThreatNext, ThreatTurn

\* An order of survival's that the game is carrying out is not posted over itself,
\* though a snapshot may not show it yet: the safety half of SurvivalActs.
THEOREM OrdersRunOn == ThreatSpec => []NotAtItTwice
  <1>. QED BY ThreatInitial, ThreatStep, ThreatInvIsSafe, PTL DEF ThreatSpec

-----------------------------------------------------------------------------
(* The screen: keys go to a frozen game only                                 *)

Spans == 0 .. Never
Games == [ticks : BOOLEAN, cut : BOOLEAN, tick : {"later", "same", "earlier"}, still : Spans, keys : Nat]
Watches == [seen : BOOLEAN, age : Spans, cut : BOOLEAN, attempts : Nat, gap : Spans,
            gaveUp : BOOLEAN, blocked : BOOLEAN, job : BOOLEAN, pressed : BOOLEAN]

\* What the watchdog knows of a tick it has seen stand still.
Watched ==
  /\ watch.age <= game.still /\ watch.cut = game.cut

\* Keys are counted by both: the game's count is never ahead, a pressed one included.
KeysCounted ==
  /\ game.tick = "same" => game.keys + (IF watch.pressed THEN 1 ELSE 0) <= watch.attempts
  /\ game.tick # "same" => game.keys = 0 /\ (watch.pressed => game.still = 0)
  /\ ~watch.seen => watch.attempts = 0

FrozenInv ==
  /\ game \in Games /\ watch \in Watches
  /\ watch.seen /\ game.tick = "same" => Watched
  /\ KeysCounted

LEMMA FrozenInitial == FrozenInit => FrozenInv
  BY DEF FrozenInit, FreshWatch, FrozenInv, Games, Watches, Spans, Never, KeysCounted

\* Durations stay within their bound, and a later one stays later.
LEMMA ElapsedIs ==
    ASSUME NEW n \in Spans, NEW m \in Spans, NEW top \in 0 .. 98
    PROVE  /\ Elapsed(n, top) \in Spans
           /\ n <= m => Elapsed(n, top) <= Elapsed(m, top)
  BY DEF Elapsed, Spans, Never

LEMMA FrozenStep == FrozenInv /\ [FrozenNext]_frozenVars => FrozenInv' /\ [KeysAreWarranted]_frozenVars
  <1> SUFFICES ASSUME FrozenInv, [FrozenNext]_frozenVars
               PROVE  FrozenInv' /\ [KeysAreWarranted]_frozenVars
    OBVIOUS
  <1> USE DEF FrozenInv, KeysAreWarranted
  <1>1. CASE Poll /\ ~watch.pressed
    <2>1. game' = [game EXCEPT !.tick = "same"] /\ game' \in Games
      BY <1>1 DEF Poll, Games
    <2>2. CASE Restarted
      <3>1. watch' = FreshWatch
        BY <1>1, <2>2 DEF Poll
      <3>. QED BY <2>1, <2>2, <3>1 DEF Restarted, FreshWatch, Watches, Spans, Never, KeysCounted, Games
    <2>3. CASE ~Restarted /\ (~watch.seen \/ game.tick = "later")
      <3>1. Alive \in Watches /\ Alive.seen /\ Alive.age = 0 /\ Alive.cut = game.cut /\ Alive.attempts = 0
            /\ Alive.pressed = watch.pressed
        <4>1. 0 \in Spans /\ game.cut \in BOOLEAN
          BY DEF Spans, Never, Games
        <4>2. Alive \in Watches
          BY <4>1 DEF Alive, Watches
        <4>. QED BY <4>1, <4>2 DEF Alive, Watches
      <3>2. watch' = [Alive EXCEPT !.job = @ /\ ~(Alive.blocked /\ ~watch.blocked)]
        BY <1>1, <2>3 DEF Poll
      <3>3. watch' \in Watches /\ watch'.age = 0 /\ watch'.cut = game.cut /\ watch'.attempts = 0
            /\ watch'.seen /\ ~watch'.pressed
        BY <1>1, <3>1, <3>2 DEF Watches
      <3>4. game.keys = 0
        BY <1>1, <2>3 DEF KeysCounted, Watches, Games
      <3>. QED BY <2>1, <3>3, <3>4 DEF Watched, KeysCounted, Games, Spans
    <2>4. CASE watch.seen /\ game.tick = "same"
      <3>1. watch' = [Repeated EXCEPT !.job = @ /\ ~(Repeated.blocked /\ ~watch.blocked)]
        BY <1>1, <2>4 DEF Poll, Restarted
      <3>2. CASE ~StandsStill /\ KeyDue
        <4>1. Repeated = [watch EXCEPT !.blocked = TRUE, !.attempts = @ + 1, !.gap = 0, !.pressed = TRUE]
          BY <3>2 DEF Repeated
        <4>2. Repeated \in Watches
          <5>1. 0 \in Spans /\ watch.attempts + 1 \in Nat
            BY DEF Spans, Never, Watches
          <5>. QED BY <4>1, <5>1 DEF Watches
        <4>3. /\ watch' \in Watches /\ watch'.seen /\ watch'.age = watch.age /\ watch'.cut = watch.cut
              /\ watch'.attempts = watch.attempts + 1 /\ watch'.pressed
          BY <2>4, <3>1, <4>1, <4>2 DEF Watches
        <4>4. game.still >= StallTimeout /\ ~game.cut /\ game.keys < MaxAttempts
          BY <1>1, <2>4, <3>2, ScreenConstants DEF StandsStill, KeyDue, Unmoved, Watched, KeysCounted, Games, Watches, Spans, Never
        <4>. QED BY <1>1, <2>1, <2>4, <4>3, <4>4 DEF Watched, KeysCounted, Games, Watches
      <3>3. CASE StandsStill \/ ~KeyDue
        <4>1. /\ Repeated \in Watches /\ Repeated.seen = watch.seen /\ Repeated.age = watch.age
              /\ Repeated.cut = watch.cut /\ Repeated.attempts = watch.attempts
              /\ Repeated.pressed = watch.pressed
          <5> DEFINE gives == watch.gaveUp \/ (Unmoved /\ watch.attempts = MaxAttempts)
          <5>1. Unmoved \in BOOLEAN /\ gives \in BOOLEAN
            BY DEF Unmoved
          <5>2. Repeated = [watch EXCEPT !.blocked = FALSE]
                  \/ Repeated = [watch EXCEPT !.blocked = Unmoved, !.gaveUp = gives]
            BY <3>3 DEF Repeated
          <5>. HIDE DEF gives
          <5>3. CASE Repeated = [watch EXCEPT !.blocked = FALSE]
            BY <5>3 DEF Watches
          <5>4. CASE Repeated = [watch EXCEPT !.blocked = Unmoved, !.gaveUp = gives]
            <6>1. Repeated \in Watches
              BY <5>1, <5>4 DEF Watches
            <6>. QED BY <5>4, <6>1 DEF Watches
          <5>. QED BY <5>2, <5>3, <5>4
        <4>2. /\ watch' \in Watches /\ watch'.seen = watch.seen /\ watch'.age = watch.age
              /\ watch'.cut = watch.cut /\ watch'.attempts = watch.attempts /\ watch'.pressed = watch.pressed
          BY <3>1, <4>1 DEF Watches
        <4>. QED BY <1>1, <2>1, <2>4, <4>2 DEF Watched, KeysCounted, Games, Watches
      <3>. QED BY <3>2, <3>3
    <2>. QED BY <2>2, <2>3, <2>4 DEF Restarted, Games
  <1>2. CASE Press
    <2>1. /\ watch.pressed /\ watch' = [watch EXCEPT !.pressed = FALSE]
          /\ game' = [game EXCEPT !.keys = IF game.still > 0 THEN @ + 1 ELSE @]
      BY <1>2 DEF Press
    <2>2. game' \in Games /\ watch' \in Watches
      <3>1. watch' \in Watches
        BY <2>1 DEF Watches
      <3>2. (IF game.still > 0 THEN game.keys + 1 ELSE game.keys) \in Nat
        BY DEF Games
      <3>. QED BY <2>1, <3>1, <3>2 DEF Games
    <2>3. /\ watch'.seen = watch.seen /\ watch'.age = watch.age /\ watch'.cut = watch.cut
          /\ watch'.attempts = watch.attempts /\ ~watch'.pressed
          /\ game'.tick = game.tick /\ game'.still = game.still /\ game'.cut = game.cut
          /\ game'.keys = IF game.still > 0 THEN game.keys + 1 ELSE game.keys
      <3>1. game \in Games /\ watch \in Watches
        OBVIOUS
      <3>2. /\ watch'.seen = watch.seen /\ watch'.age = watch.age /\ watch'.cut = watch.cut
            /\ watch'.attempts = watch.attempts /\ ~watch'.pressed
        BY <2>1, <3>1 DEF Watches
      <3>3. /\ game'.tick = game.tick /\ game'.still = game.still /\ game'.cut = game.cut
            /\ game'.keys = IF game.still > 0 THEN game.keys + 1 ELSE game.keys
        BY <2>1, <3>1 DEF Games
      <3>. QED BY <3>2, <3>3
    <2>4. game.still \in Nat /\ game.keys \in Nat /\ watch.attempts \in Nat
      BY DEF Games, Watches, Spans, Never
    <2>5. KeysCounted'
      BY <2>1, <2>3, <2>4 DEF KeysCounted
    <2>. QED BY <2>2, <2>3, <2>5 DEF Watched
  <1>3. CASE SecondPasses
    <2>1. /\ ~watch.pressed
          /\ watch' = [watch EXCEPT !.age = Elapsed(@, StallTimeout), !.gap = Elapsed(@, KeyGap)]
      BY <1>3 DEF SecondPasses
    <2>2. /\ Elapsed(watch.age, StallTimeout) \in Spans /\ Elapsed(watch.gap, KeyGap) \in Spans
          /\ Elapsed(game.still, StallTimeout) \in Spans
          /\ watch.age <= game.still => Elapsed(watch.age, StallTimeout) <= Elapsed(game.still, StallTimeout)
      <3>1. StallTimeout \in 0 .. 98 /\ KeyGap \in 0 .. 98
        BY ScreenConstants
      <3>. QED BY <3>1, ElapsedIs DEF Watches, Games
    <2>3. watch' \in Watches
      BY <2>1, <2>2 DEF Watches
    <2>4. CASE game.ticks
      <3>1. game' = [game EXCEPT !.tick = IF @ = "same" THEN "later" ELSE @, !.still = 0, !.keys = 0]
        BY <1>3, <2>4 DEF SecondPasses
      <3>2. 0 \in Spans
        BY DEF Spans, Never
      <3>3. game' \in Games
        BY <3>1, <3>2 DEF Games
      <3>4. game'.tick # "same" /\ game'.keys = 0 /\ game'.still = 0
        BY <3>1 DEF Games
      <3>5. ~watch'.pressed /\ watch'.seen = watch.seen /\ watch'.attempts = watch.attempts
        BY <2>1 DEF Watches
      <3>. QED BY <2>3, <3>3, <3>4, <3>5 DEF KeysCounted
    <2>5. CASE ~game.ticks
      <3>1. game' = [game EXCEPT !.still = Elapsed(@, StallTimeout)]
        BY <1>3, <2>5 DEF SecondPasses
      <3>. QED BY <2>1, <2>2, <2>3, <3>1 DEF Games, Watches, Watched, KeysCounted
    <2>. QED BY <2>4, <2>5
  <1>4. CASE GameTurns
    <2>1. UNCHANGED watch
      BY <1>4 DEF GameTurns
    <2>2. CASE game' = [ticks |-> TRUE, cut |-> ~game.cut, still |-> 0, keys |-> 0,
                        tick |-> IF game.tick = "same" THEN "later" ELSE game.tick]
      BY <2>1, <2>2 DEF Games, Watches, KeysCounted, Spans, Never
    <2>3. CASE game' = [game EXCEPT !.ticks = ~@]
      BY <2>1, <2>3 DEF Games, Watches, Watched, KeysCounted
    <2>. QED BY <1>4, <2>2, <2>3 DEF GameTurns
  <1>5. CASE Relaunched
    <2>1. PICK tick \in {"earlier", "later"} :
            game' = [ticks |-> TRUE, cut |-> FALSE, tick |-> tick, still |-> 0, keys |-> 0]
      BY <1>5 DEF Relaunched
    <2>. QED BY <1>5, <2>1 DEF Relaunched, Games, Watches, KeysCounted, Spans, Never
  <1>6. CASE JobStarts
    <2>1. watch' = [watch EXCEPT !.job = TRUE] /\ game' = game
      BY <1>6 DEF JobStarts
    <2>. QED BY <2>1 DEF Watches, Watched, KeysCounted
  <1>7. CASE UNCHANGED frozenVars
    BY <1>7 DEF frozenVars, Watched, KeysCounted
  <1>. QED BY <1>1, <1>2, <1>3, <1>4, <1>5, <1>6, <1>7 DEF FrozenNext

\* A key is only sent to a game that has stood still for the whole timeout outside a
\* cutscene, and a limited number of times in one freeze.
THEOREM KeysStayWarranted == FrozenSpec => [][KeysAreWarranted]_frozenVars
  <1>. QED BY FrozenInitial, FrozenStep, PTL DEF FrozenSpec

-----------------------------------------------------------------------------
(* The foreground: asked for quickly only while an episode is young          *)

Desks == [front : {"game", "other", "none"}, console : BOOLEAN, held : Spans, asked : Nat, since : Spans]
Keepers == [attempts : Nat, lost : Spans, tried : Spans, regained : Spans]

\* The keeper's episode is never younger than the desktop's: it has counted every
\* request since the game last stayed in front, and dates the last one as it was.
Remembers ==
  /\ desk.asked <= keeper.attempts /\ keeper.attempts <= Fast
  /\ keeper.attempts > 0 => keeper.tried = desk.since /\ keeper.tried # Never
  /\ keeper.lost # Never => desk.held = Never
  /\ keeper.lost = Never /\ keeper.attempts > 0 => keeper.regained = desk.held /\ desk.held # Never

FocusInv == desk \in Desks /\ keeper \in Keepers /\ Remembers

LEMMA FocusInitial == FocusInit => FocusInv
  <1> SUFFICES ASSUME FocusInit PROVE FocusInv
    OBVIOUS
  <1>1. SlowGap \in Spans /\ Never \in Spans
    BY ScreenConstants DEF Spans, Never
  <1>2. desk \in Desks /\ keeper \in Keepers
    BY <1>1 DEF FocusInit, Desks, Keepers
  <1>. QED BY <1>2, ScreenConstants DEF FocusInit, FocusInv, Remembers

\* No window to focus, or another session: everything is forgotten.
LEMMA FocusAway ==
    ASSUME FocusInv, Away, KeeperLooks
    PROVE  FocusInv' /\ AskedAtLeisure
  <1>1. keeper' = StoodDown /\ desk' = [desk EXCEPT !.held = Never, !.asked = 0, !.since = SlowGap]
    BY DEF KeeperLooks
  <1>2. SlowGap \in Spans /\ Never \in Spans
    BY ScreenConstants DEF Spans, Never
  <1>3. desk' \in Desks /\ keeper' \in Keepers
    BY <1>1, <1>2 DEF Desks, Keepers, StoodDown, FocusInv
  <1>4. desk'.asked = 0 /\ desk'.held = Never /\ keeper'.attempts = 0
    BY <1>1 DEF Desks, Keepers, StoodDown, FocusInv
  <1>5. Remembers'
    BY <1>4, ScreenConstants DEF Remembers
  <1>6. desk'.since = 0 => SlowGap = 0
    BY <1>1 DEF Desks, FocusInv
  <1>7. AskedAtLeisure
    <2>1. SlowGap = 0 => FastGap = 0
      BY ScreenConstants
    <2>2. desk.since \in Nat
      BY DEF FocusInv, Desks, Spans, Never
    <2>. QED BY <1>6, <2>1, <2>2 DEF AskedAtLeisure
  <1>. QED BY <1>3, <1>5, <1>7 DEF FocusInv

\* The game is in front: the episode ends only when it has stayed there, by both clocks.
LEMMA FocusFront ==
    ASSUME FocusInv, ~Away, desk.front = "game", KeeperLooks
    PROVE  FocusInv' /\ AskedAtLeisure
  <1> DEFINE back == IF keeper.lost # Never /\ keeper.attempts > 0 THEN 0 ELSE keeper.regained
             held == IF desk.held = Never THEN 0 ELSE desk.held
             asked == IF desk.held # Never /\ desk.held >= FlapWindow THEN 0 ELSE desk.asked
  <1>1. keeper' = InFront /\ desk' = [desk EXCEPT !.held = held, !.asked = asked]
    BY DEF KeeperLooks
  <1>2. Never \in Spans /\ 0 \in Spans /\ back \in Spans /\ held \in Spans /\ asked \in Nat
    BY DEF Spans, Never, FocusInv, Desks, Keepers
  <1>3. desk' \in Desks /\ desk'.since = desk.since /\ desk'.held = held /\ desk'.asked = asked
    <2>. HIDE DEF held, asked
    <2>. QED BY <1>1, <1>2 DEF Desks, FocusInv
  <1>4. AskedAtLeisure
    BY <1>3 DEF AskedAtLeisure, FocusInv, Desks, Spans
  <1>5. CASE back # Never /\ back >= FlapWindow
    <2>1. keeper' = StoodDown
      BY <1>1, <1>5 DEF InFront
    <2>2. keeper' \in Keepers /\ keeper'.attempts = 0 /\ keeper'.lost = Never
      BY <2>1, <1>2 DEF Keepers, StoodDown
    <2>3. asked = 0
      BY <1>2, <1>5, ScreenConstants DEF FocusInv, Remembers, Desks, Keepers, Spans, Never
    <2>. QED BY <1>3, <1>4, <2>2, <2>3, ScreenConstants DEF FocusInv, Remembers
  <1>6. CASE ~(back # Never /\ back >= FlapWindow)
    <2>1. keeper' = [keeper EXCEPT !.lost = Never, !.regained = back]
      BY <1>1, <1>6 DEF InFront
    <2>2. /\ keeper' \in Keepers /\ keeper'.attempts = keeper.attempts /\ keeper'.lost = Never
          /\ keeper'.tried = keeper.tried /\ keeper'.regained = back
      <3>. HIDE DEF back
      <3>. QED BY <1>2, <2>1 DEF Keepers, FocusInv
    <2>3. keeper.attempts > 0 => back = held
      BY <1>6, ScreenConstants DEF FocusInv, Remembers, Desks, Keepers, Spans, Never
    <2>4. held # Never
      BY DEF Never
    <2>. QED BY <1>3, <1>4, <2>2, <2>3, <2>4 DEF FocusInv, Remembers, Desks, Keepers
  <1>. QED BY <1>5, <1>6

\* Another window is in front: the foreground is asked for once the wait is over.
LEMMA FocusLost ==
    ASSUME FocusInv, ~Away, desk.front # "game", KeeperLooks
    PROVE  FocusInv' /\ AskedAtLeisure
  <1>1. Never \in Spans /\ 0 \in Spans /\ Never # 0
    BY DEF Spans, Never
  <1>2. /\ Losing \in Keepers /\ Losing.lost # Never /\ Losing.attempts = keeper.attempts
        /\ Losing.tried = keeper.tried
    BY <1>1 DEF Losing, Keepers, FocusInv
  <1>3. CASE AskDue
    <2>1. /\ keeper' = [Losing EXCEPT !.attempts = IF @ < Fast THEN @ + 1 ELSE @, !.tried = 0]
          /\ desk' = [desk EXCEPT !.held = Never, !.since = 0, !.asked = IF @ < Fast THEN @ + 1 ELSE @]
      BY <1>3 DEF KeeperLooks
    <2> DEFINE attempts == IF Losing.attempts < Fast THEN Losing.attempts + 1 ELSE Losing.attempts
               asked == IF desk.asked < Fast THEN desk.asked + 1 ELSE desk.asked
    <2>2. attempts \in Nat /\ asked \in Nat /\ asked <= attempts /\ attempts <= Fast
      BY <1>2, ScreenConstants DEF FocusInv, Remembers, Desks, Keepers
    <2>3. keeper' = [Losing EXCEPT !.attempts = attempts, !.tried = 0]
          /\ desk' = [desk EXCEPT !.held = Never, !.since = 0, !.asked = asked]
      BY <2>1
    <2>. HIDE DEF attempts, asked
    <2>4. /\ keeper' \in Keepers /\ keeper'.attempts = attempts /\ keeper'.tried = 0
          /\ keeper'.lost # Never
      BY <1>1, <1>2, <2>2, <2>3 DEF Keepers
    <2>5. desk' \in Desks /\ desk'.held = Never /\ desk'.since = 0 /\ desk'.asked = asked
      BY <1>1, <2>2, <2>3 DEF Desks, FocusInv
    <2>6. FocusInv'
      BY <1>1, <2>2, <2>4, <2>5 DEF FocusInv, Remembers
    <2>7. AskedAtLeisure
      BY <1>2, <1>3, ScreenConstants DEF AskedAtLeisure, AskDue, GapNow, FocusInv, Remembers, Desks, Keepers, Spans, Never
    <2>. QED BY <2>6, <2>7
  <1>4. CASE ~AskDue
    <2>1. keeper' = Losing /\ desk' = [desk EXCEPT !.held = Never]
      BY <1>4 DEF KeeperLooks
    <2>2. desk' \in Desks /\ desk'.held = Never /\ desk'.since = desk.since /\ desk'.asked = desk.asked
      BY <1>1, <2>1 DEF Desks, FocusInv
    <2>3. FocusInv'
      BY <1>2, <2>1, <2>2 DEF FocusInv, Remembers
    <2>. QED BY <2>2, <2>3 DEF AskedAtLeisure, FocusInv, Desks, Spans
  <1>. QED BY <1>3, <1>4

LEMMA FocusStep == FocusInv /\ [FocusNext]_focusVars => FocusInv' /\ [AskedAtLeisure]_focusVars
  <1> SUFFICES ASSUME FocusInv, [FocusNext]_focusVars
               PROVE  FocusInv' /\ [AskedAtLeisure]_focusVars
    OBVIOUS
  <1>1. CASE KeeperLooks
    BY <1>1, FocusAway, FocusFront, FocusLost
  <1>2. CASE FocusAges
    <2>1. \A n \in Spans, top \in 1 .. 98 : Elapsed(n, top) \in Spans
      BY ElapsedIs
    <2>2. \A n \in Spans, top \in 1 .. 98 : Elapsed(n, top) = Never <=> n = Never
      BY DEF Elapsed, Spans, Never
    <2>3. \A n \in Spans, top \in 1 .. 98 : Elapsed(n, top) = 0 => n = 0
      BY DEF Elapsed, Spans, Never
    <2>4. /\ keeper' = [keeper EXCEPT !.lost = Elapsed(@, Grace), !.tried = Elapsed(@, SlowGap),
                                      !.regained = Elapsed(@, FlapWindow)]
          /\ desk' = [desk EXCEPT !.since = Elapsed(@, SlowGap), !.held = Elapsed(@, FlapWindow)]
      BY <1>2 DEF FocusAges
    <2>5. /\ keeper' \in Keepers /\ keeper'.attempts = keeper.attempts
          /\ keeper'.lost = Elapsed(keeper.lost, Grace) /\ keeper'.tried = Elapsed(keeper.tried, SlowGap)
          /\ keeper'.regained = Elapsed(keeper.regained, FlapWindow)
      BY <2>1, <2>4, ScreenConstants DEF Keepers, FocusInv
    <2>6. /\ desk' \in Desks /\ desk'.asked = desk.asked /\ desk'.since = Elapsed(desk.since, SlowGap)
          /\ desk'.held = Elapsed(desk.held, FlapWindow)
      BY <2>1, <2>4, ScreenConstants DEF Desks, FocusInv
    <2>7. {Grace, SlowGap, FlapWindow} \subseteq 1 .. 98
      BY ScreenConstants
    <2>8. Remembers'
      BY <2>2, <2>5, <2>6, <2>7 DEF FocusInv, Remembers, Desks, Keepers
    <2>9. desk'.since = 0 => desk.since = 0
      BY <2>3, <2>6, <2>7 DEF FocusInv, Desks
    <2>10. AskedAtLeisure
      BY <2>9 DEF AskedAtLeisure
    <2>. QED BY <2>5, <2>6, <2>8, <2>10 DEF FocusInv
  <1>3. CASE DeskChanges
    <2>1. PICK front \in {"game", "other", "none"}, console \in BOOLEAN :
            desk' = [desk EXCEPT !.front = front, !.console = console]
      BY <1>3 DEF DeskChanges
    <2>2. /\ desk' \in Desks /\ desk'.asked = desk.asked /\ desk'.since = desk.since
          /\ desk'.held = desk.held /\ keeper' = keeper
      BY <1>3, <2>1 DEF DeskChanges, Desks, FocusInv
    <2>. QED BY <2>2 DEF FocusInv, Remembers, AskedAtLeisure, Desks, Spans
  <1>4. CASE UNCHANGED focusVars
    BY <1>4 DEF focusVars, FocusInv, Remembers
  <1>. QED BY <1>1, <1>2, <1>3, <1>4 DEF FocusNext

\* The foreground is asked for again only after the wait that the requests of this
\* episode have earned, and an episode is not over because the game was in front for
\* a moment.
THEOREM RequestsStayMeasured == FocusSpec => [][AskedAtLeisure]_focusVars
  <1>. QED BY FocusInitial, FocusStep, PTL DEF FocusSpec

-----------------------------------------------------------------------------
(* The capture                                                             *)

Grabs ==
  [worker : {"none", "starts", "works", "over"}, done : BOOLEAN,
   value : {"none", "frame", "error"}, waits : BOOLEAN, timed : BOOLEAN, failures : Nat,
   window : Nat, dead : BOOLEAN, frame : BOOLEAN, rebuild : BOOLEAN]

\* A result belongs to a worker whose call has returned; the loop waits only for a worker
\* that is out; failures have a window, and too many of them are the end of capture
\* and of the frame.
GrabInv ==
  /\ grab \in Grabs
  /\ grab.worker = "over" <=> grab.value # "none"
  /\ grab.done => grab.worker \in {"over", "none"}
  /\ grab.waits => grab.worker # "none" /\ ~grab.dead
  /\ grab.window = Never <=> grab.failures = 0
  /\ grab.dead <=> grab.failures > 0 /\ grab.failures >= MaxGrabFailures
  /\ grab.dead => ~grab.frame

\* Capture is given up only for failures counted in one window, and for good; a new
\* frame is a whole result; and no worker starts while another is out.
CaptureIsFair ==
  /\ grab'.dead /\ ~grab.dead =>
       /\ grab'.failures >= MaxGrabFailures
       /\ \/ grab'.failures = 1
          \/ grab'.failures = grab.failures + 1 /\ grab.window <= GrabWindow
  /\ grab.dead => grab'.dead
  /\ grab'.frame /\ ~grab.frame => grab.done /\ grab.worker = "over" /\ grab.value = "frame"
  /\ grab'.worker = "starts" => grab.worker \in {"starts", "none"}

\* What one failure adds.
LEMMA FailureCounts ==
    ASSUME NEW g \in Grabs, g.window = Never <=> g.failures = 0
    PROVE  /\ Failed(g) \in Grabs
           /\ Failed(g).window # Never /\ Failed(g).failures > 0
           /\ Failed(g).dead <=> Failed(g).failures >= MaxGrabFailures
           /\ \/ Failed(g).failures = 1
              \/ Failed(g).failures = g.failures + 1 /\ g.window <= GrabWindow
           /\ Failed(g).worker = g.worker /\ Failed(g).done = g.done
           /\ Failed(g).value = g.value /\ Failed(g).waits = g.waits
           /\ Failed(g).frame = g.frame
  <1> DEFINE anew == g.window = Never \/ g.window > GrabWindow
             n == IF anew THEN 1 ELSE g.failures + 1
             w == IF anew THEN 0 ELSE g.window
             d == n >= MaxGrabFailures
  <1>1. /\ n \in Nat /\ n > 0 /\ w \in Nat /\ w # Never /\ d \in BOOLEAN
        /\ n = 1 \/ (n = g.failures + 1 /\ g.window <= GrabWindow)
    BY ScreenConstants DEF Grabs, Never
  <1>2. Failed(g) = [g EXCEPT !.window = w, !.failures = n, !.dead = d]
    BY DEF Failed
  <1>3. d <=> n >= MaxGrabFailures
    OBVIOUS
  <1> HIDE DEF n, w, d
  <1> DEFINE f == [g EXCEPT !.window = w, !.failures = n, !.dead = d]
  <1>4. f \in Grabs
    BY <1>1 DEF Grabs
  <1>5. f.window = w /\ f.failures = n /\ f.dead = d
    BY <1>1 DEF Grabs
  <1>6. /\ f.worker = g.worker /\ f.done = g.done /\ f.value = g.value
        /\ f.waits = g.waits /\ f.frame = g.frame
    BY DEF Grabs
  <1> HIDE DEF f
  <1>7. Failed(g) = f
    BY <1>2 DEF f
  <1> QED
    BY <1>1, <1>3, <1>4, <1>5, <1>6, <1>7

\* The frame is dropped when capture is given up.
LEMMA PumpKeeps ==
    ASSUME NEW g \in Grabs, Pumped(g)
    PROVE  /\ grab' \in Grabs /\ (grab'.frame <=> g.frame /\ ~g.dead)
           /\ grab'.worker = g.worker /\ grab'.done = g.done /\ grab'.value = g.value
           /\ grab'.waits = g.waits /\ grab'.window = g.window
           /\ grab'.failures = g.failures /\ grab'.dead = g.dead
  <1> DEFINE shown == g.frame /\ ~g.dead
             f == [g EXCEPT !.frame = shown]
  <1>1. shown \in BOOLEAN /\ grab' = f
    BY DEF Pumped, Grabs
  <1>2. shown <=> g.frame /\ ~g.dead
    OBVIOUS
  <1> HIDE DEF shown
  <1>3. f \in Grabs /\ f.frame = shown
    BY <1>1 DEF Grabs
  <1>4. /\ f.worker = g.worker /\ f.done = g.done /\ f.value = g.value /\ f.waits = g.waits
    BY DEF Grabs
  <1>5. f.window = g.window /\ f.failures = g.failures /\ f.dead = g.dead
    BY DEF Grabs
  <1> HIDE DEF f
  <1> QED
    BY <1>1, <1>2, <1>3, <1>4, <1>5

LEMMA GrabStep ==
    ASSUME GrabInv, [GrabNext]_grabVars
    PROVE  GrabInv' /\ [CaptureIsFair]_grabVars
  <1>0. grab \in Grabs /\ grab.failures \in Nat /\ grab.window \in Nat
    BY DEF GrabInv, Grabs
  <1>1. CASE PollStarts
    <2>1. /\ ~grab.dead /\ grab.worker = "none"
          /\ grab' = [grab EXCEPT !.worker = "starts", !.done = FALSE, !.value = "none",
                                  !.timed = FALSE, !.waits = TRUE]
      BY <1>1 DEF PollStarts
    <2>2. grab' \in Grabs
      BY <1>0, <2>1 DEF Grabs
    <2>3. /\ grab'.worker = "starts" /\ grab'.done = FALSE /\ grab'.value = "none"
          /\ grab'.waits = TRUE
      BY <1>0, <2>1 DEF Grabs
    <2>4. /\ grab'.window = grab.window /\ grab'.failures = grab.failures
          /\ grab'.dead = grab.dead /\ grab'.frame = grab.frame
      BY <1>0, <2>1 DEF Grabs
    <2> QED
      BY <1>0, <2>1, <2>2, <2>3, <2>4 DEF GrabInv, CaptureIsFair
  <1>2. CASE PollTakes
    <2> DEFINE g == [grab EXCEPT !.worker = "none", !.waits = FALSE, !.timed = FALSE,
                                 !.value = "none"]
               good == [g EXCEPT !.failures = 0, !.window = Never, !.frame = TRUE]
    <2>1. /\ ~grab.dead /\ grab.worker # "none" /\ grab.done
          /\ Pumped(IF grab.value = "error" THEN Failed(g) ELSE good)
      BY <1>2 DEF PollTakes, Ready
    <2>2. grab.worker = "over" /\ grab.value \in {"frame", "error"}
      BY <1>0, <2>1 DEF GrabInv, Grabs
    <2>3. /\ g \in Grabs /\ g.worker = "none" /\ g.value = "none" /\ g.waits = FALSE
      BY <1>0 DEF Grabs
    <2>4. /\ g.done = grab.done /\ g.window = grab.window /\ g.failures = grab.failures
          /\ g.dead = grab.dead /\ g.frame = grab.frame
      BY <1>0 DEF Grabs
    <2> HIDE DEF g
    <2>5. CASE grab.value = "error"
      <3> DEFINE f == Failed(g)
      <3>1. Pumped(f)
        BY <2>1, <2>5
      <3>2. /\ f \in Grabs
            /\ f.window # Never /\ f.failures > 0
            /\ f.dead <=> f.failures >= MaxGrabFailures
            /\ \/ f.failures = 1
               \/ f.failures = grab.failures + 1 /\ grab.window <= GrabWindow
            /\ f.worker = "none" /\ f.done = grab.done
            /\ f.value = "none" /\ f.waits = FALSE /\ f.frame = grab.frame
        BY <2>3, <2>4, FailureCounts DEF GrabInv
      <3> HIDE DEF f
      <3>3. /\ grab' \in Grabs /\ (grab'.frame <=> f.frame /\ ~f.dead)
            /\ grab'.worker = f.worker /\ grab'.done = f.done /\ grab'.value = f.value
            /\ grab'.waits = f.waits /\ grab'.window = f.window
            /\ grab'.failures = f.failures /\ grab'.dead = f.dead
        BY <3>1, <3>2, PumpKeeps
      <3> QED
        BY <1>0, <2>1, <2>2, <3>2, <3>3 DEF GrabInv, CaptureIsFair
    <2>6. CASE grab.value # "error"
      <3>1. good \in Grabs /\ good.failures = 0 /\ good.window = Never /\ good.frame = TRUE
        BY <2>3 DEF Grabs, Never
      <3>2. /\ good.worker = "none" /\ good.value = "none" /\ good.waits = FALSE
            /\ good.done = grab.done /\ good.dead = grab.dead
        BY <2>3, <2>4 DEF Grabs
      <3>3. Pumped(good)
        BY <2>1, <2>6
      <3> HIDE DEF good
      <3>4. /\ grab' \in Grabs /\ (grab'.frame <=> good.frame /\ ~good.dead)
            /\ grab'.worker = good.worker /\ grab'.done = good.done /\ grab'.value = good.value
            /\ grab'.waits = good.waits /\ grab'.window = good.window
            /\ grab'.failures = good.failures /\ grab'.dead = good.dead
        BY <3>1, <3>3, PumpKeeps
      <3> QED
        BY <1>0, <2>1, <2>2, <2>6, <3>1, <3>2, <3>4 DEF GrabInv, CaptureIsFair
    <2> QED
      BY <2>5, <2>6
  <1>3. CASE PollGivesUp
    <2> DEFINE g == [grab EXCEPT !.waits = FALSE, !.timed = TRUE]
               f == Failed(g)
    <2>1. grab.waits /\ ~grab.done /\ Pumped(f)
      BY <1>3 DEF PollGivesUp, Ready
    <2>2. /\ g \in Grabs /\ g.worker = grab.worker /\ g.value = grab.value /\ g.waits = FALSE
      BY <1>0 DEF Grabs
    <2>3. /\ g.done = grab.done /\ g.window = grab.window /\ g.failures = grab.failures
          /\ g.dead = grab.dead /\ g.frame = grab.frame
      BY <1>0 DEF Grabs
    <2> HIDE DEF g
    <2>4. /\ f \in Grabs
          /\ f.window # Never /\ f.failures > 0
          /\ f.dead <=> f.failures >= MaxGrabFailures
          /\ \/ f.failures = 1
             \/ f.failures = grab.failures + 1 /\ grab.window <= GrabWindow
          /\ f.worker = grab.worker /\ f.done = grab.done
          /\ f.value = grab.value /\ f.waits = FALSE /\ f.frame = grab.frame
      BY <2>2, <2>3, FailureCounts DEF GrabInv
    <2> HIDE DEF f
    <2>5. /\ grab' \in Grabs /\ (grab'.frame <=> f.frame /\ ~f.dead)
          /\ grab'.worker = f.worker /\ grab'.done = f.done /\ grab'.value = f.value
          /\ grab'.waits = f.waits /\ grab'.window = f.window
          /\ grab'.failures = f.failures /\ grab'.dead = f.dead
      BY <2>1, <2>4, PumpKeeps
    <2> QED
      BY <1>0, <2>1, <2>4, <2>5 DEF GrabInv, CaptureIsFair
  <1>4. CASE WorkerBegins \/ WorkerSays
    <2>1. /\ grab' \in Grabs
          /\ grab'.value = grab.value /\ grab'.waits = grab.waits /\ grab'.frame = grab.frame
      BY <1>0, <1>4 DEF WorkerBegins, WorkerSays, Grabs
    <2>2. /\ grab'.window = grab.window /\ grab'.failures = grab.failures
          /\ grab'.dead = grab.dead
      BY <1>0, <1>4 DEF WorkerBegins, WorkerSays, Grabs
    <2>3. \/ grab.worker = "starts" /\ grab'.worker = "works" /\ grab'.done = grab.done
          \/ grab.worker = "over" /\ grab'.worker = "over"
      BY <1>0, <1>4 DEF WorkerBegins, WorkerSays, Grabs
    <2> QED
      BY <1>0, <2>1, <2>2, <2>3 DEF GrabInv, CaptureIsFair
  <1>5. CASE \E value \in {"frame", "error"} : WorkerEnds(value)
    <2>1. PICK value \in {"frame", "error"} :
            grab.worker = "works" /\ grab' = [grab EXCEPT !.worker = "over", !.value = value]
      BY <1>5 DEF WorkerEnds
    <2>2. /\ grab' \in Grabs /\ grab'.worker = "over" /\ grab'.value = value
          /\ grab'.waits = grab.waits /\ grab'.frame = grab.frame /\ grab'.done = grab.done
      BY <1>0, <2>1 DEF Grabs
    <2>3. /\ grab'.window = grab.window /\ grab'.failures = grab.failures
          /\ grab'.dead = grab.dead
      BY <1>0, <2>1 DEF Grabs
    <2> QED
      BY <1>0, <2>1, <2>2, <2>3 DEF GrabInv, CaptureIsFair
  <1>6. CASE RebuildWanted
    <2> DEFINE again == ~grab.dead
    <2>1. again \in BOOLEAN /\ grab' = [grab EXCEPT !.rebuild = again, !.frame = FALSE]
      BY <1>6 DEF RebuildWanted
    <2> HIDE DEF again
    <2>2. /\ grab' \in Grabs /\ grab'.worker = grab.worker /\ grab'.value = grab.value
          /\ grab'.waits = grab.waits /\ grab'.frame = FALSE /\ grab'.done = grab.done
      BY <1>0, <2>1 DEF Grabs
    <2>3. /\ grab'.window = grab.window /\ grab'.failures = grab.failures
          /\ grab'.dead = grab.dead
      BY <1>0, <2>1 DEF Grabs
    <2> QED
      BY <1>0, <2>2, <2>3 DEF GrabInv, CaptureIsFair
  <1>7. CASE GrabAges
    <2> DEFINE w == Elapsed(grab.window, GrabWindow + 1)
    <2>1. /\ w \in Nat /\ (w = Never <=> grab.window = Never)
          /\ grab' = [grab EXCEPT !.window = w]
      BY <1>0, <1>7, ScreenConstants DEF GrabAges, Elapsed, Never
    <2> HIDE DEF w
    <2>2. /\ grab' \in Grabs /\ grab'.worker = grab.worker /\ grab'.value = grab.value
          /\ grab'.waits = grab.waits /\ grab'.frame = grab.frame /\ grab'.done = grab.done
      BY <1>0, <2>1 DEF Grabs
    <2>3. grab'.window = w /\ grab'.failures = grab.failures /\ grab'.dead = grab.dead
      BY <1>0, <2>1 DEF Grabs
    <2> QED
      BY <1>0, <2>1, <2>2, <2>3 DEF GrabInv, CaptureIsFair
  <1>8. CASE UNCHANGED grabVars
    BY <1>8 DEF grabVars, GrabInv
  <1> QED
    BY <1>1, <1>2, <1>3, <1>4, <1>5, <1>6, <1>7, <1>8 DEF GrabNext

LEMMA GrabInitInv ==
    ASSUME GrabInit
    PROVE  GrabInv
  BY ScreenConstants DEF GrabInit, GrabInv, Grabs, Never

\* However late a grab answers and whatever is asked of the device in between, the frame
\* on show is the whole result of a worker's call, one worker is out at a time, and capture is given
\* up only for failures counted within one window, for good and without a frame
\* left behind: what the capture's part of ScreenIsMinded rests on
\* (OffLoopGrab.poll and _record_failure).
THEOREM CaptureStaysFair ==
  GrabInit /\ [][GrabNext]_grabVars => []GrabInv /\ [][CaptureIsFair]_grabVars
  <1> QED
    BY GrabInitInv, GrabStep, PTL
=============================================================================
