------------------------------- MODULE BaseRate -------------------------------
(***************************************************************************)
(* RollingBaseRate of predictions/baserate.py: the odds an ambient         *)
(* question is offered on, measured over the events of the last hours.     *)
(* The warm start reads yesterday's rows while live events arrive, so an   *)
(* event may be observed out of order.                                     *)
(***************************************************************************)
EXTENDS Naturals, FiniteSets, FiniteSetsExt

\* Kinds of events, one of which is asked about; the clock's bound; how long an
\* event is kept; a question's entry time and window; the time between rounds.
CONSTANTS EventKinds, Question, Horizon, History, LockDelay, Window, Round, MaxSeen
ASSUME BaseRateConstants ==
  /\ Question \in EventKinds /\ Round \in Nat \ {0} /\ MaxSeen \in Nat
  /\ Horizon \in Nat /\ History \in Nat /\ LockDelay \in Nat /\ Window \in Nat
  /\ LockDelay + Window <= History

VARIABLES
  clock,    \* the wall clock
  log,      \* _events: what is still kept
  origin,   \* _origin: the first event known, if any
  hits,     \* _hits: the matching times as last computed, if any
  happened  \* every event ever observed

baseRateVars == <<clock, log, origin, hits, happened>>

Unknown == [known |-> FALSE, times |-> {}]
Entry(ts, kind) == [ts |-> ts, kind |-> kind]
TimesOf(es) == {e.ts : e \in es}
Cutoff == IF clock > History THEN clock - History ELSE 0

BaseRateInit == clock = 0 /\ log = {} /\ origin = {} /\ hits = Unknown /\ happened = {}

-----------------------------------------------------------------------------
(* observe.                                                                *)

\* Mutant: an event that arrives leaves the computed times as they are.
ForgetsNothing(es) == hits
\* Every entry empties the cache.
Forgets(es) == Unknown

\* _prune: entries older than the history go, and the origin with them.
Kept(es) == IF \E e \in es : e.ts < Cutoff THEN {e \in es : e.ts >= Cutoff} ELSE es
OriginOf(es, first) ==
  IF Kept(es) = es THEN {first} ELSE IF Kept(es) = {} THEN {} ELSE {Min(TimesOf(Kept(es)))}

Observe(e) ==
  LET es == log \union {e}
      first == Min(origin \union {e.ts}) IN
  /\ Cardinality(happened) < MaxSeen /\ e \notin happened
  /\ log' = Kept(es) /\ origin' = OriginOf(es, first) /\ hits' = Forgets(es)
  /\ happened' = happened \union {e} /\ UNCHANGED clock

Live == \E kind \in EventKinds : Observe(Entry(clock, kind))
\* The rows of _warm_start_base_rate, each in its place.
Warm == \E kind \in EventKinds, ts \in 0 .. Horizon : ts < clock /\ Observe(Entry(ts, kind))

TimePasses == clock < Horizon /\ clock' = clock + 1 /\ UNCHANGED <<log, origin, hits, happened>>

-----------------------------------------------------------------------------
(* measure.                                                                *)

\* _matching: computed once, then taken from the cache.
Matching == IF hits.known THEN hits.times ELSE {e.ts : e \in {f \in log : f.kind = Question}}

\* A round like the one to be offered, back from now, that lies in the history.
Span == LockDelay + Window
Anchors == {a \in 0 .. Horizon : \E k \in 0 .. Horizon : a + Span + k * Round = clock}
Counted == {a \in Anchors : a >= Cutoff /\ \E first \in origin : a >= first}
Wins(times) == {a \in Counted : \E t \in times : a + LockDelay <= t /\ t <= a + Span}
Calibration == [yes |-> Cardinality(Wins(Matching)), n |-> Cardinality(Counted)]

Measure == hits' = [known |-> TRUE, times |-> Matching] /\ UNCHANGED <<clock, log, origin, happened>>

BaseRateNext == Live \/ Warm \/ TimePasses \/ Measure
BaseRateSpec == BaseRateInit /\ [][BaseRateNext]_baseRateVars

-----------------------------------------------------------------------------
(* Properties.                                                             *)

\* The odds are those of what happened: of the rounds counted, those win in
\* which an event of the asked kind happened at all, though the log has dropped
\* old events, events arrived late, and the times were computed before they did.
OddsAreOfWhatHappened ==
  Calibration.yes = Cardinality(Wins({e.ts : e \in {f \in happened : f.kind = Question}}))
=============================================================================
