-------------------------------- MODULE Offers --------------------------------
(***************************************************************************)
(* Which question the harness offers and when: PredictionGenerator over    *)
(* the catalogue (predictions/generator.py, catalog.py), its writer, and   *)
(* the breaker of _offer_prediction (main.py).  A unit of time is a        *)
(* minute, durations rounded up to it.                                     *)
(***************************************************************************)
EXTENDS Naturals, FiniteSets

\* Instants: a snapshot with the events of the last minute.  Asking: the catalogue's
\* questions that are instantiated.  The cap on open questions, the time between
\* rounds, the rarity of an event, and the failures that stop the offers.
CONSTANTS Instants, Asking, MaxOpen, RoundEvery, EventEvery, FailureLimit
ASSUME OffersConstants == {MaxOpen, RoundEvery, EventEvery} \subseteq Nat

VARIABLES
  asker,     \* PredictionGenerator's memory
  failing,   \* consecutive raises, consecutive refused flushes
  buffered,  \* a question waits in the writer's buffer or queue
  page,      \* the questions this process wrote, with the time they have left
  sinceEvent \* time since it wrote a WANTED EVENT

offersVars == <<asker, failing, buffered, page, sinceEvent>>

-----------------------------------------------------------------------------
(* The catalogue.                                                          *)

Ambient == {"pulls_off_a_goal", "runs_out_of_time", "gets_into_trouble"}
WantedEvents == {"two_star_standoff"}
Lasts == [death_in_window |-> 5, loses_the_cops |-> 2, survives_a_chase |-> 3, survives_a_fight |-> 2,
          mission_outcome |-> 5, two_star_standoff |-> 5,
          pulls_off_a_goal |-> 4, runs_out_of_time |-> 4, gets_into_trouble |-> 4]

\* _build_catalog: an event is no ambient question, and the rounds all last alike.
ASSUME CatalogIsBuilt == Asking \subseteq DOMAIN Lasts /\ Ambient \cap WantedEvents = {}
                         /\ \A a, b \in Ambient : Lasts[a] = Lasts[b]

Standing(m) == ~m.down
WantedGain(m) == m.gain > 0
WantedGainTo(m, level) == m.gain >= level
JustChased(m) == Standing(m) /\ m.stars > 0 /\ WantedGain(m)

\* The templates' triggers.  No question about a death right after one.
DeathInWindow(m) == JustChased(m) /\ ~m.died
LosesTheCops(m) == JustChased(m)
SurvivesAChase(m) == JustChased(m)
SurvivesAFight(m) == Standing(m) /\ m.fight
MissionOutcome(m) == m.mission /\ ~m.cutscene
TwoStarStandoff(m) == Standing(m) /\ m.stars >= 2 /\ WantedGainTo(m, 2)
OrdinaryFreeRoam(m) == Standing(m) /\ ~m.mission /\ ~m.cutscene /\ m.stars = 0

Trigger(t, m) ==
  CASE t = "death_in_window" -> DeathInWindow(m)
    [] t = "loses_the_cops" -> LosesTheCops(m)
    [] t = "survives_a_chase" -> SurvivesAChase(m)
    [] t = "survives_a_fight" -> SurvivesAFight(m)
    [] t = "mission_outcome" -> MissionOutcome(m)
    [] t = "two_star_standoff" -> TwoStarStandoff(m)
    [] t \in Ambient -> OrdinaryFreeRoam(m)

-----------------------------------------------------------------------------
(* generate.                                                               *)

MinGap == 1
TypeCooldown == 2

OffersInit ==
  /\ asker = [since |-> RoundEvery, type |-> "none", picked |-> [t \in Asking |-> TypeCooldown],
              event |-> EventEvery, open |-> {}]
  /\ failing = [raised |-> 0, refused |-> 0] /\ buffered = FALSE
  /\ page = {} /\ sinceEvent = EventEvery

\* _prune_open.
StillOpen(open) == {q \in open : q.left > 0}

\* Mutant: only the last question is looked at.
EventsOfferableSoon == asker.type \notin WantedEvents

\* _events_offerable: never two in a row, never two in an hour.
EventsOfferable == asker.type \notin WantedEvents /\ asker.event >= EventEvery

\* _ambient_round_open: nothing at all was asked for a whole round.
RoundOpen == asker.since >= RoundEvery

\* _calibration_for: enough windows were sampled, and the rate is no foregone conclusion.
InBand(t, m) == t \in m.measured

Eligible(t, m) ==
  /\ t # asker.type
  /\ t \in WantedEvents => EventsOfferable
  /\ t \in Ambient => RoundOpen /\ InBand(t, m)
  /\ asker.picked[t] >= TypeCooldown
  /\ Trigger(t, m)

\* A question about the moment comes before the rounds, whichever ranks best.
Candidates(m) ==
  LET all == {t \in Asking : Eligible(t, m)} IN
  IF all \ Ambient # {} THEN all \ Ambient ELSE all

May(m) == asker.since >= MinGap /\ Cardinality(StillOpen(asker.open)) < MaxOpen /\ m.session

\* Two of a type are never asked in one minute, so a type and its time name a question.
Opening(t) == [type |-> t, left |-> Lasts[t]]
Asked(t) ==
  [since |-> 0, type |-> t, picked |-> [asker.picked EXCEPT ![t] = 0],
   event |-> IF t \in WantedEvents THEN 0 ELSE asker.event,
   open |-> StillOpen(asker.open) \cup {Opening(t)}]

-----------------------------------------------------------------------------
(* The loop.                                                               *)

Failures == failing.raised + failing.refused

\* _offer_prediction: the generator has asked before the writer is tried; one that
\* fails while it builds the row has not asked.
Offer(m, t, raised) ==
  /\ m.believed /\ Failures < FailureLimit
  /\ May(m) /\ t \in Candidates(m)
  /\ asker' = IF raised = "building" THEN [asker EXCEPT !.open = StillOpen(@)] ELSE Asked(t)
  /\ IF raised # "nothing"
       THEN failing' = [failing EXCEPT !.raised = @ + 1] /\ UNCHANGED <<buffered, page, sinceEvent>>
       ELSE /\ failing' = [failing EXCEPT !.raised = 0] /\ buffered' = TRUE
            /\ page' = StillOpen(page) \cup {Opening(t)}
            /\ sinceEvent' = IF t \in WantedEvents THEN 0 ELSE sinceEvent

\* A flush that carries a question: the table takes it or refuses it.
Flush(refused) ==
  /\ buffered /\ buffered' = refused
  /\ failing' = [failing EXCEPT !.refused = IF refused THEN (IF @ < FailureLimit THEN @ + 1 ELSE @) ELSE 0]
  /\ UNCHANGED <<asker, page, sinceEvent>>

Aged(open) == {[q EXCEPT !.left = IF @ > 0 THEN @ - 1 ELSE 0] : q \in open}
Grow(n, top) == IF n < top THEN n + 1 ELSE top

MinutePasses ==
  /\ asker' = [asker EXCEPT !.since = Grow(@, RoundEvery), !.event = Grow(@, EventEvery),
                            !.picked = [t \in Asking |-> Grow(@[t], TypeCooldown)],
                            !.open = StillOpen(Aged(@))]
  /\ page' = StillOpen(Aged(page)) /\ sinceEvent' = Grow(sinceEvent, EventEvery)
  /\ UNCHANGED <<failing, buffered>>

OffersNext ==
  \/ \E m \in Instants, t \in Asking, raised \in {"nothing", "building", "writing"} : Offer(m, t, raised)
  \/ \E refused \in BOOLEAN : Flush(refused)
  \/ MinutePasses

OffersSpec == OffersInit /\ [][OffersNext]_offersVars

-----------------------------------------------------------------------------
(* Properties.                                                             *)

\* What a process puts on the page is rationed, whatever the writer did to the
\* questions in between: never more than the cap undecided at once, and no
\* WANTED EVENT within an hour of the last.
Measured ==
  /\ Cardinality(StillOpen(page')) <= MaxOpen
  /\ Cardinality(page') > Cardinality(StillOpen(page)) /\ asker'.type \in WantedEvents
       => sinceEvent = EventEvery
AskedInMeasure == [][Measured]_offersVars
=============================================================================
