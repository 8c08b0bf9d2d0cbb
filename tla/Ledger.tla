-------------------------------- MODULE Ledger --------------------------------
(***************************************************************************)
(* What survives a restart: the brain budget governor (budget.py) and the  *)
(* lifetime totals (totals.py), wired together by main.py.  The governor   *)
(* counts the calls of the last hour; the totals carry a copy of that list *)
(* and the counters of the page to lifetime.json, on a heartbeat and at    *)
(* every death; the next process starts from the file.                     *)
(***************************************************************************)
EXTENDS Naturals, FiniteSets, FiniteSetsExt

\* Parts of an hour; the cap of the hourly spend, in calls; a bound on deaths.
CONSTANTS Parts, Cap, MaxDeaths
ASSUME LedgerConstants == Parts \in Nat \ {0} /\ Cap \in Nat \ {0} /\ MaxDeaths \in Nat

VARIABLES
  governor,  \* BudgetGovernor: calls by age
  totals,    \* LifetimeTotals in memory: calls as last adopted, deaths, seeded
  file,      \* lifetime.json
  rows,      \* the most deaths a published row shows
  up,        \* the process runs
  kept,      \* calls of this hour that have reached the file
  fresh      \* calls this process made since

ledgerVars == <<governor, totals, file, rows, up, kept, fresh>>

PartsOfHour == 0 .. Parts - 1
NoCalls == [a \in PartsOfHour |-> 0]
Sum(c) == MapThenSumSet(LAMBDA a : c[a], PartsOfHour)
Plus(c, d) == [a \in PartsOfHour |-> c[a] + d[a]]
Older(c) == [a \in PartsOfHour |-> IF a = 0 THEN 0 ELSE c[a - 1]]
Greater(m, n) == IF m > n THEN m ELSE n

NoFile == [calls |-> NoCalls, deaths |-> 0, seeded |-> FALSE]

\* _level_for: at 70, 90 and 100 percent of the cap.
LevelFor(spend) == Cardinality({t \in {7, 9, 10} : spend * 10 >= t * Cap})

LedgerInit ==
  /\ governor = NoCalls /\ totals = NoFile /\ file = NoFile
  /\ rows = 0 /\ up = FALSE /\ kept = NoCalls /\ fresh = NoCalls

\* save: a temporary file put in the place of the old one, or nothing at all.
Saved(t, ok) == file' = IF ok THEN t ELSE file

-----------------------------------------------------------------------------
(* Start: load, _seed_totals_once, BudgetGovernor.seed.                    *)

\* Mutant: the list of calls is saved and never read back.
LoadedWithoutCalls(f) == [f EXCEPT !.calls = NoCalls]

\* load: a file that is missing or unreadable is a first start.
Loaded(f) == f

\* summarise_lifetime_seed: the published rows are running totals, the largest counts.
LifetimeSeed == rows

\* apply_seed: the counters become at least what the published rows show, once.
SeededFrom(t) == [t EXCEPT !.deaths = Greater(@, LifetimeSeed), !.seeded = TRUE]

\* budget_seed and BudgetGovernor.seed: the calls of the last hour, each at its age.
BudgetSeed(t) == t.calls

\* The file may be lost, the rows out of reach: then the next start tries again.
Start(lost, reachable, ok) ==
  /\ ~up /\ up' = TRUE
  /\ LET f == IF lost THEN NoFile ELSE file
         seeds == ~f.seeded /\ reachable
         t == IF seeds THEN SeededFrom(Loaded(f)) ELSE Loaded(f) IN
     /\ totals' = t
     /\ file' = IF seeds /\ ok THEN t ELSE f
     /\ governor' = BudgetSeed(Loaded(f))
     /\ kept' = IF lost THEN NoCalls ELSE kept
  /\ fresh' = NoCalls
  /\ UNCHANGED rows

-----------------------------------------------------------------------------
(* A running process.                                                      *)

\* record: a call returned and is paid for.  At level 3 nobody calls.
Call ==
  /\ up /\ LevelFor(Sum(governor)) < 3
  /\ governor' = [governor EXCEPT ![0] = @ + 1] /\ fresh' = [fresh EXCEPT ![0] = @ + 1]
  /\ UNCHANGED <<totals, file, rows, up, kept>>

\* snapshot and adopt_budget: the totals take the governor's list as it is.
Adopted(t) == [t EXCEPT !.calls = governor]

\* _heartbeat: adopt_budget, save, and the counters published in a stats row.
Beat(ok, lands) ==
  LET t == Adopted(totals) IN
  /\ up /\ totals' = t /\ Saved(t, ok)
  /\ rows' = IF lands THEN Greater(rows, totals.deaths) ELSE rows
  /\ kept' = (IF ok THEN Plus(kept, fresh) ELSE kept) /\ fresh' = (IF ok THEN NoCalls ELSE fresh)
  /\ UNCHANGED <<governor, up>>

\* Calls a heartbeat adopted but could not save reach the file with a later save.
Reached(t) == [a \in PartsOfHour |-> Greater(kept[a], t.calls[a])]

\* bump: counted and saved at once, with the calls as they were last adopted.
Bump(ok) ==
  LET t == [totals EXCEPT !.deaths = @ + 1] IN
  /\ up /\ totals.deaths < MaxDeaths
  /\ totals' = t /\ Saved(t, ok)
  /\ LET k == IF ok THEN Reached(t) ELSE kept IN
     kept' = k /\ fresh' = [a \in PartsOfHour |-> fresh[a] + kept[a] - k[a]]
  /\ UNCHANGED <<governor, rows, up>>

\* A part of an hour passes; what is an hour old is pruned, or not seeded.
PartPasses ==
  /\ governor' = Older(governor) /\ kept' = Older(kept) /\ fresh' = Older(fresh)
  /\ totals' = [totals EXCEPT !.calls = Older(@)] /\ file' = [file EXCEPT !.calls = Older(@)]
  /\ UNCHANGED <<rows, up>>

\* The process is killed, or stops: the shutdown saves the totals as they are.
Ends(saves) ==
  /\ up /\ up' = FALSE
  /\ Saved(totals, saves)
  /\ kept' = (IF saves THEN Reached(totals) ELSE kept) /\ fresh' = NoCalls
  /\ governor' = NoCalls /\ totals' = NoFile /\ UNCHANGED rows

LedgerNext ==
  \/ \E lost, reachable, ok \in BOOLEAN : Start(lost, reachable, ok)
  \/ Call
  \/ \E ok, lands \in BOOLEAN : Beat(ok, lands)
  \/ \E ok \in BOOLEAN : Bump(ok)
  \/ PartPasses
  \/ \E saves \in BOOLEAN : Ends(saves)

LedgerSpec == LedgerInit /\ [][LedgerNext]_ledgerVars

-----------------------------------------------------------------------------
(* Properties.                                                             *)

\* The governor's hour is what it should be: every call that has reached the
\* file since, whoever saved it and whatever for, and every call of this
\* process, none of them forgotten by a restart and none counted twice.
SpendIsRemembered == up => governor = Plus(kept, fresh)
=============================================================================
