------------------------------ MODULE Telemetry -----------------------------
(***************************************************************************)
(* Settlement deciding on telemetry as the event writer delivers it: the   *)
(* rows, the heartbeat and the end of the session that settlement reads    *)
(* are those the writer publishes, and both live by the same clock.        *)
(***************************************************************************)
EXTENDS EventWriter

CONSTANTS
    Predictions, Wallets, Callers, LocksAt, ResolvesAt, Rules, Pool,
    Grace, MaxPerPrediction, WalletCap, DailyCaps, MaxAborts, MaxFlips

VARIABLES
    kind, status, result, entries, credit, streak, pending,
    blocked, rewards, dailyCap, flips, tx, aborts

roundVars == <<kind, status, result, entries, credit, streak, pending,
               blocked, rewards, dailyCap, flips, tx, aborts>>

\* What settlement reads of a row; who wrote it is the writer's own affair.
Bare(row) == [ts |-> row.ts, type |-> row.type]

Judge == INSTANCE Settlement WITH
        made <- [i \in DOMAIN made |-> Bare(made[i])],
        events <- {Bare(row) : row \in ToSet(table)},
        MaxTime <- WriterTime

Init == WriterInit /\ Judge!RoundsInit

\* The settlement's clock stands while an entry is in flight at the end of its
\* window; see Settlement.
Publish == WriterNext /\ (now' # now => Judge!ClockFree) /\ UNCHANGED roundVars

Settle == UNCHANGED writerVars /\ Judge!SettlementNext

Next == Publish \/ Settle

Spec == Init /\ [][Next]_<<writerVars, roundVars>>

-----------------------------------------------------------------------------
\* A settled round was decided on everything that happened in its window: once
\* a row recorded at or after the end of the window is there, "the writer had
\* caught up past it" (docs/CONTRACTS-PREDICTIONS.md:234).
GateIsEvidence == Judge!SettledOnWholeWindow
=============================================================================
