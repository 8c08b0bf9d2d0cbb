-------------------------------- MODULE Round -------------------------------
(***************************************************************************)
(* What a prediction promises its entrants (docs/CONTRACTS-PREDICTIONS.md, *)
(* 2 to 6), without telemetry, transactions or drivers: it takes entries,  *)
(* one per wallet, until it is decided; it is decided once; a void round   *)
(* pays nobody, and a settled one shares at most its pool among those who  *)
(* entered the outcome that came true.                                     *)
(***************************************************************************)
EXTENDS Integers, FiniteSets, FiniteSetsExt

CONSTANTS Predictions, Wallets, Outcomes, Pool, NULL

VARIABLES
    verdict,    \* verdict[p]: NULL until decided, then "void" or an outcome
    entries,    \* entries[p][w]: the outcome wallet w entered, or NULL
    paid        \* paid[p][w]: what the ledger credits w for p

roundVars == <<verdict, entries, paid>>

Init ==
    /\ verdict = [p \in Predictions |-> NULL]
    /\ entries = [p \in Predictions |-> [w \in Wallets |-> NULL]]
    /\ paid = [p \in Predictions |-> [w \in Wallets |-> 0]]

Enter(p, w, o) ==
    /\ verdict[p] = NULL /\ entries[p][w] = NULL
    /\ entries' = [entries EXCEPT ![p][w] = o]
    /\ UNCHANGED <<verdict, paid>>

\* The rounds of D are decided together, every other is left alone.
Decide(D) ==
    /\ \A p \in D : verdict[p] = NULL
    /\ verdict' \in [Predictions -> Outcomes \cup {"void", NULL}]
    /\ \A p \in Predictions : verdict'[p] = verdict[p] <=> p \notin D
    /\ \A p \in Predictions \ D : paid'[p] = paid[p]
    /\ \A p \in D :
        /\ \A w \in Wallets : paid'[p][w] > 0 =>
              verdict'[p] # "void" /\ entries[p][w] = verdict'[p]
        /\ MapThenSumSet(LAMBDA w : paid'[p][w], Wallets) <= Pool[p]
    /\ UNCHANGED entries

Next ==
    \/ \E p \in Predictions, w \in Wallets, o \in Outcomes : Enter(p, w, o)
    \/ \E D \in SUBSET Predictions : D # {} /\ Decide(D)

RoundSpec == Init /\ [][Next]_roundVars
=============================================================================
