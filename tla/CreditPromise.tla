---------------------------- MODULE CreditPromise ---------------------------
(***************************************************************************)
(* What the payout pipeline promises a viewer, without claims, nonces,     *)
(* runs or a chain (docs/CONTRACTS-PREDICTIONS.md 10.1): a credit won is   *)
(* owed; it may be set aside for a transfer together with others of its    *)
(* wallet; it comes back whole or the transfer pays all of it, once.       *)
(***************************************************************************)
EXTENDS Integers, FiniteSets, FiniteSetsExt

CONSTANTS Wallets, Credits, Owner, Amount

VARIABLES
    state,      \* state[k] of credit k
    received    \* received[w]: what the chain has paid wallet w

promiseVars == <<state, received>>

CreditStates == {"none", "owed", "reserved", "paid"}

Init == /\ state = [k \in Credits |-> "none"]
        /\ received = [w \in Wallets |-> 0]

Move(K, from, to) ==
    /\ \A k \in K : state[k] = from
    /\ state' = [k \in Credits |-> IF k \in K THEN to ELSE state[k]]

\* Sets of credits one transfer can carry.
Batches == {K \in SUBSET Credits :
                K # {} /\ \A j, k \in K : Owner[j] = Owner[k]}

Win(k) == Move({k}, "none", "owed") /\ UNCHANGED received

Reserve(K) == Move(K, "owed", "reserved") /\ UNCHANGED received

GiveBack(K) == Move(K, "reserved", "owed") /\ UNCHANGED received

Pay(K) ==
    /\ Move(K, "reserved", "paid")
    /\ \E w \in Wallets :
        /\ \A k \in K : Owner[k] = w
        /\ received' = [received EXCEPT ![w] =
               @ + MapThenSumSet(LAMBDA k : Amount[k], K)]

Next == \/ \E k \in Credits : Win(k)
        \/ \E K \in Batches : Reserve(K) \/ GiveBack(K) \/ Pay(K)

PromiseSpec == Init /\ [][Next]_promiseVars
=============================================================================
