------------------------------ MODULE SumProofs ------------------------------
(***************************************************************************)
(* Sums over finite sets, as the credits, caps and pools of this system    *)
(* are added up (MapThenSumSet of FiniteSetsExt): a sum has a value, which *)
(* no order of its terms changes, and grows with them.                     *)
(***************************************************************************)
EXTENDS Integers, FiniteSetsExt, FiniteSetTheorems, WellFoundedInduction, TLAPS

Total(f, S) == MapThenSumSet(LAMBDA x : f[x], S)

Counts(f, S) == \A x \in S : f[x] \in Nat

-----------------------------------------------------------------------------
(* Induction over the subsets of a finite set                              *)

\* A set of subsets that has every set all of whose proper subsets it has,
\* has them all.
LEMMA SubsetInduction ==
    ASSUME NEW S, IsFiniteSet(S), NEW Good,
           \A T \in SUBSET S :
              (\A U \in SUBSET T : U # T => U \in Good) => T \in Good
    PROVE  SUBSET S \subseteq Good
  <1> DEFINE bad == (SUBSET S) \ Good
  <1> SUFFICES ASSUME bad # {} PROVE FALSE
    OBVIOUS
  <1>1. IsWellFoundedOn(StrictSubsetOrdering(S), SUBSET S)
    <2>1. FiniteSubsetsOf(S) = SUBSET S
      BY FS_FiniteSubsetsOfFinite
    <2>2. IsWellFoundedOn(StrictSubsetOrdering(S), FiniteSubsetsOf(S))
      BY FS_StrictSubsetOrderingWellFounded
    <2> QED
      BY <2>1, <2>2
  <1>2. PICK T \in bad : \A U \in bad : <<U, T>> \notin StrictSubsetOrdering(S)
    <2>1. bad \subseteq SUBSET S
      OBVIOUS
    <2> DEFINE order == StrictSubsetOrdering(S)
    <2>2. IsWellFoundedOn(order, SUBSET S)
      BY <1>1
    <2> HIDE DEF bad, order
    <2>3. \E T \in bad : \A U \in bad : ~ (<<U, T>> \in order)
      BY <2>1, <2>2, WFMin
    <2> QED
      BY <2>3 DEF order
  <1>3. \A U \in SUBSET T : U # T => U \in Good
    BY <1>2 DEF StrictSubsetOrdering
  <1> QED
    BY <1>2, <1>3

-----------------------------------------------------------------------------
(* The recursive function behind a sum                                     *)

Pick(s) == CHOOSE x \in s : TRUE
Turn(f, it, s) == IF s = {} THEN 0 ELSE f[Pick(s)] + it[s \ {Pick(s)}]
IsSum(it, f, S) == it = [s \in SUBSET S |-> Turn(f, it, s)]

LEMMA Picked ==
    ASSUME NEW s, s # {}
    PROVE  Pick(s) \in s /\ s \ {Pick(s)} \in SUBSET s /\ s \ {Pick(s)} # s
  BY DEF Pick

LEMMA TotalIs ==
    ASSUME NEW f, NEW S
    PROVE  Total(f, S) = (CHOOSE it : IsSum(it, f, S))[S]
  BY DEF Total, MapThenSumSet, MapThenFoldSet, IsSum, Turn, Pick

\* Two such functions agree where both are defined.
LEMMA SumsAgree ==
    ASSUME NEW f, NEW S, IsFiniteSet(S), NEW T \in SUBSET S,
           NEW g, IsSum(g, f, S), NEW h, IsSum(h, f, T)
    PROVE  \A s \in SUBSET T : g[s] = h[s]
  <1> DEFINE Good == {s \in SUBSET T : g[s] = h[s]}
  <1>1. IsFiniteSet(T)
    BY FS_Subset
  <1>2. ASSUME NEW s \in SUBSET T, \A U \in SUBSET s : U # s => U \in Good
        PROVE  s \in Good
    <2>1. g[s] = Turn(f, g, s) /\ h[s] = Turn(f, h, s)
      BY DEF IsSum
    <2>2. CASE s = {}
      BY <2>1, <2>2 DEF Turn
    <2>3. CASE s # {}
      BY <1>2, <2>1, <2>3, Picked DEF Turn
    <2> QED
      BY <2>2, <2>3
  <1>3. SUBSET T \subseteq Good
    <2> HIDE DEF Good
    <2> QED
      BY <1>1, <1>2, SubsetInduction
  <1> QED
    BY <1>3

LEMMA SumsShare ==
    ASSUME NEW f, NEW S, IsFiniteSet(S), NEW T \in SUBSET S,
           NEW its, IsSum(its[S], f, S), IsSum(its[T], f, T)
    PROVE  its[S][T] = its[T][T]
  <1>1. ASSUME NEW g, IsSum(g, f, S), NEW h, IsSum(h, f, T)
        PROVE  g[T] = h[T]
    BY <1>1, SumsAgree
  <1> QED
    BY <1>1

\* There is one.
LEMMA SumExists ==
    ASSUME NEW f, NEW S, IsFiniteSet(S)
    PROVE  \E it : IsSum(it, f, S)
  <1> DEFINE Good == {T \in SUBSET S : \E it : IsSum(it, f, T)}
  <1>1. ASSUME NEW T \in SUBSET S, \A U \in SUBSET T : U # T => U \in Good
        PROVE  T \in Good
    <2> DEFINE its == [U \in (SUBSET T) \ {T} |-> CHOOSE it : IsSum(it, f, U)]
               val == [s \in SUBSET T |->
                          IF s # T THEN its[s][s]
                          ELSE IF T = {} THEN 0
                          ELSE f[Pick(T)] + its[T \ {Pick(T)}][T \ {Pick(T)}]]
    <2>1. ASSUME NEW U \in (SUBSET T) \ {T} PROVE IsSum(its[U], f, U)
      BY <1>1
    <2> HIDE DEF its
    <2>2. ASSUME NEW s \in SUBSET T PROVE val[s] = Turn(f, val, s)
      <3>1. CASE s = {}
        <4>1. CASE s = T
          BY <3>1, <4>1 DEF Turn
        <4>2. CASE s # T
          BY <2>1, <3>1, <4>2 DEF Turn, IsSum
        <4> QED
          BY <4>1, <4>2
      <3>2. CASE s # {}
        <4> DEFINE u == s \ {Pick(s)}
        <4>1. u \in SUBSET s /\ u # s /\ u # T /\ u \in SUBSET T
          BY <3>2, Picked
        <4>2. val[u] = its[u][u]
          BY <4>1
        <4>3. CASE s = T
          BY <3>2, <4>2, <4>3 DEF Turn
        <4>4. CASE s # T
          <5>1. IsSum(its[s], f, s) /\ IsSum(its[u], f, u)
            BY <2>1, <4>1, <4>4
          <5>2. IsFiniteSet(s)
            BY FS_Subset
          <5>3. its[s][u] = its[u][u]
            BY <4>1, <5>1, <5>2, SumsShare
          <5>4. val[s] = Turn(f, its[s], s)
            BY <4>4, <5>1 DEF IsSum
          <5> QED
            BY <3>2, <4>2, <5>3, <5>4 DEF Turn
        <4> QED
          BY <4>3, <4>4
      <3> QED
        BY <3>1, <3>2
    <2>3. IsSum(val, f, T)
      <3> DEFINE turns == [s \in SUBSET T |-> Turn(f, val, s)]
      <3>1. val = turns
        BY <2>2
      <3> QED
        BY <3>1 DEF IsSum
    <2> QED
      BY <2>3
  <1>2. SUBSET S \subseteq Good
    <2> HIDE DEF Good
    <2> QED
      BY <1>1, SubsetInduction
  <1> QED
    BY <1>2

\* What a sum is, in terms of a smaller one.
LEMMA TotalTurn ==
    ASSUME NEW f, NEW S, IsFiniteSet(S)
    PROVE  Total(f, S) = IF S = {} THEN 0
                         ELSE f[Pick(S)] + Total(f, S \ {Pick(S)})
  <1> DEFINE u == S \ {Pick(S)}
             g == CHOOSE it : IsSum(it, f, S)
             h == CHOOSE it : IsSum(it, f, u)
  <1>1. IsFiniteSet(u) /\ u \in SUBSET S
    BY FS_Subset
  <1>2. IsSum(g, f, S) /\ IsSum(h, f, u)
    BY <1>1, SumExists
  <1>3. Total(f, S) = g[S] /\ Total(f, u) = h[u]
    BY TotalIs
  <1> HIDE DEF g, h
  <1>4. g[S] = Turn(f, g, S)
    BY <1>2 DEF IsSum
  <1>5. g[u] = h[u]
    BY <1>1, <1>2, SumsAgree
  <1> QED
    BY <1>3, <1>4, <1>5 DEF Turn

-----------------------------------------------------------------------------
(* What a reader of a sum needs to know of it                              *)

\* The empty sum.
LEMMA TotalEmpty ==
    ASSUME NEW f
    PROVE  Total(f, {}) = 0
  BY TotalTurn, FS_EmptySet

\* A sum of natural numbers is one.
LEMMA TotalType ==
    ASSUME NEW f, NEW S, IsFiniteSet(S), Counts(f, S)
    PROVE  Total(f, S) \in Nat
  <1> DEFINE Good == {T \in SUBSET S : Total(f, T) \in Nat}
  <1>1. ASSUME NEW T \in SUBSET S, \A U \in SUBSET T : U # T => U \in Good
        PROVE  T \in Good
    <2>1. IsFiniteSet(T)
      BY FS_Subset
    <2>2. CASE T = {}
      BY <2>2, TotalEmpty
    <2>3. CASE T # {}
      <3>1. Total(f, T \ {Pick(T)}) \in Nat /\ f[Pick(T)] \in Nat
        BY <1>1, <2>3, Picked DEF Counts
      <3>2. Total(f, T) = f[Pick(T)] + Total(f, T \ {Pick(T)})
        BY <2>1, <2>3, TotalTurn
      <3> QED
        BY <3>1, <3>2
    <2> QED
      BY <2>2, <2>3
  <1>2. SUBSET S \subseteq Good
    <2> HIDE DEF Good
    <2> QED
      BY <1>1, SubsetInduction
  <1> QED
    BY <1>2

\* Any of the terms may be the last one.
LEMMA TotalWithout ==
    ASSUME NEW f, NEW S, IsFiniteSet(S), Counts(f, S), NEW x \in S
    PROVE  Total(f, S) = f[x] + Total(f, S \ {x})
  <1> DEFINE Good == {T \in SUBSET S :
                         \A y \in T : Total(f, T) = f[y] + Total(f, T \ {y})}
  <1>1. ASSUME NEW T \in SUBSET S, \A U \in SUBSET T : U # T => U \in Good,
               NEW y \in T
        PROVE  Total(f, T) = f[y] + Total(f, T \ {y})
    <2> DEFINE z == Pick(T)
    <2>0. IsFiniteSet(T) /\ IsFiniteSet(T \ {y}) /\ IsFiniteSet((T \ {y}) \ {z})
      BY FS_Subset
    <2>1. z \in T /\ Total(f, T) = f[z] + Total(f, T \ {z})
      BY <2>0, Picked, TotalTurn
    <2>2. CASE y = z
      BY <2>1, <2>2
    <2>3. CASE y # z
      <3>1. T \ {z} \in Good /\ T \ {y} \in Good
        BY <1>1, <2>1
      <3>2. y \in T \ {z} /\ z \in T \ {y} /\ (T \ {z}) \ {y} = (T \ {y}) \ {z}
        BY <2>1, <2>3
      <3>3. Total(f, T \ {z}) = f[y] + Total(f, (T \ {y}) \ {z})
        BY <3>1, <3>2
      <3>4. Total(f, T \ {y}) = f[z] + Total(f, (T \ {y}) \ {z})
        BY <3>1, <3>2
      <3>5. /\ f[y] \in Nat /\ f[z] \in Nat
            /\ Total(f, (T \ {y}) \ {z}) \in Nat
        BY <2>0, <2>1, TotalType DEF Counts
      <3> HIDE DEF Good, z
      <3> QED
        BY <2>1, <3>3, <3>4, <3>5
    <2> QED
      BY <2>2, <2>3
  <1>2. SUBSET S \subseteq Good
    <2>1. \A T \in SUBSET S :
              (\A U \in SUBSET T : U # T => U \in Good) => T \in Good
      BY <1>1
    <2> HIDE DEF Good
    <2> QED
      BY <2>1, SubsetInduction
  <1> QED
    BY <1>2

\* A sum over one term.
LEMMA TotalOne ==
    ASSUME NEW f, NEW x, f[x] \in Nat
    PROVE  Total(f, {x}) = f[x]
  <1>1. IsFiniteSet({x}) /\ Counts(f, {x}) /\ {x} \ {x} = {}
    BY FS_Singleton DEF Counts
  <1>2. Total(f, {x}) = f[x] + Total(f, {})
    BY <1>1, TotalWithout
  <1> QED
    BY <1>2, TotalEmpty

\* Terms that agree have the same sum.
LEMMA TotalSame ==
    ASSUME NEW f, NEW g, NEW S, IsFiniteSet(S), \A x \in S : f[x] = g[x]
    PROVE  Total(f, S) = Total(g, S)
  <1> DEFINE Good == {T \in SUBSET S : Total(f, T) = Total(g, T)}
  <1>1. ASSUME NEW T \in SUBSET S, \A U \in SUBSET T : U # T => U \in Good
        PROVE  T \in Good
    <2>1. IsFiniteSet(T)
      BY FS_Subset
    <2>2. CASE T = {}
      BY <2>2, TotalEmpty
    <2>3. CASE T # {}
      <3>1. Total(f, T \ {Pick(T)}) = Total(g, T \ {Pick(T)})
        BY <1>1, <2>3, Picked
      <3>2. f[Pick(T)] = g[Pick(T)]
        BY <2>3, Picked
      <3> QED
        BY <2>1, <2>3, <3>1, <3>2, TotalTurn
    <2> QED
      BY <2>2, <2>3
  <1>2. SUBSET S \subseteq Good
    <2> HIDE DEF Good
    <2> QED
      BY <1>1, SubsetInduction
  <1> QED
    BY <1>2

\* One term changes.
LEMMA TotalChanged ==
    ASSUME NEW f, NEW g, NEW S, IsFiniteSet(S), Counts(f, S), Counts(g, S),
           NEW x \in S, \A y \in S \ {x} : f[y] = g[y]
    PROVE  Total(g, S) + f[x] = Total(f, S) + g[x]
  <1>1. IsFiniteSet(S \ {x}) /\ Counts(f, S \ {x}) /\ Counts(g, S \ {x})
    BY FS_Subset DEF Counts
  <1>2. Total(f, S \ {x}) = Total(g, S \ {x})
    BY <1>1, TotalSame
  <1>3. /\ Total(f, S) = f[x] + Total(f, S \ {x})
        /\ Total(g, S) = g[x] + Total(g, S \ {x})
    BY TotalWithout
  <1>4. Total(f, S \ {x}) \in Nat /\ f[x] \in Nat /\ g[x] \in Nat
    BY <1>1, TotalType DEF Counts
  <1> QED
    BY <1>2, <1>3, <1>4

\* Terms that add up, add up in the sum.
LEMMA TotalPlus ==
    ASSUME NEW f, NEW g, NEW h, NEW S, IsFiniteSet(S),
           Counts(f, S), Counts(g, S), \A x \in S : h[x] = f[x] + g[x]
    PROVE  Total(h, S) = Total(f, S) + Total(g, S)
  <1> DEFINE Good == {T \in SUBSET S : Total(h, T) = Total(f, T) + Total(g, T)}
  <1>1. ASSUME NEW T \in SUBSET S, \A U \in SUBSET T : U # T => U \in Good
        PROVE  T \in Good
    <2>1. IsFiniteSet(T)
      BY FS_Subset
    <2>2. CASE T = {}
      BY <2>2, TotalEmpty
    <2>3. CASE T # {}
      <3> DEFINE z == Pick(T)
                 u == T \ {z}
      <3>1. z \in S /\ u \in SUBSET T /\ u # T /\ IsFiniteSet(u)
        BY <2>1, <2>3, Picked, FS_Subset
      <3>2. Total(h, u) = Total(f, u) + Total(g, u)
        BY <1>1, <3>1
      <3>3. /\ Total(f, T) = f[z] + Total(f, u) /\ Total(g, T) = g[z] + Total(g, u)
            /\ Total(h, T) = h[z] + Total(h, u)
        BY <2>1, <2>3, TotalTurn
      <3>4. Counts(f, u) /\ Counts(g, u)
        BY <3>1 DEF Counts
      <3>5. /\ f[z] \in Nat /\ g[z] \in Nat /\ h[z] = f[z] + g[z]
            /\ Total(f, u) \in Nat /\ Total(g, u) \in Nat
        BY <3>1, <3>4, TotalType DEF Counts
      <3> HIDE DEF z, u
      <3>6. Total(h, T) = Total(f, T) + Total(g, T)
        BY <3>2, <3>3, <3>5
      <3> QED
        BY <3>6
    <2> QED
      BY <2>2, <2>3
  <1>2. SUBSET S \subseteq Good
    <2> HIDE DEF Good
    <2> QED
      BY <1>1, SubsetInduction
  <1> QED
    BY <1>2

\* Terms that are no smaller have a sum that is no smaller.
LEMMA TotalGrows ==
    ASSUME NEW f, NEW g, NEW S, IsFiniteSet(S), Counts(f, S), Counts(g, S),
           \A x \in S : f[x] <= g[x]
    PROVE  Total(f, S) <= Total(g, S)
  <1> DEFINE more == [x \in S |-> g[x] - f[x]]
  <1>1. Counts(more, S) /\ \A x \in S : g[x] = f[x] + more[x]
    BY DEF Counts
  <1> HIDE DEF more
  <1>2. Total(g, S) = Total(f, S) + Total(more, S)
    BY <1>1, TotalPlus
  <1> QED
    BY <1>1, <1>2, TotalType

\* Moving terms to other places, no two to one, leaves their sum.
LEMMA TotalMoved ==
    ASSUME NEW f, NEW g, NEW S, IsFiniteSet(S), Counts(f, S), NEW h,
           \A x, y \in S : h[x] = h[y] => x = y,
           \A x \in S : g[h[x]] = f[x]
    PROVE  Total(g, {h[x] : x \in S}) = Total(f, S)
  <1> DEFINE Moved(T) == {h[x] : x \in T}
             Good == {T \in SUBSET S : IsFiniteSet(Moved(T)) /\ Total(g, Moved(T)) = Total(f, T)}
  <1>1. ASSUME NEW T \in SUBSET S, \A U \in SUBSET T : U # T => U \in Good
        PROVE  T \in Good
    <2>1. CASE T = {}
      <3>1. Moved(T) = {}
        BY <2>1
      <3> QED
        BY <2>1, <3>1, TotalEmpty, FS_EmptySet
    <2>2. CASE T # {}
      <3> DEFINE x == Pick(T)
                 U == T \ {x}
      <3>1. x \in T /\ U \in SUBSET T /\ U # T
        BY <2>2, Picked
      <3>2. IsFiniteSet(Moved(U)) /\ Total(g, Moved(U)) = Total(f, U)
        BY <1>1, <3>1
      <3>3. Moved(T) = Moved(U) \cup {h[x]} /\ Moved(T) \ {h[x]} = Moved(U) /\ h[x] \in Moved(T)
        BY <3>1
      <3>4. IsFiniteSet(Moved(T)) /\ Counts(g, Moved(T))
        <4>1. IsFiniteSet(Moved(U) \cup {h[x]})
          <5> HIDE DEF Moved, x, U
          <5> QED
            BY <3>2, FS_AddElement
        <4>2. \A z \in T : g[h[z]] \in Nat
          BY DEF Counts
        <4> QED
          BY <3>3, <4>1, <4>2 DEF Counts
      <3>5. IsFiniteSet(T) /\ Counts(f, T)
        BY FS_Subset DEF Counts
      <3> HIDE DEF Moved, x, U
      <3>6. Total(g, Moved(T)) = g[h[x]] + Total(g, Moved(T) \ {h[x]})
        BY <3>3, <3>4, TotalWithout
      <3>7. Total(f, T) = f[x] + Total(f, T \ {x})
        BY <3>1, <3>5, TotalWithout
      <3>8. g[h[x]] = f[x] /\ T \ {x} = U
        BY <3>1 DEF U
      <3> QED
        BY <3>2, <3>3, <3>4, <3>6, <3>7, <3>8
    <2> QED
      BY <2>1, <2>2
  <1>2. SUBSET S \subseteq Good
    <2> HIDE DEF Good
    <2> QED
      BY <1>1, SubsetInduction
  <1> QED
    BY <1>2

\* A finite set of natural numbers with a member has a largest one.
LEMMA LargestExists ==
    ASSUME NEW S, IsFiniteSet(S), S \subseteq Nat, S # {}
    PROVE  \E m \in S : \A x \in S : x <= m
  <1> DEFINE Good == {T \in SUBSET S : T = {} \/ \E m \in T : \A x \in T : x <= m}
  <1>1. ASSUME NEW T \in SUBSET S, \A U \in SUBSET T : U # T => U \in Good
        PROVE  T \in Good
    <2>1. CASE T # {}
      <3>1. PICK y \in T : y = Pick(T)
        BY <2>1, Picked
      <3>2. T \ {y} \in Good
        <4>1. T \ {y} \in SUBSET T /\ T \ {y} # T
          BY <3>1
        <4> HIDE DEF Good
        <4> QED
          BY <1>1, <4>1
      <3>3. CASE T \ {y} = {}
        BY <3>1, <3>3
      <3>4. CASE T \ {y} # {}
        <4>1. PICK m \in T \ {y} : \A x \in T \ {y} : x <= m
          BY <3>2, <3>4
        <4>2. CASE m <= y
          <5>1. \A x \in T : x <= y
            BY <4>1, <4>2, <3>1
          <5> QED
            BY <3>1, <5>1
        <4>3. CASE y <= m
          <5>1. \A x \in T : x <= m
            BY <4>1, <4>3
          <5> QED
            BY <4>1, <5>1
        <4> QED
          BY <4>1, <4>2, <4>3, <3>1
      <3> QED
        BY <3>3, <3>4
    <2> QED
      BY <2>1
  <1>2. SUBSET S \subseteq Good
    <2> HIDE DEF Good
    <2> QED
      BY <1>1, SubsetInduction
  <1> QED
    BY <1>2

\* Nothing at all sums to nothing.
LEMMA TotalNothing ==
    ASSUME NEW f, NEW S, IsFiniteSet(S), \A x \in S : f[x] = 0
    PROVE  Total(f, S) = 0
  <1>1. Counts(f, S)
    BY DEF Counts
  <1>2. Total(f, S) = Total(f, S) + Total(f, S)
    BY <1>1, TotalPlus
  <1>3. Total(f, S) \in Nat
    BY <1>1, TotalType
  <1>4. \A t \in Nat : t = t + t => t = 0
    OBVIOUS
  <1> QED
    BY <1>2, <1>3, <1>4

\* A sum over two sets with nothing in common is one of two sums.
LEMMA TotalJoined ==
    ASSUME NEW f, NEW S, NEW T, IsFiniteSet(S), IsFiniteSet(T), S \cap T = {},
           Counts(f, S \cup T)
    PROVE  Total(f, S \cup T) = Total(f, S) + Total(f, T)
  <1> DEFINE Good == {U \in SUBSET T : Total(f, S \cup U) = Total(f, S) + Total(f, U)}
  <1>1. ASSUME NEW U \in SUBSET T, \A V \in SUBSET U : V # U => V \in Good
        PROVE  U \in Good
    <2>1. CASE U = {}
      <3>1. Total(f, S) \in Nat
        BY TotalType DEF Counts
      <3>2. S \cup U = S /\ Total(f, U) = 0
        BY <2>1, TotalEmpty
      <3> QED
        BY <3>1, <3>2
    <2>2. CASE U # {}
      <3>1. PICK x \in U : TRUE
        BY <2>2
      <3> DEFINE V == U \ {x}
      <3>2. V \in SUBSET U /\ V # U /\ (S \cup U) \ {x} = S \cup V
        BY <3>1
      <3>3. Total(f, S \cup V) = Total(f, S) + Total(f, V)
        BY <1>1, <3>2
      <3>4. IsFiniteSet(U) /\ IsFiniteSet(S \cup U) /\ IsFiniteSet(V)
        BY FS_Subset, FS_Union
      <3>5. Counts(f, U) /\ Counts(f, S \cup U) /\ Counts(f, V) /\ Counts(f, S)
        BY DEF Counts
      <3>6. Total(f, U) = f[x] + Total(f, V)
        BY <3>4, <3>5, TotalWithout
      <3>7. Total(f, S \cup U) = f[x] + Total(f, S \cup V)
        BY <3>1, <3>2, <3>4, <3>5, TotalWithout
      <3>8. f[x] \in Nat /\ Total(f, V) \in Nat /\ Total(f, S) \in Nat
        BY <3>1, <3>4, <3>5, TotalType DEF Counts
      <3> HIDE DEF V
      <3> QED
        BY <3>3, <3>6, <3>7, <3>8
    <2> QED
      BY <2>1, <2>2
  <1> HIDE DEF Good
  <1>2. SUBSET T \subseteq Good
    BY <1>1, SubsetInduction
  <1> QED
    BY <1>2 DEF Good
=============================================================================
