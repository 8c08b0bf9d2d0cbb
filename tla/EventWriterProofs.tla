-------------------------- MODULE EventWriterProofs --------------------------
(***************************************************************************)
(* The delivery of telemetry: heartbeats are honest, no event disappears,  *)
(* and none is inserted twice, whatever the loop, the watchdog, the        *)
(* network and the disk do, as long as the lock on the file holds.         *)
(*                                                                         *)
(* At the end: settlement over that telemetry decides on what really       *)
(* happened, as long as nothing disturbs the order of delivery.            *)
(***************************************************************************)
EXTENDS Telemetry, FiniteSetTheorems, WellFoundedInduction, TLAPS

Judging == INSTANCE SettlementProofs WITH
    made <- [i \in DOMAIN made |-> Bare(made[i])],
    events <- {Bare(row) : row \in ToSet(table)},
    MaxTime <- WriterTime

-----------------------------------------------------------------------------
(* Places of a list                                                        *)

Rank(places, i) == Cardinality({j \in places : j <= i})

\* A set of natural numbers that is not empty has a least one.
LEMMA LeastOf ==
    ASSUME NEW S \in SUBSET Nat, S # {}
    PROVE  \E m \in S : \A x \in S : m <= x
  <1> DEFINE order == OpToRel(<, Nat)
  <1>1. IsWellFoundedOn(order, Nat)
    BY NatLessThanWellFounded
  <1> HIDE DEF order
  <1>2. PICK m \in S : \A x \in S : <<x, m>> \notin order
    BY <1>1, WFMin
  <1>3. \A x \in S : ~(x < m)
    BY <1>2 DEF order, OpToRel
  <1> QED
    BY <1>3

\* The ranks of the places of a finite set grow with them.
LEMMA RanksGrow ==
    ASSUME NEW places \in SUBSET Nat, IsFiniteSet(places),
           NEW i \in Nat, NEW j \in places, i < j
    PROVE  /\ Rank(places, i) \in Nat /\ Rank(places, j) \in Nat
           /\ Rank(places, i) < Rank(places, j)
           /\ Rank(places, j) <= Cardinality(places)
  <1> DEFINE low == {x \in places : x <= i}
             high == {x \in places : x <= j}
  <1>c. \A x \in low : x \in high
    <2> SUFFICES ASSUME NEW x \in places, x <= i PROVE x <= j
      OBVIOUS
    <2> QED
      OBVIOUS
  <1>1. low \in SUBSET high /\ high \in SUBSET places /\ low \in SUBSET places
    BY <1>c
  <1>2. j \in high /\ j \notin low
    BY DEF low, high
  <1> HIDE DEF low, high
  <1>a. IsFiniteSet(high) /\ Cardinality(high) <= Cardinality(places)
    BY <1>1, FS_Subset
  <1>b. IsFiniteSet(low)
    BY <1>1, FS_Subset
  <1>3. IsFiniteSet(high) /\ IsFiniteSet(low) /\ Cardinality(high) <= Cardinality(places)
    BY <1>a, <1>b
  <1>4. Cardinality(low) <= Cardinality(high)
        /\ (Cardinality(high) = Cardinality(low) => high = low)
    BY <1>1, <1>3, FS_Subset
  <1>5. Cardinality(high) \in Nat /\ Cardinality(low) \in Nat
    BY <1>3, FS_CardinalityType
  <1>6. Cardinality(low) < Cardinality(high)
    BY <1>2, <1>4, <1>5
  <1> QED
    BY <1>3, <1>5, <1>6 DEF Rank, low, high

\* Every rank up to the number of places is that of one of them.
LEMMA RanksCover ==
    ASSUME NEW places \in SUBSET Nat, IsFiniteSet(places)
    PROVE  /\ Cardinality(places) \in Nat
           /\ \A i \in places : Rank(places, i) \in 1 .. Cardinality(places)
           /\ \A k \in 1 .. Cardinality(places) : \E i \in places : Rank(places, i) = k
  <1> DEFINE size == Cardinality(places)
             f == [i \in places |-> Rank(places, i)]
  <1>1. size \in Nat
    BY FS_CardinalityType
  <1>2. ASSUME NEW i \in places PROVE Rank(places, i) \in 1 .. size
    <2> DEFINE low == {x \in places : x <= i}
    <2>1. low \in SUBSET places /\ i \in low
      OBVIOUS
    <2> HIDE DEF low
    <2>2. IsFiniteSet(low) /\ Cardinality(low) <= size
      BY <2>1, FS_Subset
    <2>3. Cardinality(low) \in Nat /\ Cardinality(low) # 0
      BY <2>1, <2>2, FS_CardinalityType, FS_EmptySet
    <2> QED
      BY <1>1, <2>2, <2>3 DEF Rank, low
  <1>3. ASSUME NEW i \in places, NEW j \in places, Rank(places, i) = Rank(places, j)
        PROVE  i = j
    <2>1. i \in Nat /\ j \in Nat
      OBVIOUS
    <2>2. ~(i < j) /\ ~(j < i)
      BY <1>3, <2>1, RanksGrow
    <2> QED
      BY <2>1, <2>2
  <1> HIDE DEF size
  <1>4. f \in Injection(places, 1 .. size)
    BY <1>2, <1>3 DEF Injection, IsInjective
  <1>5. IsFiniteSet(1 .. size) /\ Cardinality(1 .. size) = size
    BY <1>1, FS_Interval
  <1>6. f \in Surjection(places, 1 .. size)
    BY <1>4, <1>5, FS_Injection DEF size
  <1>7. \A k \in 1 .. size : \E i \in places : f[i] = k
    BY <1>6 DEF Surjection
  <1> QED
    BY <1>1, <1>2, <1>7 DEF size

\* The places of a finite set, counted through in their order.
LEMMA PlacesAre ==
    ASSUME NEW places \in SUBSET Nat, IsFiniteSet(places)
    PROVE  /\ Cardinality(places) \in Nat
           /\ \A k \in 1 .. Cardinality(places) :
                 Place(places, k) \in places /\ Rank(places, Place(places, k)) = k
           /\ \A k, l \in 1 .. Cardinality(places) :
                 k < l => Place(places, k) < Place(places, l)
           /\ \A i \in places : \E k \in 1 .. Cardinality(places) : Place(places, k) = i
  <1> DEFINE size == Cardinality(places)
  <1>1. size \in Nat /\ \A i \in places : Rank(places, i) \in 1 .. size
    BY RanksCover
  <1>2. ASSUME NEW k \in 1 .. size
        PROVE  Place(places, k) \in places /\ Rank(places, Place(places, k)) = k
    <2>1. \E i \in places : Rank(places, i) = k
      BY RanksCover
    <2> QED
      BY <2>1 DEF Place, Rank
  <1>3. ASSUME NEW i \in places, NEW j \in places, Rank(places, i) <= Rank(places, j)
        PROVE  i <= j
    <2>1. i \in Nat /\ j \in Nat /\ Rank(places, i) \in Nat /\ Rank(places, j) \in Nat
      BY <1>1
    <2>2. ~(j < i)
      BY <1>3, <2>1, RanksGrow
    <2> QED
      BY <2>1, <2>2
  <1> HIDE DEF size
  <1>4. ASSUME NEW k \in 1 .. size, NEW l \in 1 .. size, k < l
        PROVE  Place(places, k) < Place(places, l)
    <2> DEFINE a == Place(places, k)
               b == Place(places, l)
    <2>a. a \in places /\ b \in places /\ Rank(places, a) = k /\ Rank(places, b) = l
      BY <1>2
    <2> HIDE DEF a, b
    <2>1. a <= b
      <3>1. Rank(places, a) <= Rank(places, b)
        BY <2>a, <1>4, <1>1
      <3> QED
        BY <2>a, <3>1, <1>3
    <2>2. a # b
      BY <2>a, <1>1, <1>4
    <2>3. a < b
      BY <2>1, <2>2, <2>a
    <2> QED
      BY <2>3 DEF a, b
  <1>5. ASSUME NEW i \in places PROVE \E k \in 1 .. size : Place(places, k) = i
    <2> DEFINE k == Rank(places, i)
    <2>1. k \in 1 .. size
      BY <1>1
    <2>2. Place(places, k) \in places /\ Rank(places, Place(places, k)) = k
      BY <1>2, <2>1
    <2> DEFINE a == Place(places, k)
    <2>a. a \in places /\ Rank(places, a) = Rank(places, i) /\ Rank(places, i) \in Nat
      BY <1>1, <2>2
    <2> HIDE DEF a, k
    <2>3. a <= i /\ i <= a
      BY <2>a, <1>3
    <2>4. a = i
      BY <2>a, <2>3
    <2> QED
      BY <2>1, <2>4 DEF a
  <1> QED
    BY <1>1, <1>2, <1>4, <1>5 DEF size

-----------------------------------------------------------------------------
(* Lists of rows                                                           *)

\* No event stands twice in a list, and no event of one set is in another.
Once(list) == \A i, j \in DOMAIN list : list[i] = list[j] /\ list[i].op = "event" => i = j
Apart(S, T) == \A r \in S : r.op = "event" => r \notin T

\* The events of one set are older than those of another; those of a list stand
\* in the order of their dates, and so do those of a list of lists.
Before(S, T) == \A r \in S, s \in T : r.op = "event" /\ s.op = "event" => r.ts < s.ts
InTurn(list) == \A i, j \in DOMAIN list : i < j => Before({list[i]}, {list[j]})
RunsInTurn(runs) == \A k, l \in DOMAIN runs : k < l => Before(ToSet(runs[k]), ToSet(runs[l]))

\* A list made of rows that stand at different places of another.
DrawnFrom(list, rows, places) ==
    \E p \in [DOMAIN list -> places] :
        /\ \A k \in DOMAIN list : list[k] = rows[p[k]]
        /\ \A k, l \in DOMAIN list : p[k] = p[l] => k = l

Drawn(list, rows) == DrawnFrom(list, rows, DOMAIN rows)

LEMMA DrawnKeeps ==
    ASSUME NEW list, NEW rows, Drawn(list, rows)
    PROVE  ToSet(list) \subseteq ToSet(rows) /\ (Once(rows) => Once(list))
  <1>1. PICK p \in [DOMAIN list -> DOMAIN rows] :
            /\ \A k \in DOMAIN list : list[k] = rows[p[k]]
            /\ \A k, l \in DOMAIN list : p[k] = p[l] => k = l
    BY DEF Drawn, DrawnFrom
  <1>2. ToSet(list) \subseteq ToSet(rows)
    BY <1>1 DEF ToSet
  <1>3. ASSUME Once(rows), NEW k \in DOMAIN list, NEW l \in DOMAIN list,
               list[k] = list[l], list[k].op = "event"
        PROVE  k = l
    <2>1. p[k] \in DOMAIN rows /\ p[l] \in DOMAIN rows
      BY <1>1
    <2>2. rows[p[k]] = rows[p[l]] /\ rows[p[k]].op = "event"
      BY <1>1, <1>3
    <2>3. p[k] = p[l]
      BY <1>3, <2>1, <2>2 DEF Once
    <2> QED
      BY <1>1, <2>3
  <1> QED
    BY <1>2, <1>3 DEF Once

LEMMA DrawnAgain ==
    ASSUME NEW a, NEW b, NEW c, Drawn(a, b), Drawn(b, c)
    PROVE  Drawn(a, c)
  <1>1. PICK p \in [DOMAIN a -> DOMAIN b] :
            /\ \A k \in DOMAIN a : a[k] = b[p[k]]
            /\ \A k, l \in DOMAIN a : p[k] = p[l] => k = l
    BY DEF Drawn, DrawnFrom
  <1>2. PICK q \in [DOMAIN b -> DOMAIN c] :
            /\ \A k \in DOMAIN b : b[k] = c[q[k]]
            /\ \A k, l \in DOMAIN b : q[k] = q[l] => k = l
    BY DEF Drawn, DrawnFrom
  <1> DEFINE r == [k \in DOMAIN a |-> q[p[k]]]
  <1>3. r \in [DOMAIN a -> DOMAIN c]
    BY <1>1, <1>2
  <1>4. \A k \in DOMAIN a : a[k] = c[r[k]]
    BY <1>1, <1>2
  <1>5. \A k, l \in DOMAIN a : r[k] = r[l] => k = l
    BY <1>1, <1>2
  <1> QED
    BY <1>3, <1>4, <1>5 DEF Drawn, DrawnFrom

LEMMA RowsAtAre ==
    ASSUME NEW S, NEW rows \in Seq(S), NEW places \in SUBSET DOMAIN rows
    PROVE  /\ RowsAt(rows, places) \in Seq(S)
           /\ DrawnFrom(RowsAt(rows, places), rows, places)
           /\ Drawn(RowsAt(rows, places), rows)
           /\ ToSet(RowsAt(rows, places)) = {rows[i] : i \in places}
  <1> DEFINE size == Cardinality(places)
             list == RowsAt(rows, places)
             p == [k \in 1 .. size |-> Place(places, k)]
  <1>1. IsFiniteSet(places) /\ places \in SUBSET Nat
    <2>1. DOMAIN rows = 1 .. Len(rows) /\ Len(rows) \in Nat
      OBVIOUS
    <2>2. IsFiniteSet(1 .. Len(rows))
      BY <2>1, FS_Interval
    <2> QED
      BY <2>1, <2>2, FS_Subset
  <1>2. /\ size \in Nat
        /\ \A k \in 1 .. size : Place(places, k) \in places
        /\ \A k, l \in 1 .. size : k < l => Place(places, k) < Place(places, l)
        /\ \A i \in places : \E k \in 1 .. size : Place(places, k) = i
    BY <1>1, PlacesAre
  <1>3. list = [k \in 1 .. size |-> rows[Place(places, k)]]
    BY DEF RowsAt
  <1> HIDE DEF size, list
  <1>4. \A k \in 1 .. size : rows[Place(places, k)] \in S
    BY <1>2
  <1>5. list \in Seq(S) /\ DOMAIN list = 1 .. size
    BY <1>2, <1>3, <1>4
  <1>6. /\ p \in [DOMAIN list -> places] /\ p \in [DOMAIN list -> DOMAIN rows]
        /\ \A k \in DOMAIN list : list[k] = rows[p[k]]
    BY <1>2, <1>3, <1>5
  <1>7. \A k, l \in DOMAIN list : p[k] = p[l] => k = l
    <2> SUFFICES ASSUME NEW k \in 1 .. size, NEW l \in 1 .. size, k # l
                 PROVE  Place(places, k) # Place(places, l)
      BY <1>5
    <2>1. Place(places, k) \in Nat /\ Place(places, l) \in Nat
      BY <1>1, <1>2
    <2>2. k < l \/ l < k
      BY <1>2
    <2> QED
      BY <1>2, <2>1, <2>2
  <1>8. ToSet(list) = {rows[i] : i \in places}
    <2>1. ToSet(list) = {rows[Place(places, k)] : k \in 1 .. size}
      BY <1>3, <1>5 DEF ToSet
    <2> QED
      BY <1>2, <2>1
  <1>9. DrawnFrom(list, rows, places) /\ Drawn(list, rows)
    <2> HIDE DEF p
    <2> QED
      BY <1>6, <1>7 DEF Drawn, DrawnFrom
  <1> QED
    BY <1>5, <1>8, <1>9 DEF list

\* They stand in the order they had.
LEMMA RowsAtInOrder ==
    ASSUME NEW S, NEW rows \in Seq(S), NEW places \in SUBSET DOMAIN rows
    PROVE  \E p \in [DOMAIN RowsAt(rows, places) -> places] :
              /\ \A k \in DOMAIN RowsAt(rows, places) : RowsAt(rows, places)[k] = rows[p[k]]
              /\ \A k, l \in DOMAIN RowsAt(rows, places) : k < l => p[k] < p[l]
  <1> DEFINE size == Cardinality(places)
             list == RowsAt(rows, places)
             p == [k \in 1 .. size |-> Place(places, k)]
  <1>1. IsFiniteSet(places) /\ places \in SUBSET Nat
    <2>1. DOMAIN rows = 1 .. Len(rows) /\ Len(rows) \in Nat
      OBVIOUS
    <2>2. IsFiniteSet(1 .. Len(rows))
      BY <2>1, FS_Interval
    <2> QED
      BY <2>1, <2>2, FS_Subset
  <1>2. /\ \A k \in 1 .. size : Place(places, k) \in places
        /\ \A k, l \in 1 .. size : k < l => Place(places, k) < Place(places, l)
    BY <1>1, PlacesAre
  <1>3. list = [k \in 1 .. size |-> rows[Place(places, k)]] /\ DOMAIN list = 1 .. size
    BY DEF RowsAt
  <1> HIDE DEF size, list
  <1>4. /\ p \in [DOMAIN list -> places]
        /\ \A k \in DOMAIN list : list[k] = rows[p[k]]
        /\ \A k, l \in DOMAIN list : k < l => p[k] < p[l]
    BY <1>2, <1>3
  <1> HIDE DEF p
  <1> QED
    BY <1>4 DEF list

LEMMA SliceDrawn ==
    ASSUME NEW S, NEW rows \in Seq(S), NEW m \in Nat \ {0}, NEW n \in 0 .. Len(rows)
    PROVE  /\ SubSeq(rows, m, n) \in Seq(S)
           /\ Drawn(SubSeq(rows, m, n), rows)
           /\ ToSet(SubSeq(rows, m, n)) = {rows[i] : i \in m .. n}
  <1> DEFINE list == SubSeq(rows, m, n)
             p == [k \in DOMAIN list |-> m + k - 1]
  <1>1. list = [k \in 1 .. (IF m <= n THEN n - m + 1 ELSE 0) |-> rows[m + k - 1]]
    OBVIOUS
  <1>2. DOMAIN list = 1 .. (IF m <= n THEN n - m + 1 ELSE 0)
    BY <1>1
  <1>3. list \in Seq(S)
    <2>1. \A i \in m .. n : i \in 1 .. Len(rows)
      OBVIOUS
    <2> QED
      BY <2>1
  <1>4. \A k \in DOMAIN list : list[k] = rows[m + k - 1] /\ m + k - 1 \in m .. n
    BY <1>1, <1>2
  <1> HIDE DEF list
  <1>5. p \in [DOMAIN list -> DOMAIN rows]
    BY <1>4
  <1>6. \A k, l \in DOMAIN list : p[k] = p[l] => k = l
    BY <1>2
  <1>7. \A k \in DOMAIN list : list[k] = rows[p[k]]
    BY <1>4
  <1>8. Drawn(list, rows)
    <2> HIDE DEF p
    <2> QED
      BY <1>5, <1>6, <1>7 DEF Drawn, DrawnFrom
  <1>9. \A i \in m .. n : i - m + 1 \in DOMAIN list /\ list[i - m + 1] = rows[i]
    BY <1>1, <1>2
  <1>10. ToSet(list) = {rows[i] : i \in m .. n}
    <2>1. ASSUME NEW k \in DOMAIN list PROVE list[k] \in {rows[i] : i \in m .. n}
      BY <1>4
    <2>2. ASSUME NEW i \in m .. n PROVE rows[i] \in ToSet(list)
      BY <1>9 DEF ToSet
    <2> QED
      BY <2>1, <2>2 DEF ToSet
  <1> QED
    BY <1>3, <1>8, <1>10 DEF list

LEMMA Joined ==
    ASSUME NEW S, NEW a \in Seq(S), NEW b \in Seq(S)
    PROVE  /\ a \o b \in Seq(S)
           /\ ToSet(a \o b) = ToSet(a) \cup ToSet(b)
           /\ Once(a) /\ Once(b) /\ Apart(ToSet(a), ToSet(b)) => Once(a \o b)
  <1> DEFINE c == a \o b
  <1>1. c \in Seq(S) /\ Len(c) = Len(a) + Len(b) /\ Len(a) \in Nat /\ Len(b) \in Nat
    OBVIOUS
  <1>2. \A i \in 1 .. Len(c) : c[i] = IF i <= Len(a) THEN a[i] ELSE b[i - Len(a)]
    OBVIOUS
  <1>3. \A i \in DOMAIN a : i \in DOMAIN c /\ c[i] = a[i]
    OBVIOUS
  <1>4. \A i \in DOMAIN b : i + Len(a) \in DOMAIN c /\ c[i + Len(a)] = b[i]
    OBVIOUS
  <1>5. \A i \in DOMAIN c : i \in DOMAIN a \/ (i - Len(a) \in DOMAIN b /\ c[i] = b[i - Len(a)])
    BY <1>1, <1>2
  <1> HIDE DEF c
  <1>6. ToSet(c) = ToSet(a) \cup ToSet(b)
    BY <1>3, <1>4, <1>5 DEF ToSet
  <1>7. ASSUME Once(a), Once(b), Apart(ToSet(a), ToSet(b)),
               NEW i \in DOMAIN c, NEW j \in DOMAIN c, c[i] = c[j], c[i].op = "event"
        PROVE  i = j
    <2>1. \A k \in DOMAIN a, l \in DOMAIN b : a[k] = b[l] => a[k].op # "event"
      BY <1>7 DEF Apart, ToSet
    <2>2. CASE i \in DOMAIN a /\ j \in DOMAIN a
      BY <1>3, <1>7, <2>2 DEF Once
    <2>3. CASE i \in DOMAIN a /\ j \notin DOMAIN a
      BY <1>3, <1>5, <1>7, <2>1, <2>3
    <2>4. CASE i \notin DOMAIN a /\ j \in DOMAIN a
      BY <1>3, <1>5, <1>7, <2>1, <2>4
    <2>5. CASE i \notin DOMAIN a /\ j \notin DOMAIN a
      <3>1. i - Len(a) = j - Len(a)
        BY <1>5, <1>7, <2>5 DEF Once
      <3> QED
        BY <1>1, <3>1
    <2> QED
      BY <2>2, <2>3, <2>4, <2>5
  <1> QED
    BY <1>1, <1>6, <1>7 DEF c, Once

LEMMA DrawnSelf ==
    ASSUME NEW rows
    PROVE  Drawn(rows, rows)
  <1> DEFINE p == [k \in DOMAIN rows |-> k]
  <1>1. /\ p \in [DOMAIN rows -> DOMAIN rows]
        /\ \A k \in DOMAIN rows : rows[k] = rows[p[k]]
        /\ \A k, l \in DOMAIN rows : p[k] = p[l] => k = l
    OBVIOUS
  <1> HIDE DEF p
  <1> QED
    BY <1>1 DEF Drawn, DrawnFrom

LEMMA JoinedDrawn ==
    ASSUME NEW S, NEW a \in Seq(S), NEW b \in Seq(S), NEW rows, NEW P, NEW Q,
           DrawnFrom(a, rows, P), DrawnFrom(b, rows, Q), P \cap Q = {}
    PROVE  DrawnFrom(a \o b, rows, P \cup Q)
  <1>1. PICK p \in [DOMAIN a -> P] :
            /\ \A k \in DOMAIN a : a[k] = rows[p[k]]
            /\ \A k, l \in DOMAIN a : p[k] = p[l] => k = l
    BY DEF DrawnFrom
  <1>2. PICK q \in [DOMAIN b -> Q] :
            /\ \A k \in DOMAIN b : b[k] = rows[q[k]]
            /\ \A k, l \in DOMAIN b : q[k] = q[l] => k = l
    BY DEF DrawnFrom
  <1> DEFINE c == a \o b
             r == [k \in DOMAIN c |-> IF k \in DOMAIN a THEN p[k] ELSE q[k - Len(a)]]
  <1>3. Len(a) \in Nat /\ DOMAIN c \subseteq Nat
    OBVIOUS
  <1>4. \A i \in DOMAIN c :
           IF i \in DOMAIN a THEN c[i] = a[i]
           ELSE i - Len(a) \in DOMAIN b /\ c[i] = b[i - Len(a)]
    OBVIOUS
  <1> HIDE DEF c
  <1>5. \A k \in DOMAIN c : r[k] \in P \cup Q /\ (r[k] \in P <=> k \in DOMAIN a)
    BY <1>1, <1>2, <1>4
  <1>6. \A k \in DOMAIN c : c[k] = rows[r[k]]
    BY <1>1, <1>2, <1>4
  <1>7. ASSUME NEW k \in DOMAIN c, NEW l \in DOMAIN c, r[k] = r[l] PROVE k = l
    <2>1. k \in DOMAIN a <=> l \in DOMAIN a
      BY <1>5, <1>7
    <2>2. CASE k \in DOMAIN a
      BY <1>1, <1>7, <2>1, <2>2
    <2>3. CASE k \notin DOMAIN a
      <3>1. q[k - Len(a)] = q[l - Len(a)]
        BY <1>7, <2>1, <2>3
      <3>2. k - Len(a) = l - Len(a)
        BY <1>2, <1>4, <2>1, <2>3, <3>1
      <3> QED
        BY <1>3, <3>2
    <2> QED
      BY <2>2, <2>3
  <1>8. r \in [DOMAIN c -> P \cup Q]
    BY <1>5
  <1> HIDE DEF r
  <1>9. DrawnFrom(c, rows, P \cup Q)
    BY <1>6, <1>7, <1>8 DEF DrawnFrom
  <1> QED
    BY <1>9 DEF c

-----------------------------------------------------------------------------
(* What the writer does to lists                                           *)

LEMMA Coalesced ==
    ASSUME NEW rows \in Seq(Rows)
    PROVE  /\ CoalesceStats(rows) \in Seq(Rows)
           /\ Drawn(CoalesceStats(rows), rows)
           /\ \A r \in ToSet(rows) : r.op = "event" => r \in ToSet(CoalesceStats(rows))
  <1> DEFINE places == {i \in DOMAIN rows :
                          IsStats(rows[i]) => \A j \in DOMAIN rows : j > i => ~IsStats(rows[j])}
  <1>1. CoalesceStats(rows) = RowsAt(rows, places)
    BY DEF CoalesceStats
  <1>2. places \in SUBSET DOMAIN rows
    OBVIOUS
  <1>3. \A i \in DOMAIN rows : rows[i].op = "event" => i \in places
    BY DEF IsStats
  <1> HIDE DEF places
  <1>4. /\ RowsAt(rows, places) \in Seq(Rows) /\ Drawn(RowsAt(rows, places), rows)
        /\ ToSet(RowsAt(rows, places)) = {rows[i] : i \in places}
    BY <1>2, RowsAtAre
  <1>5. \A r \in ToSet(rows) : r.op = "event" => r \in {rows[i] : i \in places}
    BY <1>3 DEF ToSet
  <1> QED
    BY <1>1, <1>4, <1>5

\* Trimming keeps rows of the list, each at most as often as it was there.
LEMMA Trimmed ==
    ASSUME NEW rows \in Seq(Rows)
    PROVE  Trim(rows) \in Seq(Rows) /\ Drawn(Trim(rows), rows)
  <1>1. CASE Len(rows) < QueueCap
    BY <1>1, DrawnSelf DEF Trim
  <1>2. CASE ~(Len(rows) < QueueCap)
    <2> DEFINE c == CoalesceStats(rows)
               first == IF Len(c) <= QueueCap THEN 1 ELSE Len(c) - QueueCap + 1
    <2>1. Trim(rows) = SubSeq(c, first, Len(c))
      BY <1>2 DEF Trim
    <2>2. c \in Seq(Rows) /\ Drawn(c, rows)
      BY Coalesced
    <2> HIDE DEF c
    <2>3. first \in Nat \ {0} /\ Len(c) \in 0 .. Len(c)
      BY <2>2, WriterAssumption DEF WriterAssumption
    <2> HIDE DEF first
    <2>4. SubSeq(c, first, Len(c)) \in Seq(Rows) /\ Drawn(SubSeq(c, first, Len(c)), c)
      BY <2>2, <2>3, SliceDrawn
    <2> QED
      BY <2>1, <2>2, <2>4, DrawnAgain
  <1> QED
    BY <1>1, <1>2

\* The runs of a list are its rows, each place in one of them, and the rows of
\* a run have the same operation.
LEMMA RunsAre ==
    ASSUME NEW rows \in Seq(Rows)
    PROVE  /\ Runs(rows) \in Seq(Seq(Rows))
           /\ \A k \in DOMAIN Runs(rows) :
                 /\ Runs(rows)[k] # <<>> /\ Drawn(Runs(rows)[k], rows)
                 /\ \A i \in DOMAIN Runs(rows)[k] : Runs(rows)[k][i].op = Runs(rows)[k][1].op
           /\ \A r \in ToSet(rows) : \E k \in DOMAIN Runs(rows) : r \in ToSet(Runs(rows)[k])
           /\ Once(rows) => \A k, l \in DOMAIN Runs(rows) :
                 k # l => Apart(ToSet(Runs(rows)[k]), ToSet(Runs(rows)[l]))
           /\ InTurn(rows) => RunsInTurn(Runs(rows))
  <1> DEFINE begins == {i \in DOMAIN rows : i = 1 \/ rows[i].op # rows[i - 1].op}
             size == Cardinality(begins)
             Begin(k) == Place(begins, k)
             End(k) == IF k = size THEN Len(rows) ELSE Begin(k + 1) - 1
             runs == Runs(rows)
  <1>1. runs = [k \in 1 .. size |-> SubSeq(rows, Begin(k), End(k))]
    BY DEF Runs
  <1>2. Len(rows) \in Nat /\ DOMAIN rows = 1 .. Len(rows)
    OBVIOUS
  <1>3. begins \in SUBSET (1 .. Len(rows)) /\ (Len(rows) > 0 => 1 \in begins)
    BY <1>2
  <1>4. \A i \in 2 .. Len(rows) : i \notin begins => rows[i].op = rows[i - 1].op
    BY <1>2
  <1> HIDE DEF begins
  <1>5. /\ size \in Nat
        /\ \A k \in 1 .. size : Begin(k) \in begins
        /\ \A k, l \in 1 .. size : k < l => Begin(k) < Begin(l)
        /\ \A i \in begins : \E k \in 1 .. size : Begin(k) = i
    <2>1. IsFiniteSet(1 .. Len(rows))
      BY <1>2, FS_Interval
    <2>2. IsFiniteSet(begins)
      BY <1>3, <2>1, FS_Subset
    <2>3. begins \in SUBSET Nat
      BY <1>3
    <2> QED
      BY <2>2, <2>3, PlacesAre
  <1> HIDE DEF size, Begin, runs
  <1>6. \A k \in 1 .. size : Begin(k) \in 1 .. Len(rows) /\ End(k) \in Begin(k) .. Len(rows)
    <2> SUFFICES ASSUME NEW k \in 1 .. size
                 PROVE  Begin(k) \in 1 .. Len(rows) /\ End(k) \in Begin(k) .. Len(rows)
      OBVIOUS
    <2>1. Begin(k) \in 1 .. Len(rows)
      BY <1>3, <1>5
    <2>2. CASE k = size
      BY <1>2, <2>1, <2>2
    <2>3. CASE k # size
      <3>1. k + 1 \in 1 .. size /\ k < k + 1
        BY <1>5, <2>3
      <3>2. Begin(k + 1) \in 1 .. Len(rows) /\ Begin(k) < Begin(k + 1)
        BY <1>3, <1>5, <3>1
      <3> QED
        BY <1>2, <2>1, <2>3, <3>2
    <2> QED
      BY <2>2, <2>3
  <1>7. \A k, l \in 1 .. size : k < l => End(k) < Begin(l)
    <2> SUFFICES ASSUME NEW k \in 1 .. size, NEW l \in 1 .. size, k < l
                 PROVE  End(k) < Begin(l)
      OBVIOUS
    <2>1. k # size /\ k + 1 \in 1 .. size
      BY <1>5
    <2>2. Begin(k + 1) \in Nat /\ Begin(l) \in Nat
      BY <1>6, <2>1
    <2>3. Begin(k + 1) <= Begin(l)
      <3>1. CASE k + 1 = l
        BY <2>2, <3>1
      <3>2. CASE k + 1 < l
        BY <1>5, <2>1, <2>2, <3>2
      <3> QED
        BY <1>5, <3>1, <3>2
    <2> QED
      BY <2>1, <2>2, <2>3
  <1>8. \A i \in 1 .. Len(rows) : \E k \in 1 .. size : i \in Begin(k) .. End(k)
    <2> SUFFICES ASSUME NEW i \in 1 .. Len(rows)
                 PROVE  \E k \in 1 .. size : i \in Begin(k) .. End(k)
      OBVIOUS
    <2> DEFINE late == {k \in 1 .. size : i <= End(k)}
    <2>1. PICK b \in 1 .. size : Begin(b) = 1
      BY <1>2, <1>3, <1>5
    <2>2. size \in late
      <3>1. size \in 1 .. size
        BY <1>5, <2>1
      <3> QED
        BY <1>2, <3>1
    <2>3. late \in SUBSET Nat /\ late # {}
      BY <2>2
    <2>4. PICK k \in late : \A l \in late : k <= l
      BY <2>3, LeastOf
    <2>5. k \in 1 .. size /\ i <= End(k)
      BY <2>4
    <2>6. Begin(k) <= i
      <3>1. CASE k = 1
        <4>1. b = 1
          <5>1. ~(1 < b)
            BY <1>3, <1>5, <1>6, <2>1, <2>5, <3>1
          <5> QED
            BY <1>5, <2>1, <5>1
        <4> QED
          BY <2>1, <3>1, <4>1
      <3>2. CASE k # 1
        <4>1. k - 1 \in 1 .. size /\ k - 1 # size /\ k - 1 < k /\ (k - 1) + 1 = k
          BY <1>5, <2>5, <3>2
        <4>2. k - 1 \notin late
          BY <2>4, <4>1
        <4>3. ~(i <= End(k - 1)) /\ End(k - 1) = Begin(k) - 1
          BY <4>1, <4>2
        <4>4. Begin(k) \in Nat
          BY <1>6, <2>5
        <4> QED
          BY <4>3, <4>4
      <3> QED
        BY <3>1, <3>2
    <2>7. End(k) \in Nat /\ Begin(k) \in Nat
      BY <1>6, <2>5
    <2> HIDE DEF End
    <2> QED
      BY <2>5, <2>6, <2>7
  <1>9. \A k \in 1 .. size : \A i \in Begin(k) .. End(k) : rows[i].op = rows[Begin(k)].op
    <2> SUFFICES ASSUME NEW k \in 1 .. size,
                        \E i \in Begin(k) .. End(k) : rows[i].op # rows[Begin(k)].op
                 PROVE  FALSE
      OBVIOUS
    <2> DEFINE odd == {i \in Begin(k) .. End(k) : rows[i].op # rows[Begin(k)].op}
    <2>1. Begin(k) \in 1 .. Len(rows) /\ End(k) \in Begin(k) .. Len(rows)
      BY <1>6
    <2> HIDE DEF End
    <2>2. odd \in SUBSET Nat /\ odd # {}
      BY <2>1
    <2>3. PICK m \in odd : \A i \in odd : m <= i
      BY <2>2, LeastOf
    <2>4. m \in Begin(k) .. End(k) /\ rows[m].op # rows[Begin(k)].op /\ m # Begin(k)
      BY <2>3
    <2>5. m \in 2 .. Len(rows) /\ m - 1 \in Begin(k) .. End(k) /\ m > Begin(k)
      BY <2>1, <2>4
    <2>6. m - 1 \notin odd
      BY <2>3, <2>5
    <2>7. rows[m - 1].op = rows[Begin(k)].op
      BY <2>5, <2>6
    <2>8. m \in begins
      BY <1>4, <2>4, <2>5, <2>7
    <2>9. PICK l \in 1 .. size : Begin(l) = m
      BY <1>5, <2>8
    <2>10. k < l
      <3>1. ~(l < k)
        BY <1>5, <2>1, <2>5, <2>9
      <3>2. l # k
        BY <2>4, <2>9
      <3> QED
        BY <3>1, <3>2
    <2>11. End(k) < Begin(l)
      BY <1>7, <2>10
    <2> QED
      BY <2>1, <2>4, <2>9, <2>11
  <1> HIDE DEF End
  <1>10. ASSUME NEW k \in 1 .. size
         PROVE  /\ runs[k] \in Seq(Rows) /\ runs[k] # <<>> /\ Drawn(runs[k], rows)
                /\ ToSet(runs[k]) = {rows[i] : i \in Begin(k) .. End(k)}
                /\ \A i \in DOMAIN runs[k] : runs[k][i].op = runs[k][1].op
    <2>1. Begin(k) \in Nat \ {0} /\ End(k) \in 0 .. Len(rows) /\ Begin(k) <= End(k)
      BY <1>2, <1>6
    <2> DEFINE m == Begin(k)
               n == End(k)
    <2>2. runs[k] = SubSeq(rows, m, n)
      BY <1>1
    <2>9. m \in Nat \ {0} /\ n \in 0 .. Len(rows) /\ m <= n
      BY <2>1
    <2>8. n \in Nat
      BY <1>2, <2>9
    <2> HIDE DEF m, n
    <2>10. /\ SubSeq(rows, m, n) \in Seq(Rows) /\ Drawn(SubSeq(rows, m, n), rows)
          /\ ToSet(SubSeq(rows, m, n)) = {rows[i] : i \in m .. n}
      BY <2>9, SliceDrawn
    <2>4. runs[k] # <<>>
      BY <2>2, <2>8, <2>9
    <2>3. /\ runs[k] \in Seq(Rows) /\ Drawn(runs[k], rows)
          /\ ToSet(runs[k]) = {rows[i] : i \in Begin(k) .. End(k)}
      BY <2>2, <2>10 DEF m, n
    <2>5. \A i \in DOMAIN runs[k] : runs[k][i] \in ToSet(runs[k])
      BY DEF ToSet
    <2>6. \A i \in DOMAIN runs[k] : runs[k][i].op = rows[Begin(k)].op
      BY <1>9, <2>3, <2>5
    <2>7. 1 \in DOMAIN runs[k]
      BY <2>3, <2>4
    <2> QED
      BY <2>3, <2>4, <2>6, <2>7
  <1>11. runs \in Seq(Seq(Rows)) /\ DOMAIN runs = 1 .. size
    <2>1. \A k \in 1 .. size : SubSeq(rows, Begin(k), End(k)) \in Seq(Rows)
      BY <1>1, <1>10
    <2> QED
      BY <1>1, <1>5, <2>1
  <1>12. ASSUME NEW r \in ToSet(rows) PROVE \E k \in DOMAIN runs : r \in ToSet(runs[k])
    <2>1. PICK i \in 1 .. Len(rows) : r = rows[i]
      BY <1>2 DEF ToSet
    <2>2. PICK k \in 1 .. size : i \in Begin(k) .. End(k)
      BY <1>8
    <2> QED
      BY <1>10, <1>11, <2>1, <2>2
  <1>13. ASSUME Once(rows), NEW k \in 1 .. size, NEW l \in 1 .. size, k # l
         PROVE  Apart(ToSet(runs[k]), ToSet(runs[l]))
    <2> SUFFICES ASSUME NEW r \in ToSet(runs[k]), r.op = "event", r \in ToSet(runs[l])
                 PROVE  FALSE
      BY DEF Apart
    <2>1. PICK i \in Begin(k) .. End(k) : r = rows[i]
      BY <1>10, ZenonT(60)
    <2>2. PICK j \in Begin(l) .. End(l) : r = rows[j]
      BY <1>10, ZenonT(60)
    <2>3. Begin(k) \in Nat /\ End(k) \in 0 .. Len(rows) /\ Begin(l) \in Nat /\ End(l) \in 0 .. Len(rows)
          /\ Begin(k) > 0 /\ Begin(l) > 0
      BY <1>2, <1>6
    <2>4. i \in DOMAIN rows /\ j \in DOMAIN rows
      BY <1>2, <2>3
    <2>5. i = j
      BY <1>13, <2>1, <2>2, <2>4 DEF Once
    <2>6. k < l \/ l < k
      BY <1>5, <1>13
    <2>7. End(k) < Begin(l) \/ End(l) < Begin(k)
      BY <1>7, <2>6
    <2> QED
      BY <2>3, <2>5, <2>7
  <1>14. ASSUME InTurn(rows), NEW k \in 1 .. size, NEW l \in 1 .. size, k < l
         PROVE  Before(ToSet(runs[k]), ToSet(runs[l]))
    <2> SUFFICES ASSUME NEW i \in Begin(k) .. End(k), NEW j \in Begin(l) .. End(l),
                        rows[i].op = "event", rows[j].op = "event"
                 PROVE  rows[i].ts < rows[j].ts
      <3>1. /\ ToSet(runs[k]) = {rows[i] : i \in Begin(k) .. End(k)}
            /\ ToSet(runs[l]) = {rows[j] : j \in Begin(l) .. End(l)}
        BY <1>10
      <3> QED
        BY <3>1, Zenon DEF Before
    <2>1. /\ Begin(k) \in 1 .. Len(rows) /\ End(k) \in Begin(k) .. Len(rows)
          /\ Begin(l) \in 1 .. Len(rows) /\ End(l) \in Begin(l) .. Len(rows)
          /\ End(k) < Begin(l)
      BY <1>6, <1>7, <1>14
    <2>2. i \in DOMAIN rows /\ j \in DOMAIN rows /\ i < j
      BY <1>2, <2>1
    <2> QED
      BY <1>14, <2>2 DEF InTurn, Before
  <1> QED
    BY <1>10, <1>11, <1>12, <1>13, <1>14 DEF runs, RunsInTurn

\* Moving the heartbeat's runs to the end keeps every run once.
LEMMA StatsLastAre ==
    ASSUME NEW runs \in Seq(Seq(Rows))
    PROVE  /\ StatsLast(runs) \in Seq(Seq(Rows))
           /\ Drawn(StatsLast(runs), runs)
           /\ ToSet(StatsLast(runs)) = ToSet(runs)
           /\ \A k, l \in DOMAIN StatsLast(runs) :
                 k <= l /\ IsStats(StatsLast(runs)[k][1]) => IsStats(StatsLast(runs)[l][1])
  <1> DEFINE P == {k \in DOMAIN runs : ~IsStats(runs[k][1])}
             Q == {k \in DOMAIN runs : IsStats(runs[k][1])}
             a == RowsAt(runs, P)
             b == RowsAt(runs, Q)
             c == a \o b
  <1>1. StatsLast(runs) = c
    BY DEF StatsLast
  <1>2. P \in SUBSET DOMAIN runs /\ Q \in SUBSET DOMAIN runs /\ P \cap Q = {} /\ P \cup Q = DOMAIN runs
    OBVIOUS
  <1>3. \A k \in P : ~IsStats(runs[k][1])
    OBVIOUS
  <1>4. \A k \in Q : IsStats(runs[k][1])
    OBVIOUS
  <1> HIDE DEF P, Q
  <1>5. a \in Seq(Seq(Rows)) /\ DrawnFrom(a, runs, P) /\ ToSet(a) = {runs[i] : i \in P}
    BY <1>2, RowsAtAre
  <1>6. b \in Seq(Seq(Rows)) /\ DrawnFrom(b, runs, Q) /\ ToSet(b) = {runs[i] : i \in Q}
    BY <1>2, RowsAtAre
  <1>7. \A k \in DOMAIN a : ~IsStats(a[k][1])
    BY <1>3, <1>5 DEF ToSet
  <1>8. \A k \in DOMAIN b : IsStats(b[k][1])
    BY <1>4, <1>6 DEF ToSet
  <1> HIDE DEF a, b
  <1>9. DrawnFrom(c, runs, P \cup Q)
    BY <1>2, <1>5, <1>6, JoinedDrawn
  <1>10. c \in Seq(Seq(Rows)) /\ ToSet(c) = ToSet(a) \cup ToSet(b)
    BY <1>5, <1>6, Joined, SMTT(60)
  <1>11. ToSet(c) = ToSet(runs)
    BY <1>2, <1>5, <1>6, <1>10 DEF ToSet
  <1>12. \A k, l \in DOMAIN c : k <= l /\ IsStats(c[k][1]) => IsStats(c[l][1])
    <2> SUFFICES ASSUME NEW k \in DOMAIN c, NEW l \in DOMAIN c, k <= l, IsStats(c[k][1])
                 PROVE  IsStats(c[l][1])
      OBVIOUS
    <2>1. /\ k \in DOMAIN a => c[k] = a[k]
          /\ l \notin DOMAIN a => l - Len(a) \in DOMAIN b /\ c[l] = b[l - Len(a)]
          /\ l \in DOMAIN a => k \in DOMAIN a
      BY <1>5, <1>6
    <2>2. k \notin DOMAIN a
      BY <1>7, <2>1
    <2> QED
      BY <1>8, <2>1, <2>2
  <1> QED
    BY <1>1, <1>2, <1>9, <1>10, <1>11, <1>12 DEF Drawn

\* What a flush is going to send of the rows it has: all their events, each as
\* often as they hold it, nothing else, and the heartbeats after all the rest.
Uniform(run) == run # <<>> /\ \A i \in DOMAIN run : IsStats(run[i]) <=> IsStats(run[1])

StatsAfter(runs) ==
    \A k, l \in DOMAIN runs : k <= l /\ IsStats(runs[k][1]) => IsStats(runs[l][1])

OnceEach(runs) ==
    \A k \in DOMAIN runs :
        /\ Once(runs[k])
        /\ \A l \in DOMAIN runs : k # l => Apart(ToSet(runs[k]), ToSet(runs[l]))

\* The order is kept by all three: what is drawn for sending is in turn.
LEMMA CoalescedInTurn ==
    ASSUME NEW rows \in Seq(Rows), InTurn(rows)
    PROVE  InTurn(CoalesceStats(rows))
  <1> DEFINE places == {i \in DOMAIN rows :
                          IsStats(rows[i]) => \A j \in DOMAIN rows : j > i => ~IsStats(rows[j])}
             list == RowsAt(rows, places)
  <1>1. CoalesceStats(rows) = list
    BY DEF CoalesceStats
  <1>2. places \in SUBSET DOMAIN rows
    OBVIOUS
  <1> HIDE DEF places
  <1>3. PICK p \in [DOMAIN list -> places] :
           /\ \A k \in DOMAIN list : list[k] = rows[p[k]]
           /\ \A k, l \in DOMAIN list : k < l => p[k] < p[l]
    BY <1>2, RowsAtInOrder
  <1> HIDE DEF list
  <1>4. InTurn(list)
    BY <1>2, <1>3 DEF InTurn
  <1> QED
    BY <1>1, <1>4

LEMMA StatsLastInTurn ==
    ASSUME NEW runs \in Seq(Seq(Rows)), RunsInTurn(runs), \A k \in DOMAIN runs : Uniform(runs[k])
    PROVE  RunsInTurn(StatsLast(runs))
  <1> DEFINE P == {k \in DOMAIN runs : ~IsStats(runs[k][1])}
             Q == {k \in DOMAIN runs : IsStats(runs[k][1])}
             a == RowsAt(runs, P)
             b == RowsAt(runs, Q)
             c == a \o b
  <1>1. StatsLast(runs) = c
    BY DEF StatsLast
  <1>2. P \in SUBSET DOMAIN runs /\ Q \in SUBSET DOMAIN runs
    OBVIOUS
  <1>3. \A k \in Q : k \in DOMAIN runs /\ IsStats(runs[k][1])
    OBVIOUS
  <1> HIDE DEF P, Q
  <1>4. PICK p \in [DOMAIN a -> P] :
           /\ \A k \in DOMAIN a : a[k] = runs[p[k]]
           /\ \A k, l \in DOMAIN a : k < l => p[k] < p[l]
    BY <1>2, RowsAtInOrder
  <1>5. a \in Seq(Seq(Rows)) /\ b \in Seq(Seq(Rows)) /\ ToSet(b) = {runs[i] : i \in Q}
    BY <1>2, RowsAtAre
  <1> HIDE DEF a, b
  <1>6. \A k \in DOMAIN b : \A r \in ToSet(b[k]) : r.op # "event"
    <2> SUFFICES ASSUME NEW k \in DOMAIN b, NEW r \in ToSet(b[k]) PROVE r.op # "event"
      OBVIOUS
    <2>1. PICK i \in Q : b[k] = runs[i]
      BY <1>5 DEF ToSet
    <2>2. Uniform(runs[i]) /\ IsStats(runs[i][1])
      BY <1>3
    <2> QED
      BY <2>1, <2>2 DEF Uniform, IsStats, ToSet
  <1>7. \A i \in DOMAIN c :
           /\ i \in Nat
           /\ IF i \in DOMAIN a THEN c[i] = a[i]
              ELSE i - Len(a) \in DOMAIN b /\ c[i] = b[i - Len(a)]
    BY <1>5
  <1> HIDE DEF c
  <1>8. ASSUME NEW k \in DOMAIN c, NEW l \in DOMAIN c, k < l
        PROVE  Before(ToSet(c[k]), ToSet(c[l]))
    <2>1. CASE k \in DOMAIN a /\ l \in DOMAIN a
      <3>1. p[k] \in DOMAIN runs /\ p[l] \in DOMAIN runs /\ p[k] < p[l]
        BY <1>2, <1>4, <1>8, <2>1
      <3> QED
        BY <1>4, <1>7, <2>1, <3>1 DEF RunsInTurn
    <2>2. CASE k \notin DOMAIN a
      BY <1>6, <1>7, <2>2 DEF Before
    <2>3. CASE l \notin DOMAIN a
      BY <1>6, <1>7, <2>3 DEF Before
    <2> QED
      BY <2>1, <2>2, <2>3
  <1> QED
    BY <1>1, <1>8 DEF RunsInTurn

LEMMA PlannedInTurn ==
    ASSUME NEW rows \in Seq(Rows), InTurn(rows)
    PROVE  RunsInTurn(StatsLast(Runs(CoalesceStats(rows))))
  <1> DEFINE c == CoalesceStats(rows)
             runs == Runs(c)
  <1>1. c \in Seq(Rows) /\ InTurn(c)
    BY Coalesced, CoalescedInTurn
  <1> HIDE DEF c
  <1>2. /\ runs \in Seq(Seq(Rows)) /\ RunsInTurn(runs)
        /\ \A k \in DOMAIN runs :
              /\ runs[k] # <<>>
              /\ \A i \in DOMAIN runs[k] : runs[k][i].op = runs[k][1].op
    BY <1>1, RunsAre
  <1> HIDE DEF runs
  <1>3. \A k \in DOMAIN runs : Uniform(runs[k])
    BY <1>2 DEF Uniform, IsStats
  <1>4. RunsInTurn(StatsLast(runs))
    BY <1>2, <1>3, StatsLastInTurn
  <1> QED
    BY <1>4 DEF c, runs

LEMMA Planned ==
    ASSUME NEW rows \in Seq(Rows),
           NEW plan, plan = StatsLast(Runs(CoalesceStats(rows)))
    PROVE  /\ plan \in Seq(Seq(Rows))
           /\ \A k \in DOMAIN plan : Uniform(plan[k])
           /\ StatsAfter(plan)
           /\ InRuns(plan) \subseteq ToSet(rows)
           /\ \A r \in ToSet(rows) : r.op = "event" => r \in InRuns(plan)
           /\ Once(rows) => OnceEach(plan)
  <1> DEFINE c == CoalesceStats(rows)
             runs == Runs(c)
  <1>1. /\ c \in Seq(Rows) /\ Drawn(c, rows)
        /\ \A r \in ToSet(rows) : r.op = "event" => r \in ToSet(c)
    BY Coalesced
  <1>2. ToSet(c) \subseteq ToSet(rows) /\ (Once(rows) => Once(c))
    BY <1>1, DrawnKeeps
  <1> HIDE DEF c
  <1>3. /\ runs \in Seq(Seq(Rows))
        /\ \A k \in DOMAIN runs :
              /\ runs[k] # <<>> /\ Drawn(runs[k], c)
              /\ \A i \in DOMAIN runs[k] : runs[k][i].op = runs[k][1].op
        /\ \A r \in ToSet(c) : \E k \in DOMAIN runs : r \in ToSet(runs[k])
        /\ Once(c) => \A k, l \in DOMAIN runs : k # l => Apart(ToSet(runs[k]), ToSet(runs[l]))
    BY <1>1, RunsAre
  <1> HIDE DEF runs
  <1>4. plan = StatsLast(runs)
    BY DEF c, runs
  <1>5. /\ plan \in Seq(Seq(Rows)) /\ Drawn(plan, runs) /\ ToSet(plan) = ToSet(runs)
        /\ \A k, l \in DOMAIN plan : k <= l /\ IsStats(plan[k][1]) => IsStats(plan[l][1])
    BY <1>3, <1>4, StatsLastAre
  <1>6. PICK p \in [DOMAIN plan -> DOMAIN runs] :
            /\ \A k \in DOMAIN plan : plan[k] = runs[p[k]]
            /\ \A k, l \in DOMAIN plan : p[k] = p[l] => k = l
    BY <1>5 DEF Drawn, DrawnFrom
  <1>7. \A k \in DOMAIN plan : Uniform(plan[k])
    BY <1>3, <1>6 DEF Uniform, IsStats
  <1>8. \A k \in DOMAIN plan : ToSet(plan[k]) \subseteq ToSet(c) /\ (Once(c) => Once(plan[k]))
    BY <1>3, <1>6, DrawnKeeps
  <1>9. InRuns(plan) \subseteq ToSet(rows)
    BY <1>2, <1>8 DEF InRuns
  <1>10. ASSUME NEW r \in ToSet(rows), r.op = "event" PROVE r \in InRuns(plan)
    <2>1. PICK k \in DOMAIN runs : r \in ToSet(runs[k])
      BY <1>1, <1>3, <1>10
    <2>2. runs[k] \in ToSet(plan)
      BY <1>5 DEF ToSet
    <2>3. \E l \in DOMAIN plan : plan[l] = runs[k]
      BY <2>2 DEF ToSet
    <2> QED
      BY <2>1, <2>3 DEF InRuns
  <1>11. ASSUME Once(rows) PROVE OnceEach(plan)
    <2>1. ASSUME NEW k \in DOMAIN plan, NEW l \in DOMAIN plan, k # l
          PROVE  Apart(ToSet(plan[k]), ToSet(plan[l]))
      BY <1>2, <1>3, <1>6, <1>11, <2>1
    <2> QED
      BY <1>2, <1>8, <1>11, <2>1 DEF OnceEach
  <1> QED
    BY <1>5, <1>7, <1>9, <1>10, <1>11 DEF StatsAfter

-----------------------------------------------------------------------------
(* Every variable has its type                                             *)

LEMMA RowTypes ==
    /\ \A p \in Processes, ts \in Nat, type \in Types : EventRow(p, ts, type) \in EventRows
    /\ \A ts \in Nat : StatsRow(ts) \in Rows /\ EndRow(ts) \in Rows
    /\ EventRows \subseteq Rows
    /\ \A r \in Rows : r.ts \in Nat /\ (r.op = "event" => r \in EventRows)
    /\ \A r \in EventRows : r.op = "event"
    /\ \A ts \in Nat : StatsRow(ts).op = "stats" /\ EndRow(ts).op = "session"
  BY DEF EventRow, StatsRow, EndRow, EventRows, Rows

\* What landing a list of rows does to the database.
LEMMA LandedDoes ==
    ASSUME NEW rows \in Seq(Rows), WriterTypeOK, Landed(rows)
    PROVE  /\ table' \in Seq(EventRows) /\ heartbeat' \in Nat /\ ended' \in Nat \cup {NULL}
           /\ ToSet(table') = ToSet(table) \cup {r \in ToSet(rows) : r.op = "event"}
           /\ \/ heartbeat' = heartbeat
              \/ \E r \in ToSet(rows) : IsStats(r) /\ heartbeat' = r.ts
           /\ Once(table) /\ Once(rows) /\ Apart(ToSet(rows), ToSet(table)) => Once(table')
  <1> DEFINE places == {i \in DOMAIN rows : rows[i].op = "event"}
             new == RowsAt(rows, places)
  <1>1. places \in SUBSET DOMAIN rows
    OBVIOUS
  <1>2. new \in Seq(Rows) /\ Drawn(new, rows) /\ ToSet(new) = {rows[i] : i \in places}
    BY <1>1, RowsAtAre
  <1>3. ToSet(new) = {r \in ToSet(rows) : r.op = "event"}
    BY <1>2 DEF ToSet
  <1>4. table' = table \o new /\ table \in Seq(EventRows)
    BY DEF Landed, WriterTypeOK
  <1> HIDE DEF new
  <1>5. new \in Seq(EventRows)
    <2>1. \A i \in DOMAIN new : new[i] \in EventRows
      BY <1>2, <1>3, RowTypes DEF ToSet
    <2> QED
      BY <1>2, <2>1
  <1>6. /\ table' \in Seq(EventRows) /\ ToSet(table') = ToSet(table) \cup ToSet(new)
        /\ Once(table) /\ Once(new) /\ Apart(ToSet(table), ToSet(new)) => Once(table')
    BY <1>4, <1>5, Joined
  <1>7. \/ heartbeat' = heartbeat
        \/ \E r \in ToSet(rows) : IsStats(r) /\ heartbeat' = r.ts
    BY DEF Landed, ToSet
  <1>8. \/ ended' = ended
        \/ \E r \in ToSet(rows) : ended' = r.ts
    BY DEF Landed, ToSet
  <1>9. ToSet(rows) \subseteq Rows
    BY DEF ToSet
  <1>10. heartbeat' \in Nat /\ ended' \in Nat \cup {NULL}
    BY <1>7, <1>8, <1>9, RowTypes DEF WriterTypeOK
  <1>11. ASSUME Once(table), Once(rows), Apart(ToSet(rows), ToSet(table)) PROVE Once(table')
    <2>1. Once(new)
      BY <1>2, <1>11, DrawnKeeps
    <2>2. Apart(ToSet(table), ToSet(new))
      BY <1>3, <1>11 DEF Apart
    <2> QED
      BY <1>6, <1>11, <2>1, <2>2
  <1> QED
    BY <1>3, <1>6, <1>7, <1>10, <1>11

LEMMA FlightTypes ==
    ASSUME NEW f \in Flights
    PROVE  /\ f.pc \in {"enter", "send"} /\ f.runs \in Seq(Seq(Rows)) /\ f.ok \in BOOLEAN
           /\ f.remaining \in Seq(Rows) /\ f.final \in BOOLEAN /\ f.held \in Seq(Rows)
           /\ f # NULL
  BY WriterAssumption DEF Flights, WriterAssumption

\* Appending to the file keeps to its rows, and gives up what it drops.
LEMMA EnqueueDoes ==
    ASSUME WriterTypeOK, NEW row \in Rows, Enqueue(row)
    PROVE  /\ queue' \in Seq(Rows) /\ gone' \subseteq Rows
           /\ ToSet(queue') \subseteq ToSet(queue) \cup {row}
           /\ \A r \in ToSet(queue) \cup {row} : ~IsStats(r) => r \in ToSet(queue') \cup gone'
           /\ gone \subseteq gone'
           /\ exposed \subseteq exposed' /\ exposed' \subseteq exposed \cup {row} /\ exposed' \subseteq Rows
           /\ \A q \in Processes \ {"loop"} : At(q, "send") => row \in Unsent(q) \cup exposed'
           /\ Once(queue) /\ row \notin ToSet(queue) => Once(queue')
  <1> DEFINE long == Append(queue, row)
  <1>1. queue \in Seq(Rows) /\ gone \subseteq Rows /\ exposed \subseteq Rows
    BY DEF WriterTypeOK
  <1>2. long = queue \o <<row>> /\ <<row>> \in Seq(Rows) /\ long \in Seq(Rows)
    BY <1>1
  <1>3. /\ ToSet(<<row>>) = {row}
        /\ Once(<<row>>)
    BY DEF ToSet, Once
  <1>4. ToSet(long) = ToSet(queue) \cup {row}
        /\ (Once(queue) /\ Apart(ToSet(queue), {row}) => Once(long))
    <2> DEFINE one == <<row>>
    <2>1. one \in Seq(Rows) /\ ToSet(one) = {row} /\ Once(one) /\ long = queue \o one
      BY <1>2, <1>3
    <2> HIDE DEF one, long
    <2>2. /\ ToSet(queue \o one) = ToSet(queue) \cup ToSet(one)
          /\ Once(queue) /\ Once(one) /\ Apart(ToSet(queue), ToSet(one)) => Once(queue \o one)
      BY <1>1, <2>1, Joined, ZenonT(60)
    <2> QED
      BY <2>1, <2>2
  <1>5. /\ queue' = Trim(long)
        /\ gone' = gone \cup {r \in ToSet(long) \ ToSet(queue') : ~IsStats(r)}
    BY DEF Enqueue
  <1> HIDE DEF long
  <1>6. queue' \in Seq(Rows) /\ Drawn(queue', long)
    BY <1>2, <1>5, Trimmed
  <1>7. ToSet(queue') \subseteq ToSet(long) /\ (Once(long) => Once(queue'))
    BY <1>6, DrawnKeeps
  <1>8. ToSet(queue) \subseteq Rows
    BY <1>1 DEF ToSet
  <1>9. /\ exposed \subseteq exposed' /\ exposed' \subseteq exposed \cup {row}
        /\ \A q \in Processes \ {"loop"} : At(q, "send") => row \in Unsent(q) \cup exposed'
    BY DEF Enqueue, Exposes
  <1> QED
    BY <1>1, <1>4, <1>5, <1>6, <1>7, <1>8, <1>9 DEF Apart

\* A pending heartbeat is replaced, or a new one goes to the end: events stay.
LEMMA HeartbeatDoes ==
    ASSUME WriterTypeOK, Heartbeat
    PROVE  /\ buffer' \in [Processes -> Seq(Rows)] /\ buffer'["cli"] = buffer["cli"]
           /\ ToSet(buffer'["loop"]) \subseteq ToSet(buffer["loop"]) \cup {StatsRow(now)}
           /\ \A r \in ToSet(buffer["loop"]) : ~IsStats(r) => r \in ToSet(buffer'["loop"])
           /\ Once(buffer["loop"]) => Once(buffer'["loop"])
  <1> DEFINE old == buffer["loop"]
             waiting == {i \in DOMAIN old : IsStats(old[i])}
             row == StatsRow(now)
             new == IF waiting = {} THEN Append(old, row)
                    ELSE [old EXCEPT ![CHOOSE i \in waiting : TRUE] = row]
  <1>1. /\ buffer \in [Processes -> Seq(Rows)] /\ old \in Seq(Rows)
        /\ row \in Rows /\ row.op = "stats" /\ now \in Nat
    BY RowTypes DEF WriterTypeOK, Processes
  <1>2. buffer' = [buffer EXCEPT !["loop"] = new]
    BY DEF Heartbeat
  <1> HIDE DEF old, row
  <1>3. /\ new \in Seq(Rows)
        /\ \A i \in DOMAIN new : IF IsStats(new[i]) THEN new[i] = row \/ (i \in DOMAIN old /\ new[i] = old[i])
                                   ELSE i \in DOMAIN old /\ new[i] = old[i]
        /\ \A i \in DOMAIN old : ~IsStats(old[i]) => i \in DOMAIN new /\ new[i] = old[i]
    <2>1. CASE waiting = {}
      BY <1>1, <2>1 DEF IsStats
    <2>2. CASE waiting # {}
      <3> DEFINE at == CHOOSE i \in waiting : TRUE
      <3>1. at \in DOMAIN old /\ IsStats(old[at])
        BY <2>2
      <3> HIDE DEF at
      <3>2. new = [old EXCEPT ![at] = row]
        BY <2>2 DEF at
      <3> QED
        BY <1>1, <3>1, <3>2 DEF IsStats
    <2> QED
      BY <2>1, <2>2
  <1> HIDE DEF new
  <1>4. buffer' \in [Processes -> Seq(Rows)] /\ buffer'["cli"] = buffer["cli"] /\ buffer'["loop"] = new
    BY <1>1, <1>2, <1>3 DEF Processes
  <1>5. ToSet(new) \subseteq ToSet(old) \cup {row}
    BY <1>3 DEF ToSet
  <1>6. \A r \in ToSet(old) : ~IsStats(r) => r \in ToSet(new)
    BY <1>3 DEF ToSet
  <1>7. Once(old) => Once(new)
    BY <1>3 DEF Once, IsStats
  <1> QED
    BY <1>4, <1>5, <1>6, <1>7 DEF old, row

LEMMA KeepDoes ==
    ASSUME WriterTypeOK, NEW p \in Processes, ~Idle(p), NEW rows \in Seq(Rows), Keep(p, rows)
    PROVE  /\ buffer' \in [Processes -> Seq(Rows)] /\ gone' \subseteq Rows /\ unflushed' \in BOOLEAN
           /\ IF flight[p].final
              THEN buffer' = buffer /\ gone' = gone \cup ToSet(rows)
              ELSE gone' = gone /\ buffer' = [buffer EXCEPT ![p] = rows \o @]
  <1>1. buffer \in [Processes -> Seq(Rows)] /\ gone \subseteq Rows /\ unflushed \in BOOLEAN
        /\ flight[p] \in Flights
    BY DEF WriterTypeOK, Idle
  <1>2. unflushed' \in BOOLEAN
    BY <1>1 DEF Keep, Report
  <1>3. IF flight[p].final
        THEN buffer' = buffer /\ gone' = gone \cup ToSet(rows)
        ELSE gone' = gone /\ buffer' = [buffer EXCEPT ![p] = rows \o @]
    BY <1>1, FlightTypes DEF Keep
  <1>4. ToSet(rows) \subseteq Rows /\ rows \o buffer[p] \in Seq(Rows)
    BY <1>1 DEF ToSet
  <1> QED
    BY <1>1, <1>2, <1>3, <1>4

LEMMA WriterTypesStart == WriterInit => WriterTypeOK
  <1> SUFFICES ASSUME WriterInit PROVE WriterTypeOK
    OBVIOUS
  <1>1. now \in Nat /\ heartbeat \in Nat /\ faults \in Nat /\ {ended, over} \subseteq Nat \cup {NULL}
    BY DEF WriterInit
  <1>2. made \in Seq(EventRows) /\ table \in Seq(EventRows) /\ queue \in Seq(Rows)
        /\ buffer \in [Processes -> Seq(Rows)]
    BY DEF WriterInit
  <1>3. lock \in Processes \cup {NULL} /\ flight \in [Processes -> Flights \cup {NULL}]
        /\ gone \cup exposed \subseteq Rows
    BY DEF WriterInit
  <1>4. unflushed \in BOOLEAN /\ doubt \in BOOLEAN
    BY DEF WriterInit
  <1> QED
    BY <1>1, <1>2, <1>3, <1>4 DEF WriterTypeOK

\* The flights and the lock as any flush leaves them.
LEMMA LeaveTypes ==
    ASSUME WriterTypeOK, NEW p \in Processes, LeaveFile(p)
    PROVE  flight' \in [Processes -> Flights \cup {NULL}] /\ lock' \in Processes \cup {NULL}
  BY DEF LeaveFile, WriterTypeOK

LEMMA LoopTypesHold ==
    ASSUME WriterTypeOK,
           (\E type \in Types : RecordEvent(type) \/ InsertEventNow(type))
              \/ Heartbeat \/ Stop \/ Crash \/ PostEvent \/ Tick
    PROVE  WriterTypeOK'
  <1> USE DEF WriterTypeOK
  <1>p. "loop" \in Processes /\ "cli" \in Processes /\ "down" \in Types /\ "end" \in Types
    BY DEF Processes, Types
  <1>b. now + 1 \in Nat /\ now + 1 \in Nat \cup {NULL} /\ now \in Nat \cup {NULL}
    OBVIOUS
  <1>1. ASSUME NEW type \in Types, RecordEvent(type) PROVE WriterTypeOK'
    <2> DEFINE row == EventRow("loop", now + 1, type)
    <2>1. row \in EventRows /\ row \in Rows
      BY <1>p, <1>b, RowTypes
    <2> HIDE DEF row
    <2>2. made' = Append(made, row) /\ now' = now + 1
          /\ buffer' = [buffer EXCEPT !["loop"] = Append(@, row)]
      BY <1>1 DEF RecordEvent, Make, Made, row
    <2>3. made' \in Seq(EventRows) /\ buffer' \in [Processes -> Seq(Rows)]
      BY <1>p, <2>1, <2>2
    <2> QED
      BY <1>1, <1>b, <2>2, <2>3 DEF RecordEvent, published
  <1>2. ASSUME NEW type \in Types, InsertEventNow(type) PROVE WriterTypeOK'
    <2> DEFINE row == EventRow("loop", now + 1, type)
    <2>1. row \in EventRows /\ row \in Rows /\ Made("loop", type) = row
      BY <1>p, <1>b, RowTypes DEF Made
    <2> HIDE DEF row
    <2>2. /\ made' = Append(made, row) /\ now' = now + 1
          /\ \/ Landed(<<row>>) /\ UNCHANGED <<queue, gone, exposed, faults, doubt>>
             \/ /\ Fault /\ Enqueue(row)
                /\ UNCHANGED <<table, heartbeat, ended, doubt>> \/ (Landed(<<row>>) /\ doubt' = TRUE)
             \/ /\ Fault /\ gone' = gone \cup {row}
                /\ UNCHANGED <<table, heartbeat, ended, queue, exposed, doubt>>
          /\ UNCHANGED <<over, buffer, lock, flight, unflushed>>
      BY <1>2, <2>1 DEF InsertEventNow, Make, published, Made
    <2>3. made' \in Seq(EventRows) /\ now' \in Nat
      BY <1>b, <2>1, <2>2
    <2>4. Landed(<<row>>) => table' \in Seq(EventRows) /\ heartbeat' \in Nat /\ ended' \in Nat \cup {NULL}
      <3>1. <<row>> \in Seq(Rows)
        BY <2>1
      <3> QED
        BY <3>1, LandedDoes
    <2>5. Fault => faults' \in Nat
      BY DEF Fault
    <2>6. Enqueue(row) => queue' \in Seq(Rows) /\ gone' \subseteq Rows /\ exposed' \subseteq Rows
      BY <2>1, EnqueueDoes
    <2> QED
      BY <2>1, <2>2, <2>3, <2>4, <2>5, <2>6
  <1>3. ASSUME Heartbeat PROVE WriterTypeOK'
    BY <1>3, HeartbeatDoes DEF Heartbeat, published
  <1>4. ASSUME Stop PROVE WriterTypeOK'
    <2> DEFINE row == EventRow("loop", now + 1, "end")
               last == <<row, EndRow(now + 1)>>
               held == buffer["loop"] \o last
               f == [pc |-> "enter", runs |-> <<>>, ok |-> TRUE, remaining |-> <<>>, final |-> TRUE,
                     held |-> held]
    <2>1. row \in EventRows /\ row \in Rows /\ EndRow(now + 1) \in Rows
      BY <1>p, <1>b, RowTypes
    <2>2. held \in Seq(Rows)
      BY <1>p, <2>1
    <2>3. made' = Append(made, row) /\ now' = now + 1
      BY <1>4 DEF Stop, Make
    <2>4. flight' = [flight EXCEPT !["loop"] = f] /\ over' = now + 1
          /\ buffer' = [buffer EXCEPT !["loop"] = <<>>]
      BY <1>4 DEF Stop, Made
    <2> HIDE DEF row, held
    <2>5. f \in Flights
      BY <2>2 DEF Flights
    <2> HIDE DEF f
    <2>6. made' \in Seq(EventRows) /\ buffer' \in [Processes -> Seq(Rows)]
          /\ flight' \in [Processes -> Flights \cup {NULL}]
      BY <1>p, <2>1, <2>3, <2>4, <2>5
    <2> QED
      BY <1>4, <1>b, <2>3, <2>4, <2>6 DEF Stop, published
  <1>5. ASSUME Crash PROVE WriterTypeOK'
    <2>1. ToSet(buffer["loop"]) \subseteq Rows
      BY <1>p DEF ToSet
    <2>2. ~Idle("loop") => ToSet(flight["loop"].held) \subseteq Rows
      BY <1>p, FlightTypes DEF ToSet, Idle
    <2>3. gone' \subseteq Rows
      BY <1>5, <2>1, <2>2 DEF Crash
    <2>4. buffer' \in [Processes -> Seq(Rows)] /\ lock' \in Processes \cup {NULL}
      <3>1. buffer' = [buffer EXCEPT !["loop"] = <<>>]
            /\ (lock' = NULL \/ lock' = lock)
        BY <1>5 DEF Crash
      <3>2. lock' \in Processes \cup {NULL}
        BY <3>1
      <3>3. buffer \in [Processes -> Seq(Rows)] /\ <<>> \in Seq(Rows)
        OBVIOUS
      <3>4. [buffer EXCEPT !["loop"] = <<>>] \in [Processes -> Seq(Rows)]
        BY <1>p, <3>3
      <3> QED
        BY <3>1, <3>2, <3>4
    <2>6. flight' \in [Processes -> Flights \cup {NULL}]
      <3>1. flight' = [flight EXCEPT !["loop"] = NULL]
        BY <1>5 DEF Crash
      <3> QED
        BY <3>1
    <2>5. unflushed' \in BOOLEAN /\ doubt' \in BOOLEAN
      BY <1>5 DEF Crash
    <2> QED
      BY <1>5, <1>b, <2>3, <2>4, <2>5, <2>6 DEF Crash, published
  <1>6. ASSUME PostEvent PROVE WriterTypeOK'
    <2> DEFINE row == EventRow("cli", now + 1, "down")
    <2>1. row \in EventRows /\ row \in Rows
      BY <1>p, <1>b, RowTypes
    <2> HIDE DEF row
    <2>2. made' = Append(made, row) /\ now' = now + 1 /\ buffer' = [buffer EXCEPT !["cli"] = <<row>>]
      BY <1>6 DEF PostEvent, Make, Made, row
    <2>3. made' \in Seq(EventRows) /\ buffer' \in [Processes -> Seq(Rows)]
      BY <1>p, <2>1, <2>2
    <2> QED
      BY <1>6, <1>b, <2>2, <2>3 DEF PostEvent, published
  <1>7. ASSUME Tick PROVE WriterTypeOK'
    BY <1>7, <1>b DEF Tick, published
  <1> QED
    BY <1>1, <1>2, <1>3, <1>4, <1>5, <1>6, <1>7

\* A flush in the file is done with its next run: the first m of its rows have
\* landed, and those after the n-th are still to be written.  They are the same
\* number unless an answer was lost.
RunDone(p, n, m, ok) ==
    LET run == NextRun(p) IN
    /\ Onward(p, SubSeq(run, n + 1, Len(run)), ok)
    /\ \/ Landed(SubSeq(run, 1, m)) /\ ~HeldBack(p)
       \/ m = 0 /\ UNCHANGED <<table, heartbeat, ended>>
    /\ doubt' = TRUE \/ (n = m /\ doubt' = doubt)
    /\ ok => flight[p].ok /\ n = Len(run)
    /\ faults' \in Nat
    /\ UNCHANGED <<now, made, over, buffer, queue, lock, unflushed, gone, exposed>>

LEMMA RunDoes ==
    ASSUME WriterTypeOK, NEW p \in Processes, FlushRun(p)
    PROVE  \E n \in 0 .. Len(NextRun(p)) : \E m \in n .. Len(NextRun(p)), ok \in BOOLEAN :
              RunDone(p, n, m, ok)
  <1> DEFINE run == NextRun(p)
             size == Len(run)
  <1>1. flight[p] \in Flights /\ flight[p].runs # <<>>
    BY DEF FlushRun, At, WriterTypeOK
  <1>2. run \in Seq(Rows) /\ flight[p].ok \in BOOLEAN
    BY <1>1, FlightTypes DEF NextRun
  <1>3. faults \in Nat /\ Batch \in Nat \ {0}
    BY WriterAssumption DEF WriterTypeOK, WriterAssumption
  <1>4. UNCHANGED <<now, made, over, buffer, queue, lock, unflushed, gone, exposed>>
    BY DEF FlushRun
  <1> HIDE DEF run
  <1>5. SubSeq(run, 1, size) = run /\ SubSeq(run, size + 1, size) = <<>> /\ size \in Nat
    BY <1>2
  <1>6. CASE /\ HeldBack(p) /\ Onward(p, run, FALSE)
             /\ UNCHANGED <<table, heartbeat, ended, faults, doubt>>
    <2>1. SubSeq(run, 0 + 1, size) = run
      BY <1>5
    <2>2. RunDone(p, 0, 0, FALSE)
      BY <1>3, <1>4, <1>6, <2>1 DEF RunDone, run
    <2>3. 0 \in 0 .. size /\ 0 \in 0 .. size
      BY <1>5
    <2> QED
      BY <2>2, <2>3 DEF run
  <1>7. CASE /\ ~HeldBack(p) /\ Landed(run) /\ Onward(p, <<>>, flight[p].ok)
             /\ UNCHANGED <<faults, doubt>>
    <2>1. RunDone(p, size, size, flight[p].ok)
      BY <1>3, <1>4, <1>5, <1>7 DEF RunDone, run
    <2>2. size \in 0 .. size /\ size \in size .. size
      BY <1>5
    <2> QED
      BY <1>2, <2>1, <2>2 DEF run
  <1>8. CASE /\ ~HeldBack(p) /\ Outage(p)
             /\ \E n \in Sent(run) :
                  /\ Onward(p, SubSeq(run, n + 1, size), FALSE)
                  /\ \/ Landed(SubSeq(run, 1, n)) /\ UNCHANGED doubt
                     \/ /\ Landed(SubSeq(run, 1, IF n + Batch <= size THEN n + Batch ELSE size))
                        /\ doubt' = TRUE
    <2>1. faults' \in Nat
      BY <1>3, <1>8 DEF Outage, Fault
    <2>2. PICK n \in Sent(run) :
             /\ Onward(p, SubSeq(run, n + 1, size), FALSE)
             /\ \/ Landed(SubSeq(run, 1, n)) /\ UNCHANGED doubt
                \/ /\ Landed(SubSeq(run, 1, IF n + Batch <= size THEN n + Batch ELSE size))
                   /\ doubt' = TRUE
      BY <1>8
    <2>3. n \in 0 .. size
      BY <1>5 DEF Sent
    <2> DEFINE m == IF n + Batch <= size THEN n + Batch ELSE size
    <2>4. m \in n .. size
      BY <1>3, <1>5, <2>3
    <2> HIDE DEF m
    <2>5. CASE Landed(SubSeq(run, 1, n)) /\ UNCHANGED doubt
      <3>1. RunDone(p, n, n, FALSE)
        BY <1>4, <1>8, <2>1, <2>2, <2>5 DEF RunDone, run
      <3>2. n \in n .. size
        BY <2>3
      <3> QED
        BY <2>3, <3>1, <3>2 DEF run
    <2>6. CASE Landed(SubSeq(run, 1, m)) /\ doubt' = TRUE
      <3>1. RunDone(p, n, m, FALSE)
        BY <1>4, <1>8, <2>1, <2>2, <2>6 DEF RunDone, run
      <3> QED
        BY <2>3, <2>4, <3>1 DEF run
    <2> QED
      BY <2>2, <2>5, <2>6 DEF m
  <1> QED
    BY <1>6, <1>7, <1>8 DEF FlushRun, run, published

LEMMA OnwardDoes ==
    ASSUME WriterTypeOK, NEW p \in Processes, flight[p] \in Flights, flight[p].runs # <<>>,
           NEW left \in Seq(Rows), NEW ok \in BOOLEAN, Onward(p, left, ok)
    PROVE  /\ flight' \in [Processes -> Flights \cup {NULL}] /\ flight'[p] \in Flights
           /\ \A q \in Processes \ {p} : flight'[q] = flight[q]
           /\ flight'[p] = [flight[p] EXCEPT !.runs = Tail(@), !.ok = ok, !.remaining = @ \o left]
           /\ flight'[p].runs = Tail(flight[p].runs) /\ flight'[p].remaining = flight[p].remaining \o left
           /\ flight'[p].ok = ok /\ flight'[p].pc = flight[p].pc /\ flight'[p].held = flight[p].held
           /\ flight'[p].final = flight[p].final
  <1> DEFINE f == flight[p]
             g == [f EXCEPT !.runs = Tail(@), !.ok = ok, !.remaining = @ \o left]
  <1>1. flight \in [Processes -> Flights \cup {NULL}]
    BY DEF WriterTypeOK
  <1>2. flight' = [flight EXCEPT ![p] = g]
    BY <1>1 DEF Onward
  <1> HIDE DEF f
  <1>3. f \in Flights /\ Tail(f.runs) \in Seq(Seq(Rows)) /\ f.remaining \o left \in Seq(Rows)
    BY FlightTypes DEF f
  <1>4. g \in Flights
    BY <1>3 DEF Flights
  <1>5. /\ g.runs = Tail(f.runs) /\ g.remaining = f.remaining \o left /\ g.ok = ok
        /\ g.pc = f.pc /\ g.held = f.held /\ g.final = f.final
    BY <1>3 DEF Flights
  <1> HIDE DEF g
  <1>6. flight'[p] = g /\ \A q \in Processes \ {p} : flight'[q] = flight[q]
    BY <1>1, <1>2
  <1>7. flight' \in [Processes -> Flights \cup {NULL}]
    BY <1>1, <1>2, <1>4
  <1> QED
    BY <1>4, <1>5, <1>6, <1>7 DEF f, g

LEMMA FlushTypesHold ==
    ASSUME WriterTypeOK, NEW p \in Processes, Flush(p)
    PROVE  WriterTypeOK'
  <1> USE DEF WriterTypeOK
  <1>1. ASSUME FlushStart(p) PROVE WriterTypeOK'
    <2> DEFINE f == [pc |-> "enter", runs |-> <<>>, ok |-> TRUE, remaining |-> <<>>, final |-> p = "cli",
                     held |-> buffer[p]]
    <2>1. f \in Flights
      BY DEF Flights
    <2>2. flight' = [flight EXCEPT ![p] = f] /\ buffer' = [buffer EXCEPT ![p] = <<>>]
      BY <1>1 DEF FlushStart
    <2> HIDE DEF f
    <2>3. buffer' \in [Processes -> Seq(Rows)] /\ flight' \in [Processes -> Flights \cup {NULL}]
      BY <2>1, <2>2
    <2> QED
      BY <1>1, <2>3 DEF FlushStart, published
  <1>f. At(p, "enter") \/ At(p, "send") => flight[p] \in Flights /\ ~Idle(p)
    BY DEF At, Idle
  <1>2. ASSUME FlushEnter(p) PROVE WriterTypeOK'
    <2> DEFINE rows == queue \o flight[p].held
               plan == StatsLast(Runs(CoalesceStats(rows)))
    <2>1. flight[p] \in Flights
      BY <1>2, <1>f DEF FlushEnter
    <2>2. rows \in Seq(Rows)
      BY <2>1, FlightTypes
    <2>3. plan \in Seq(Seq(Rows))
      <3> HIDE DEF rows
      <3> QED
        BY <2>2, Planned
    <2>4. flight' = [flight EXCEPT ![p].pc = "send", ![p].runs = plan]
      BY <1>2 DEF FlushEnter
    <2> HIDE DEF plan
    <2>5. [flight[p] EXCEPT !.pc = "send", !.runs = plan] \in Flights
      BY <2>1, <2>3 DEF Flights
    <2>6. flight' \in [Processes -> Flights \cup {NULL}]
      BY <2>4, <2>5
    <2>7. lock' \in Processes \cup {NULL} /\ doubt' \in BOOLEAN
      BY <1>2 DEF FlushEnter, EnterFile, Inside
    <2> QED
      BY <1>2, <2>6, <2>7 DEF FlushEnter, published
  <1>3. ASSUME FlushRefused(p) PROVE WriterTypeOK'
    <2>1. flight[p].held \in Seq(Rows)
      BY <1>3, <1>f, FlightTypes DEF FlushRefused
    <2>2. buffer' \in [Processes -> Seq(Rows)] /\ gone' \subseteq Rows /\ unflushed' \in BOOLEAN
      BY <1>3, <1>f, <2>1, KeepDoes DEF FlushRefused
    <2>3. faults' \in Nat
      BY <1>3 DEF FlushRefused, Fault
    <2>4. flight' \in [Processes -> Flights \cup {NULL}] /\ lock' \in Processes \cup {NULL}
      BY <1>3, LeaveTypes DEF FlushRefused
    <2> QED
      BY <1>3, <2>2, <2>3, <2>4 DEF FlushRefused, published
  <1>4. ASSUME FlushEnd(p) PROVE WriterTypeOK'
    <2>1. flight[p].remaining \in Seq(Rows) /\ ~Idle(p)
      BY <1>4, <1>f, FlightTypes DEF FlushEnd
    <2>2. Keep(p, flight[p].remaining) =>
             buffer' \in [Processes -> Seq(Rows)] /\ gone' \subseteq Rows /\ unflushed' \in BOOLEAN
      BY <2>1, KeepDoes
    <2>3. Fault => faults' \in Nat
      BY DEF Fault
    <2>4. flight' \in [Processes -> Flights \cup {NULL}] /\ lock' \in Processes \cup {NULL}
      BY <1>4, LeaveTypes DEF FlushEnd
    <2>5. \A drained \in BOOLEAN : Report(p, drained) => unflushed' \in BOOLEAN
      BY DEF Report
    <2>6. (flight[p].ok /\ flight[p].remaining = <<>>) \in BOOLEAN
      OBVIOUS
    <2>7. unflushed' \in BOOLEAN
      BY <1>4, <2>2, <2>5, <2>6 DEF FlushEnd
    <2>8. queue' \in Seq(Rows) /\ buffer' \in [Processes -> Seq(Rows)] /\ gone' \subseteq Rows
          /\ faults' \in Nat /\ doubt' \in BOOLEAN
      BY <1>4, <2>1, <2>2, <2>3 DEF FlushEnd
    <2>9. exposed' \subseteq Rows
      <3>1. ToSet(flight[p].remaining) \subseteq Rows
        BY <2>1 DEF ToSet
      <3> QED
        BY <1>4, <3>1 DEF FlushEnd, Exposes
    <2> QED
      BY <1>4, <2>4, <2>7, <2>8, <2>9 DEF FlushEnd, published
  <1>5. ASSUME FlushRun(p) PROVE WriterTypeOK'
    <2> DEFINE run == NextRun(p)
    <2>1. flight[p] \in Flights /\ flight[p].runs # <<>>
      BY <1>5, <1>f DEF FlushRun
    <2>2. run \in Seq(Rows)
      BY <2>1, FlightTypes DEF NextRun
    <2>3. PICK n \in 0 .. Len(run) : \E m \in n .. Len(run), ok \in BOOLEAN : RunDone(p, n, m, ok)
      BY <1>5, RunDoes
    <2>4. PICK m \in n .. Len(run), ok \in BOOLEAN : RunDone(p, n, m, ok)
      BY <2>3
    <2> HIDE DEF run
    <2>5. SubSeq(run, n + 1, Len(run)) \in Seq(Rows) /\ SubSeq(run, 1, m) \in Seq(Rows)
      <3>1. Len(run) \in Nat
        BY <2>2
      <3>2. n + 1 \in Nat \ {0} /\ Len(run) \in 0 .. Len(run) /\ m \in 0 .. Len(run) /\ 1 \in Nat \ {0}
        BY <3>1
      <3> QED
        BY <2>2, <3>2, SliceDrawn, SMTT(60)
    <2>6. flight' \in [Processes -> Flights \cup {NULL}]
      <3> DEFINE left == SubSeq(run, n + 1, Len(run))
      <3>1. Onward(p, left, ok) /\ left \in Seq(Rows)
        BY <2>4, <2>5 DEF RunDone, run
      <3> HIDE DEF left
      <3> QED
        BY <2>1, <3>1, OnwardDoes
    <2>7. table' \in Seq(EventRows) /\ heartbeat' \in Nat /\ ended' \in Nat \cup {NULL}
      BY <2>4, <2>5, LandedDoes DEF RunDone, run
    <2>8. doubt' \in BOOLEAN
      BY <2>4 DEF RunDone
    <2> QED
      BY <2>4, <2>6, <2>7, <2>8 DEF RunDone
  <1> QED
    BY <1>1, <1>2, <1>3, <1>4, <1>5 DEF Flush

-----------------------------------------------------------------------------
(* Where the rows are                                                      *)

\* What a process has in its memory, what is on file, what a flush has on its
\* list, what is over and done with.
HeldBy(p) == IF flight[p] = NULL THEN {} ELSE ToSet(flight[p].held)
Memory(p) == ToSet(buffer[p]) \cup HeldBy(p)
OnFile == ToSet(queue)
Loaded(p) == IF At(p, "send") THEN Unsent(p) ELSE {}
Done == ToSet(table) \cup gone \cup exposed
Everywhere == ToSet(table) \cup OnFile \cup Memory("loop") \cup Memory("cli")
                  \cup Loaded("loop") \cup Loaded("cli")

\* Every event of one set is in another; every event of the loop up to a time
\* is.
Over(S, T) == \A r \in S : r.op = "event" => r \in T
Tells(M, t, S) == \A r \in M : r.by = "loop" /\ r.ts <= t => r \in S

\* Nothing is dated after now.
Dated ==
    /\ \A r \in Everywhere \cup ToSet(made) : r.ts <= now
    /\ heartbeat <= now

\* No event has disappeared, and the loop's are not in the watchdog's hands.
Kept ==
    /\ ToSet(made) \subseteq Done \cup OnFile \cup Memory("loop") \cup Memory("cli")
    /\ Tells(ToSet(made), now, Done \cup OnFile \cup Memory("loop"))

\* Wherever a heartbeat is, what it vouches for goes before it.
Honest ==
    /\ Tells(ToSet(made), heartbeat, Done)
    /\ \A r \in OnFile : IsStats(r) => Tells(ToSet(made), r.ts, Done \cup OnFile)
    /\ \A r \in Memory("loop") : IsStats(r) =>
          Tells(ToSet(made), r.ts, Done \cup OnFile \cup Memory("loop"))
    /\ \A p \in Processes : \A r \in Loaded(p) : IsStats(r) =>
          Tells(ToSet(made), r.ts, Done \cup Loaded(p))

Delivery == Dated /\ Kept /\ Honest

\* A heartbeat keeps its word in what a step makes of the rows.
Vouched(r, S) == ToSet(made') = ToSet(made) /\ Tells(ToSet(made), r.ts, S)

\* What a step does with the rows, whichever it is.
Delivers ==
    /\ Over(Done, Done') /\ Over(OnFile, Done' \cup OnFile')
    /\ Over(Memory("loop"), Done' \cup OnFile' \cup Memory("loop")')
    /\ Over(Memory("cli"), Done' \cup OnFile' \cup Memory("cli")')
    /\ now <= now'
    /\ \/ ToSet(made') = ToSet(made)
       \/ \E p \in Processes, row \in EventRows :
            /\ ToSet(made') = ToSet(made) \cup {row}
            /\ row.by = p /\ row.ts = now' /\ now' = now + 1
            /\ row \in Done' \cup OnFile' \cup Memory(p)'
    /\ \A r \in OnFile' : IsStats(r) =>
          \/ r \in OnFile
          \/ r \in Memory("loop") /\ Over(Memory("loop"), Done' \cup OnFile')
          \/ Vouched(r, Done' \cup OnFile')
    /\ \A r \in Memory("loop")' : IsStats(r) =>
          \/ r \in OnFile \cup Memory("loop")
          \/ r.ts = now /\ ToSet(made') = ToSet(made)
          \/ Vouched(r, Done' \cup OnFile' \cup Memory("loop")')
    /\ \A p \in Processes : \A r \in Loaded(p)' : IsStats(r) =>
          \/ r \in Loaded(p) /\ Over(Loaded(p), Done' \cup Loaded(p)')
          \/ Vouched(r, Done' \cup Loaded(p)')
    /\ \/ heartbeat' = heartbeat
       \/ /\ ToSet(made') = ToSet(made) /\ heartbeat' <= now
          /\ Tells(ToSet(made), heartbeat', Done')
    /\ \A r \in Everywhere' : r \in Everywhere \/ r.ts <= now'

Rowed ==
    /\ \A r \in Everywhere : r \in Rows /\ r.ts \in Nat
    /\ \A r \in ToSet(made) : r \in EventRows /\ r.ts \in Nat /\ r.op = "event"
    /\ now \in Nat /\ heartbeat \in Nat

LEMMA RowsAreRows == WriterTypeOK => Rowed
  <1> SUFFICES ASSUME WriterTypeOK PROVE Rowed
    OBVIOUS
  <1>1. ToSet(table) \subseteq EventRows /\ ToSet(made) \subseteq EventRows /\ OnFile \subseteq Rows
    BY DEF WriterTypeOK, ToSet, OnFile
  <1>2. ASSUME NEW p \in Processes PROVE Memory(p) \subseteq Rows
    <2>1. ToSet(buffer[p]) \subseteq Rows
      BY DEF WriterTypeOK, ToSet
    <2>2. flight[p] # NULL => flight[p].held \in Seq(Rows)
      BY FlightTypes DEF WriterTypeOK
    <2> QED
      BY <2>1, <2>2 DEF Memory, HeldBy, ToSet
  <1>3. Memory("loop") \subseteq Rows /\ Memory("cli") \subseteq Rows
    BY <1>2 DEF Processes
  <1>4. \A r \in Everywhere : r \in Rows
    <2>1. ASSUME NEW p \in Processes PROVE Loaded(p) \subseteq Rows
      <3>1. CASE At(p, "send")
        <4>1. flight[p].runs \in Seq(Seq(Rows)) /\ flight[p].remaining \in Seq(Rows)
          BY <3>1, FlightTypes DEF WriterTypeOK, At
        <4> QED
          BY <3>1, <4>1 DEF Loaded, Unsent, InRuns, ToSet
      <3> QED
        BY <3>1 DEF Loaded
    <2>2. Loaded("loop") \subseteq Rows /\ Loaded("cli") \subseteq Rows
      BY <2>1 DEF Processes
    <2> QED
      BY <1>1, <1>3, <2>2, RowTypes DEF Everywhere
  <1>5. EventRows \subseteq Rows /\ \A r \in Rows : r.ts \in Nat
    BY RowTypes
  <1> QED
    BY <1>1, <1>4, <1>5, RowTypes DEF WriterTypeOK, Rowed

LEMMA TellsOn ==
    ASSUME NEW M, NEW N, NEW S, NEW T, NEW t \in Nat,
           Tells(M, t, S), Over(S, T),
           \A r \in M : r.op = "event",
           \A r \in N : r \in M \/ (r.ts \in Nat /\ t < r.ts)
    PROVE  Tells(N, t, T)
  <1> SUFFICES ASSUME NEW r \in N, r.by = "loop", r.ts <= t PROVE r \in T
    BY DEF Tells
  <1>1. r \in M
    OBVIOUS
  <1> QED
    BY <1>1 DEF Tells, Over

\* What the rows owe each other survives such a step.
LEMMA Delivered ==
    ASSUME WriterTypeOK, WriterTypeOK', Delivery, Delivers
    PROVE  Delivery'
  <1> DEFINE M == ToSet(made)
             N == ToSet(made')
             L == Memory("loop")
             W == Memory("cli")
             L1 == Memory("loop")'
             W1 == Memory("cli")'
  <1>1. /\ \A r \in M : r \in EventRows /\ r.ts \in Nat /\ r.op = "event" /\ r.ts <= now
        /\ \A r \in Everywhere : r.ts \in Nat /\ r.ts <= now
        /\ now \in Nat /\ heartbeat \in Nat /\ heartbeat <= now
    BY RowsAreRows DEF Rowed, Delivery, Dated
  <1>2. /\ \A r \in N : r \in EventRows /\ r.ts \in Nat /\ r.op = "event"
        /\ \A r \in Everywhere' : r.ts \in Nat
        /\ now' \in Nat /\ heartbeat' \in Nat /\ now <= now'
    <2>1. Rowed'
      BY RowsAreRows, PTL
    <2> QED
      BY <2>1 DEF Rowed, Delivers
  <1>3. \A r \in N : r \in M \/ (r.ts = now' /\ now' = now + 1)
    BY DEF Delivers
  <1>4. \A t \in Nat : t <= now => \A r \in N : r \in M \/ (r.ts \in Nat /\ t < r.ts)
    BY <1>1, <1>2, <1>3
  <1>5. Dated'
    <2>1. \A r \in Everywhere' : r.ts <= now'
      BY <1>1, <1>2 DEF Delivers
    <2>2. \A r \in N : r.ts <= now'
      BY <1>1, <1>2, <1>3
    <2>3. heartbeat' <= now'
      BY <1>1, <1>2 DEF Delivers
    <2> QED
      BY <2>1, <2>2, <2>3 DEF Dated
  <1>6. /\ Over(Done, Done') /\ Over(OnFile, Done' \cup OnFile')
        /\ Over(L, Done' \cup OnFile' \cup L1)
        /\ Over(W, Done' \cup OnFile' \cup W1)
    BY DEF Delivers
  <1>7. /\ M \subseteq Done \cup OnFile \cup L \cup W
        /\ Tells(M, now, Done \cup OnFile \cup L)
        /\ Tells(M, heartbeat, Done)
        /\ \A r \in OnFile : IsStats(r) => Tells(M, r.ts, Done \cup OnFile)
        /\ \A r \in L : IsStats(r) => Tells(M, r.ts, Done \cup OnFile \cup L)
    BY DEF Delivery, Kept, Honest
  <1>8. \/ N = M
        \/ \E p \in Processes, row \in EventRows :
              /\ N = M \cup {row} /\ row.by = p /\ row.ts = now' /\ now' = now + 1
              /\ row \in Done' \cup OnFile' \cup (IF p = "loop" THEN L1 ELSE W1)
    <2>1. \A p \in Processes : Memory(p)' = IF p = "loop" THEN L1 ELSE W1
      BY DEF Processes
    <2> HIDE DEF L1, W1
    <2> QED
      BY <2>1 DEF Delivers
  <1>9. \A r \in OnFile' : IsStats(r) =>
           \/ r \in OnFile
           \/ r \in L /\ Over(L, Done' \cup OnFile')
           \/ N = M /\ Tells(M, r.ts, Done' \cup OnFile')
    BY DEF Delivers, Vouched
  <1>10. \A r \in L1 : IsStats(r) =>
            \/ r \in OnFile \cup L
            \/ r.ts = now /\ N = M
            \/ N = M /\ Tells(M, r.ts, Done' \cup OnFile' \cup L1)
    BY DEF Delivers, Vouched
  <1>l. ASSUME NEW p \in Processes, NEW r \in Loaded(p)', IsStats(r)
        PROVE  Tells(N, r.ts, Done' \cup Loaded(p)')
    <2>1. CASE r \in Loaded(p) /\ Over(Loaded(p), Done' \cup Loaded(p)')
      <3>1. Tells(M, r.ts, Done \cup Loaded(p))
        BY <1>l, <2>1 DEF Delivery, Honest
      <3>2. r.ts \in Nat /\ r.ts <= now
        <4>1. r \in Everywhere
          BY <2>1 DEF Everywhere, Processes
        <4> QED
          BY <1>1, <4>1
      <3>3. Over(Done \cup Loaded(p), Done' \cup Loaded(p)')
        BY <2>1 DEF Delivers, Over
      <3> HIDE DEF M, N
      <3> QED
        BY <1>1, <1>4, <3>1, <3>2, <3>3, TellsOn
    <2>2. CASE Vouched(r, Done' \cup Loaded(p)')
      BY <2>2 DEF Vouched
    <2> QED
      BY <1>l, <2>1, <2>2 DEF Delivers
  <1>11. heartbeat' = heartbeat \/ (N = M /\ Tells(M, heartbeat', Done'))
    BY DEF Delivers
  <1>12. OnFile \cup L \cup W \subseteq Everywhere
    BY DEF Everywhere
  <1> HIDE DEF M, N, L, W, L1, W1
  <1>13. N \subseteq Done' \cup OnFile' \cup L1 \cup W1
    BY <1>1, <1>6, <1>7, <1>8 DEF Over, Processes
  <1>14. Tells(N, now', Done' \cup OnFile' \cup L1)
    <2>1. Tells(M, now', Done' \cup OnFile' \cup L1)
      BY <1>1, <1>6, <1>7 DEF Over, Tells
    <2> QED
      BY <1>8, <2>1 DEF Tells, Processes
  <1>15. Tells(N, heartbeat', Done')
    <2>1. CASE heartbeat' = heartbeat
      BY <1>1, <1>4, <1>6, <1>7, <2>1, TellsOn
    <2>2. CASE N = M /\ Tells(M, heartbeat', Done')
      BY <2>2
    <2> QED
      BY <1>11, <2>1, <2>2
  <1>16. ASSUME NEW r \in OnFile', IsStats(r) PROVE Tells(N, r.ts, Done' \cup OnFile')
    <2>1. CASE r \in OnFile
      <3>1. Tells(M, r.ts, Done \cup OnFile) /\ r.ts \in Nat /\ r.ts <= now
        BY <1>1, <1>7, <1>12, <1>16, <2>1
      <3>2. Over(Done \cup OnFile, Done' \cup OnFile')
        BY <1>6 DEF Over
      <3> QED
        BY <1>1, <1>4, <3>1, <3>2, TellsOn
    <2>2. CASE r \in L /\ Over(L, Done' \cup OnFile')
      <3>1. Tells(M, r.ts, Done \cup OnFile \cup L) /\ r.ts \in Nat /\ r.ts <= now
        BY <1>1, <1>7, <1>12, <1>16, <2>2
      <3>2. Over(Done \cup OnFile \cup L, Done' \cup OnFile')
        BY <1>6, <2>2 DEF Over
      <3> QED
        BY <1>1, <1>4, <3>1, <3>2, TellsOn
    <2>3. CASE N = M /\ Tells(M, r.ts, Done' \cup OnFile')
      BY <2>3
    <2> QED
      BY <1>9, <1>16, <2>1, <2>2, <2>3
  <1>17. ASSUME NEW r \in L1, IsStats(r) PROVE Tells(N, r.ts, Done' \cup OnFile' \cup L1)
    <2>1. Over(Done \cup OnFile \cup L, Done' \cup OnFile' \cup L1)
      BY <1>6 DEF Over
    <2>2. CASE r \in OnFile \cup L
      <3>1. Tells(M, r.ts, Done \cup OnFile \cup L) /\ r.ts \in Nat /\ r.ts <= now
        BY <1>1, <1>7, <1>12, <1>17, <2>2 DEF Tells
      <3> QED
        BY <1>1, <1>4, <2>1, <3>1, TellsOn
    <2>3. CASE r.ts = now /\ N = M
      BY <1>1, <1>4, <1>7, <2>1, <2>3, TellsOn
    <2>4. CASE N = M /\ Tells(M, r.ts, Done' \cup OnFile' \cup L1)
      BY <2>4
    <2> QED
      BY <1>10, <1>17, <2>2, <2>3, <2>4
  <1> QED
    BY <1>5, <1>13, <1>14, <1>15, <1>16, <1>17, <1>l DEF Delivery, Kept, Honest, M, N, L, W, L1, W1

-----------------------------------------------------------------------------
(* The critical section                                                    *)

\* Who holds the lock is sending, and, if it is never given up, nobody else is; a
\* flush took all there was in its process's memory; the watchdog has no
\* heartbeats and exits after one.
Ordered ==
    /\ \A p \in Processes : lock = p => At(p, "send")
    /\ ~LockGivesUp => exposed = {} /\ \A p \in Processes : At(p, "send") => lock = p
    /\ \A p \in Processes : flight[p] # NULL => buffer[p] = <<>>
    /\ \A p \in Processes : At(p, "enter") => flight[p].remaining = <<>>
    /\ flight["cli"] # NULL => flight["cli"].final
    /\ \A r \in Memory("cli") : ~IsStats(r)

\* A flush that is sending has on its list every event of the file and of what
\* it took that has not landed and was not put there under its hands, the
\* heartbeats last; and nothing else, if the lock is never given up.
Sound(p) ==
    /\ Over(OnFile \cup HeldBy(p), ToSet(table) \cup exposed \cup Unsent(p))
    /\ ~LockGivesUp => Unsent(p) \subseteq OnFile \cup HeldBy(p)
    /\ flight[p].ok => flight[p].remaining = <<>>
    /\ \A k \in DOMAIN flight[p].runs : Uniform(flight[p].runs[k])
    /\ StatsAfter(flight[p].runs)

Sending == \A p \in Processes : At(p, "send") => Sound(p)

WriterInv == WriterTypeOK /\ Ordered /\ Sending /\ Delivery

LEMMA AppendIs ==
    ASSUME NEW S, NEW list \in Seq(S), NEW r \in S
    PROVE  /\ Append(list, r) \in Seq(S)
           /\ ToSet(Append(list, r)) = ToSet(list) \cup {r}
           /\ Once(list) /\ r \notin ToSet(list) => Once(Append(list, r))
  <1> DEFINE new == Append(list, r)
  <1>1. new \in Seq(S) /\ DOMAIN new = DOMAIN list \cup {Len(list) + 1} /\ Len(list) + 1 \notin DOMAIN list
    OBVIOUS
  <1>2. new[Len(list) + 1] = r /\ \A i \in DOMAIN list : new[i] = list[i]
    OBVIOUS
  <1> HIDE DEF new
  <1>3. ToSet(new) = ToSet(list) \cup {r}
    BY <1>1, <1>2 DEF ToSet
  <1>4. Once(list) /\ r \notin ToSet(list) => Once(new)
    BY <1>1, <1>2 DEF Once, ToSet
  <1> QED
    BY <1>1, <1>3, <1>4 DEF new

LEMMA SoundStays ==
    ASSUME NEW p \in Processes, Sound(p), flight'[p] = flight[p], queue' = queue,
           ToSet(table) \subseteq ToSet(table'), exposed \subseteq exposed'
    PROVE  Sound(p)'
  <1>1. OnFile' = OnFile /\ HeldBy(p)' = HeldBy(p) /\ Unsent(p)' = Unsent(p)
    BY DEF OnFile, HeldBy, Unsent, InRuns
  <1> QED
    BY <1>1 DEF Sound, Over, Uniform, StatsAfter

\* What a flush has on its list that no step of its own touches.
LEMMA LoadStays ==
    ASSUME NEW p \in Processes, flight'[p] = flight[p] \/ (~At(p, "send") /\ ~At(p, "send")')
    PROVE  Loaded(p)' = Loaded(p)
  BY DEF Loaded, At, Unsent, InRuns

\* With the lock never given up a flush in the file is alone there, and has on
\* its list what is on file and what it took.
LEMMA Locked ==
    ASSUME ~LockGivesUp, WriterInv
    PROVE  /\ exposed = {}
           /\ \A p \in Processes : At(p, "send") <=> lock = p
           /\ \A p \in Processes : At(p, "send") =>
                /\ Sound(p)
                /\ Unsent(p) \subseteq OnFile \cup HeldBy(p)
                /\ Over(OnFile \cup HeldBy(p), ToSet(table) \cup Unsent(p))
  <1>1. exposed = {} /\ \A p \in Processes : At(p, "send") <=> lock = p
    BY DEF WriterInv, Ordered
  <1>2. ASSUME NEW p \in Processes, At(p, "send")
        PROVE  /\ Sound(p)
               /\ Unsent(p) \subseteq OnFile \cup HeldBy(p)
               /\ Over(OnFile \cup HeldBy(p), ToSet(table) \cup Unsent(p))
    <2>1. Sound(p)
      BY <1>2 DEF WriterInv, Sending
    <2> QED
      BY <1>1, <2>1 DEF Sound, Over
  <1> QED
    BY <1>1, <1>2

LEMMA TwoProcesses == Processes = {"loop", "cli"} /\ NULL \notin Processes
  BY WriterAssumption DEF Processes, WriterAssumption

LEMMA NewRow ==
    ASSUME WriterTypeOK, NEW p \in Processes, NEW type \in Types
    PROVE  /\ EventRow(p, now + 1, type) \in EventRows /\ EventRow(p, now + 1, type) \in Rows
           /\ EventRow(p, now + 1, type).by = p /\ EventRow(p, now + 1, type).ts = now + 1
           /\ EventRow(p, now + 1, type).op = "event"
  <1>1. now + 1 \in Nat
    BY DEF WriterTypeOK
  <1> QED
    BY <1>1, RowTypes DEF EventRow

LEMMA RecordStep ==
    ASSUME WriterInv, NEW type \in Types, RecordEvent(type)
    PROVE  Ordered' /\ Sending' /\ Delivers
  <1> DEFINE row == EventRow("loop", now + 1, type)
  <1>1. /\ flight["loop"] = NULL /\ made' = Append(made, row) /\ now' = now + 1
        /\ buffer' = [buffer EXCEPT !["loop"] = Append(@, row)]
        /\ UNCHANGED <<table, heartbeat, queue, lock, flight, gone, exposed>>
    BY DEF RecordEvent, Make, Made, CanRecord, Running, Idle, published
  <1>2. /\ buffer \in [Processes -> Seq(Rows)] /\ made \in Seq(EventRows) /\ now \in Nat
        /\ row \in EventRows /\ row \in Rows /\ row.by = "loop" /\ row.ts = now + 1 /\ row.op = "event"
    BY NewRow, TwoProcesses DEF WriterInv, WriterTypeOK
  <1> HIDE DEF row
  <1>3. /\ ToSet(made') = ToSet(made) \cup {row} /\ ToSet(buffer'["loop"]) = ToSet(buffer["loop"]) \cup {row}
        /\ buffer'["cli"] = buffer["cli"]
    <2>1. buffer["loop"] \in Seq(Rows) /\ buffer'["loop"] = Append(buffer["loop"], row)
          /\ buffer'["cli"] = buffer["cli"]
      BY <1>1, <1>2, TwoProcesses
    <2> QED
      BY <1>1, <1>2, <2>1, AppendIs
  <1>4. /\ Memory("loop")' = Memory("loop") \cup {row} /\ Memory("cli")' = Memory("cli")
        /\ OnFile' = OnFile /\ Done' = Done
    BY <1>1, <1>3 DEF Memory, HeldBy, OnFile, Done
  <1>l. \A p \in Processes : Loaded(p)' = Loaded(p)
    BY <1>1, LoadStays
  <1>5. Ordered'
    <2>1. \A p \in Processes : flight[p] # NULL => buffer'[p] = <<>>
      BY <1>1, <1>3, TwoProcesses DEF WriterInv, Ordered
    <2> QED
      BY <1>1, <1>4, <2>1 DEF WriterInv, Ordered, At
  <1>6. Sending'
    BY <1>1, SoundStays DEF WriterInv, Sending, At
  <1>7. Everywhere' = Everywhere \cup {row}
    BY <1>1, <1>4, <1>l, TwoProcesses DEF Everywhere
  <1>8. Delivers
    BY <1>1, <1>2, <1>3, <1>4, <1>7, <1>l, TwoProcesses DEF Delivers, Over, IsStats
  <1> QED
    BY <1>5, <1>6, <1>8

LEMMA InsertStep ==
    ASSUME WriterInv, NEW type \in Types, InsertEventNow(type)
    PROVE  Ordered' /\ Sending' /\ Delivers
  <1> DEFINE row == EventRow("loop", now + 1, type)
  <1>1. /\ made' = Append(made, row) /\ now' = now + 1
        /\ \/ Landed(<<row>>) /\ UNCHANGED <<queue, gone, exposed, faults, doubt>>
           \/ Enqueue(row) /\ (UNCHANGED <<table, heartbeat, ended>> \/ Landed(<<row>>))
           \/ gone' = gone \cup {row} /\ UNCHANGED <<table, heartbeat, ended, queue, exposed>>
        /\ UNCHANGED <<buffer, lock, flight>> /\ flight["loop"] = NULL
    BY DEF InsertEventNow, Make, Made, published, CanRecord, Running, Idle
  <1>2. /\ WriterTypeOK /\ made \in Seq(EventRows) /\ now \in Nat
        /\ row \in EventRows /\ row \in Rows /\ row.by = "loop" /\ row.ts = now + 1 /\ row.op = "event"
    BY NewRow, TwoProcesses DEF WriterInv, WriterTypeOK
  <1> HIDE DEF row
  <1>3. ToSet(made') = ToSet(made) \cup {row}
    BY <1>1, <1>2, AppendIs
  <1>4. Landed(<<row>>) => ToSet(table') = ToSet(table) \cup {row} /\ heartbeat' = heartbeat
    <2> DEFINE one == <<row>>
    <2>1. one \in Seq(Rows) /\ ToSet(one) = {row}
      BY <1>2 DEF ToSet
    <2> HIDE DEF one
    <2>2. Landed(one) => /\ ToSet(table') = ToSet(table) \cup {r \in ToSet(one) : r.op = "event"}
                         /\ heartbeat' = heartbeat \/ \E r \in ToSet(one) : IsStats(r) /\ heartbeat' = r.ts
      BY <1>2, <2>1, LandedDoes
    <2> QED
      BY <1>2, <2>1, <2>2 DEF one, IsStats
  <1>5. Enqueue(row) =>
          /\ OnFile' \subseteq OnFile \cup {row} /\ gone \subseteq gone'
          /\ \A r \in OnFile \cup {row} : ~IsStats(r) => r \in OnFile' \cup gone'
          /\ exposed \subseteq exposed'
          /\ \A q \in Processes \ {"loop"} : At(q, "send") => row \in Unsent(q) \cup exposed'
          /\ ~LockGivesUp => exposed' = exposed
    <2> SUFFICES ASSUME Enqueue(row)
                 PROVE  /\ OnFile' \subseteq OnFile \cup {row} /\ gone \subseteq gone'
                        /\ \A r \in OnFile \cup {row} : ~IsStats(r) => r \in OnFile' \cup gone'
                        /\ exposed \subseteq exposed'
                        /\ \A q \in Processes \ {"loop"} : At(q, "send") => row \in Unsent(q) \cup exposed'
                        /\ ~LockGivesUp => exposed' = exposed
      OBVIOUS
    <2>1. ~LockGivesUp => exposed' = exposed
      <3> SUFFICES ASSUME ~LockGivesUp PROVE exposed' = exposed
        OBVIOUS
      <3>1. \A q \in Processes : ~At(q, "send")
        BY Locked, TwoProcesses DEF Enqueue
      <3> QED
        BY <3>1 DEF Enqueue, Exposes
    <2> QED
      BY <1>2, <2>1, EnqueueDoes DEF OnFile
  <1>6. /\ heartbeat' = heartbeat /\ ToSet(table) \subseteq ToSet(table') /\ ToSet(table') \subseteq ToSet(table) \cup {row}
        /\ gone \subseteq gone' /\ exposed \subseteq exposed' /\ OnFile' \subseteq OnFile \cup {row}
        /\ \A r \in OnFile \cup {row} : r.op = "event" => r \in OnFile' \cup Done'
        /\ ~LockGivesUp => exposed' = exposed /\ (queue' = queue \/ lock = NULL)
        /\ \/ queue' = queue
           \/ \A q \in Processes \ {"loop"} : At(q, "send") => row \in Unsent(q) \cup exposed'
    BY <1>1, <1>2, <1>4, <1>5 DEF OnFile, Done, IsStats, Enqueue
  <1>7. Memory("loop")' = Memory("loop") /\ Memory("cli")' = Memory("cli")
    BY <1>1 DEF Memory, HeldBy
  <1>l. \A p \in Processes : Loaded(p)' = Loaded(p)
    BY <1>1, LoadStays
  <1>8. Ordered'
    BY <1>1, <1>6, <1>7 DEF WriterInv, Ordered, At
  <1>9. Sending'
    <2> SUFFICES ASSUME NEW p \in Processes, At(p, "send")' PROVE Sound(p)'
      BY DEF Sending
    <2>1. At(p, "send") /\ Sound(p) /\ p # "loop"
      BY <1>1 DEF At, WriterInv, Sending
    <2>2. CASE queue' = queue
      BY <1>1, <1>6, <2>1, <2>2, SoundStays
    <2>3. CASE row \in Unsent(p) \cup exposed'
      <3>1. Unsent(p)' = Unsent(p) /\ HeldBy(p)' = HeldBy(p) /\ flight'[p] = flight[p]
        BY <1>1 DEF Unsent, InRuns, HeldBy
      <3>2. Over(OnFile' \cup HeldBy(p), ToSet(table') \cup exposed' \cup Unsent(p))
        BY <1>6, <2>1, <2>3 DEF Sound, Over
      <3>3. ~LockGivesUp => queue' = queue
        BY <1>6, <2>1, Locked, TwoProcesses
      <3>4. ~LockGivesUp => Unsent(p) \subseteq OnFile' \cup HeldBy(p)
        BY <2>1, <3>3 DEF Sound, OnFile
      <3> QED
        BY <2>1, <3>1, <3>2, <3>4 DEF Sound, Uniform, StatsAfter
    <2> QED
      BY <1>6, <2>1, <2>2, <2>3
  <1>10. \A r \in Everywhere' : r \in Everywhere \/ r = row
    BY <1>6, <1>7, <1>l, TwoProcesses DEF Everywhere
  <1>11. Over(Done, Done') /\ Over(OnFile, Done' \cup OnFile') /\ row \in Done' \cup OnFile'
    BY <1>2, <1>6 DEF Over, Done
  <1>12. \A r \in OnFile' : IsStats(r) => r \in OnFile
    BY <1>2, <1>6 DEF IsStats
  <1>13. Delivers
    BY <1>1, <1>2, <1>3, <1>6, <1>7, <1>10, <1>11, <1>12, <1>l, TwoProcesses DEF Delivers, Over
  <1> QED
    BY <1>8, <1>9, <1>13

LEMMA HeartbeatStep ==
    ASSUME WriterInv, Heartbeat
    PROVE  Ordered' /\ Sending' /\ Delivers
  <1> DEFINE row == StatsRow(now)
  <1>1. /\ flight["loop"] = NULL
        /\ UNCHANGED <<now, made, table, heartbeat, queue, lock, flight, gone, exposed>>
    BY DEF Heartbeat, Running, Idle, published
  <1>2. /\ buffer'["cli"] = buffer["cli"]
        /\ ToSet(buffer'["loop"]) \subseteq ToSet(buffer["loop"]) \cup {row}
        /\ \A r \in ToSet(buffer["loop"]) : ~IsStats(r) => r \in ToSet(buffer'["loop"])
    BY HeartbeatDoes DEF WriterInv
  <1>3. row.op = "stats" /\ row.ts = now /\ now \in Nat
    BY DEF StatsRow, WriterInv, WriterTypeOK
  <1> HIDE DEF row
  <1>4. /\ Memory("loop")' \subseteq Memory("loop") \cup {row} /\ Memory("cli")' = Memory("cli")
        /\ \A r \in Memory("loop") : ~IsStats(r) => r \in Memory("loop")'
        /\ OnFile' = OnFile /\ Done' = Done
    BY <1>1, <1>2 DEF Memory, HeldBy, OnFile, Done
  <1>l. \A p \in Processes : Loaded(p)' = Loaded(p)
    BY <1>1, LoadStays
  <1>5. Ordered'
    <2>1. \A p \in Processes : flight[p] # NULL => buffer'[p] = <<>>
      BY <1>1, <1>2, TwoProcesses DEF WriterInv, Ordered
    <2> QED
      BY <1>1, <1>4, <2>1 DEF WriterInv, Ordered, At
  <1>6. Sending'
    BY <1>1, SoundStays DEF WriterInv, Sending, At
  <1>7. Everywhere' \subseteq Everywhere \cup {row}
    BY <1>1, <1>4, <1>l, TwoProcesses DEF Everywhere
  <1>8. Delivers
    BY <1>1, <1>3, <1>4, <1>7, <1>l DEF Delivers, Over, IsStats
  <1> QED
    BY <1>5, <1>6, <1>8

LEMMA StopStep ==
    ASSUME WriterInv, Stop
    PROVE  Ordered' /\ Sending' /\ Delivers
  <1> DEFINE row == EventRow("loop", now + 1, "end")
             end == EndRow(now + 1)
             held == buffer["loop"] \o <<row, end>>
             f == [pc |-> "enter", runs |-> <<>>, ok |-> TRUE, remaining |-> <<>>, final |-> TRUE,
                   held |-> held]
  <1>1. /\ flight["loop"] = NULL /\ made' = Append(made, row) /\ now' = now + 1
        /\ flight' = [flight EXCEPT !["loop"] = f]
        /\ buffer' = [buffer EXCEPT !["loop"] = <<>>]
        /\ UNCHANGED <<table, heartbeat, queue, lock, gone, exposed>>
    BY DEF Stop, Make, Made, Running, Idle, published
  <1>2. /\ WriterTypeOK /\ buffer \in [Processes -> Seq(Rows)] /\ made \in Seq(EventRows) /\ now \in Nat
        /\ flight \in [Processes -> Flights \cup {NULL}]
        /\ row \in EventRows /\ row \in Rows /\ row.by = "loop" /\ row.ts = now + 1 /\ row.op = "event"
    BY NewRow, TwoProcesses DEF WriterInv, WriterTypeOK, Types
  <1>3. end \in Rows /\ end.op = "session" /\ end.ts = now + 1
    <2>1. now + 1 \in Nat
      BY <1>2
    <2> QED
      BY <2>1, RowTypes DEF EndRow
  <1> HIDE DEF row, end
  <1>4. held \in Seq(Rows) /\ ToSet(held) = ToSet(buffer["loop"]) \cup {row, end}
    <2> DEFINE two == <<row, end>>
    <2>1. two \in Seq(Rows) /\ ToSet(two) = {row, end}
      BY <1>2, <1>3 DEF ToSet
    <2>2. buffer["loop"] \in Seq(Rows)
      BY <1>2, TwoProcesses
    <2> HIDE DEF two
    <2>3. held = buffer["loop"] \o two
      BY DEF two
    <2> HIDE DEF held
    <2> QED
      BY <2>1, <2>2, <2>3, Joined
  <1>5. f.pc = "enter" /\ f.held = held /\ f.remaining = <<>> /\ f # NULL
    <2>1. f \in Flights
      BY <1>4 DEF Flights
    <2> HIDE DEF f
    <2>2. f # NULL
      BY <2>1, FlightTypes
    <2> QED
      BY <2>2 DEF f
  <1> HIDE DEF f, held
  <1>6. flight'["loop"] = f /\ flight'["cli"] = flight["cli"]
        /\ buffer'["loop"] = <<>> /\ buffer'["cli"] = buffer["cli"]
    BY <1>1, <1>2, TwoProcesses
  <1>7. ToSet(made') = ToSet(made) \cup {row}
    BY <1>1, <1>2, AppendIs
  <1>8. /\ Memory("loop")' = Memory("loop") \cup {row, end} /\ Memory("cli")' = Memory("cli")
        /\ OnFile' = OnFile /\ Done' = Done
    <2>1. Memory("loop")' = ToSet(held)
      BY <1>5, <1>6 DEF Memory, HeldBy, ToSet
    <2>2. Memory("loop") = ToSet(buffer["loop"])
      BY <1>1 DEF Memory, HeldBy
    <2> QED
      BY <1>1, <1>4, <1>6, <2>1, <2>2 DEF Memory, HeldBy, OnFile, Done
  <1>9. ~At("loop", "send")' /\ ~At("loop", "send")
    BY <1>1, <1>5, <1>6 DEF At
  <1>10. /\ At("cli", "send")' <=> At("cli", "send")
         /\ At("cli", "enter")' <=> At("cli", "enter")
    BY <1>6 DEF At
  <1>l. \A p \in Processes : Loaded(p)' = Loaded(p)
    BY <1>6, <1>9, TwoProcesses, LoadStays
  <1>11. Ordered'
    BY <1>1, <1>5, <1>6, <1>8, <1>9, <1>10, TwoProcesses DEF WriterInv, Ordered
  <1>12. Sending'
    <2>1. At("cli", "send")' => Sound("cli")'
      BY <1>1, <1>6, <1>10, SoundStays, TwoProcesses DEF WriterInv, Sending
    <2> QED
      BY <1>9, <2>1, TwoProcesses DEF Sending
  <1>13. Everywhere' = Everywhere \cup {row, end}
    BY <1>1, <1>8, <1>l, TwoProcesses DEF Everywhere
  <1>14. Delivers
    BY <1>1, <1>2, <1>3, <1>7, <1>8, <1>13, <1>l, TwoProcesses, SMTT(60) DEF Delivers, Over, IsStats
  <1> QED
    BY <1>11, <1>12, <1>14

LEMMA CrashStep ==
    ASSUME WriterInv, Crash
    PROVE  Ordered' /\ Sending' /\ Delivers
  <1>1. /\ flight' = [flight EXCEPT !["loop"] = NULL] /\ buffer' = [buffer EXCEPT !["loop"] = <<>>]
        /\ lock' = IF lock = "loop" THEN NULL ELSE lock
        /\ UNCHANGED <<now, made, table, heartbeat, queue, exposed>>
    BY DEF Crash, published
  <1>2. gone' = gone \cup Memory("loop")
    BY DEF Crash, Memory, HeldBy, Idle
  <1>3. flight'["loop"] = NULL /\ flight'["cli"] = flight["cli"]
        /\ buffer'["loop"] = <<>> /\ buffer'["cli"] = buffer["cli"]
    BY <1>1, TwoProcesses DEF WriterInv, WriterTypeOK
  <1>4. /\ Memory("loop")' = {} /\ Memory("cli")' = Memory("cli")
        /\ OnFile' = OnFile /\ Done' = Done \cup Memory("loop")
    BY <1>1, <1>2, <1>3 DEF Memory, HeldBy, OnFile, Done, ToSet
  <1>5. /\ ~At("loop", "send")' /\ (At("cli", "send")' <=> At("cli", "send"))
        /\ ~At("loop", "enter")' /\ (At("cli", "enter")' <=> At("cli", "enter"))
    BY <1>3 DEF At
  <1>l. Loaded("loop")' = {} /\ Loaded("cli")' = Loaded("cli")
    BY <1>3, <1>5, LoadStays, TwoProcesses DEF Loaded
  <1>6. Ordered'
    BY <1>1, <1>3, <1>4, <1>5, TwoProcesses DEF WriterInv, Ordered
  <1>7. Sending'
    <2>1. At("cli", "send")' => Sound("cli")'
      BY <1>1, <1>3, <1>5, SoundStays, TwoProcesses DEF WriterInv, Sending
    <2> QED
      BY <1>5, <2>1, TwoProcesses DEF Sending
  <1>8. Everywhere' \subseteq Everywhere
    BY <1>1, <1>4, <1>l DEF Everywhere
  <1>9. now \in Nat
    BY DEF WriterInv, WriterTypeOK
  <1>10. Delivers
    BY <1>1, <1>4, <1>8, <1>9, <1>l, TwoProcesses DEF Delivers, Over
  <1> QED
    BY <1>6, <1>7, <1>10

LEMMA PostStep ==
    ASSUME WriterInv, PostEvent
    PROVE  Ordered' /\ Sending' /\ Delivers
  <1> DEFINE row == EventRow("cli", now + 1, "down")
  <1>1. /\ flight["cli"] = NULL /\ made' = Append(made, row) /\ now' = now + 1
        /\ buffer' = [buffer EXCEPT !["cli"] = <<row>>] /\ buffer["cli"] = <<>>
        /\ UNCHANGED <<table, heartbeat, queue, lock, flight, gone, exposed>>
    BY DEF PostEvent, Make, Made, Idle, published
  <1>2. /\ buffer \in [Processes -> Seq(Rows)] /\ made \in Seq(EventRows) /\ now \in Nat
        /\ row \in EventRows /\ row \in Rows /\ row.by = "cli" /\ row.ts = now + 1 /\ row.op = "event"
    BY NewRow, TwoProcesses DEF WriterInv, WriterTypeOK, Types
  <1> HIDE DEF row
  <1>3. /\ ToSet(made') = ToSet(made) \cup {row} /\ ToSet(buffer'["cli"]) = {row}
        /\ buffer'["loop"] = buffer["loop"]
    <2>1. buffer'["cli"] = <<row>> /\ buffer'["loop"] = buffer["loop"]
      BY <1>1, <1>2, TwoProcesses
    <2>2. ToSet(<<row>>) = {row}
      BY DEF ToSet
    <2> QED
      BY <1>1, <1>2, <2>1, <2>2, AppendIs, SMTT(60)
  <1>4. /\ Memory("cli")' = Memory("cli") \cup {row} /\ Memory("loop")' = Memory("loop")
        /\ OnFile' = OnFile /\ Done' = Done
    BY <1>1, <1>3 DEF Memory, HeldBy, OnFile, Done, ToSet
  <1>l. \A p \in Processes : Loaded(p)' = Loaded(p)
    BY <1>1, LoadStays
  <1>5. Ordered'
    <2>1. \A p \in Processes : flight[p] # NULL => buffer'[p] = <<>>
      BY <1>1, <1>3, TwoProcesses DEF WriterInv, Ordered
    <2>2. ~IsStats(row)
      BY <1>2 DEF IsStats
    <2> QED
      BY <1>1, <1>4, <2>1, <2>2 DEF WriterInv, Ordered, At
  <1>6. Sending'
    BY <1>1, SoundStays DEF WriterInv, Sending, At
  <1>7. Everywhere' = Everywhere \cup {row}
    BY <1>1, <1>4, <1>l, TwoProcesses DEF Everywhere
  <1>8. Delivers
    BY <1>1, <1>2, <1>3, <1>4, <1>7, <1>l, TwoProcesses DEF Delivers, Over
  <1> QED
    BY <1>5, <1>6, <1>8

\* Nothing but the clock.
LEMMA IdleStep ==
    ASSUME WriterInv, Tick \/ UNCHANGED writerVars
    PROVE  Ordered' /\ Sending' /\ Delivers
  <1>1. /\ UNCHANGED <<made, table, heartbeat, buffer, queue, lock, flight, gone, exposed>>
        /\ now' = now + 1 \/ now' = now
    BY DEF Tick, writerVars, published
  <1>2. now \in Nat /\ now <= now'
    BY <1>1 DEF WriterInv, WriterTypeOK
  <1>3. /\ Memory("loop")' = Memory("loop") /\ Memory("cli")' = Memory("cli")
        /\ OnFile' = OnFile /\ Done' = Done
    BY <1>1 DEF Memory, HeldBy, OnFile, Done
  <1>l. \A p \in Processes : Loaded(p)' = Loaded(p)
    BY <1>1, LoadStays
  <1>4. Ordered'
    BY <1>1, <1>3 DEF WriterInv, Ordered, At
  <1>5. Sending'
    BY <1>1, SoundStays DEF WriterInv, Sending, At
  <1>6. Everywhere' = Everywhere
    BY <1>1, <1>3, <1>l, TwoProcesses DEF Everywhere
  <1>7. Delivers
    BY <1>1, <1>2, <1>3, <1>6, <1>l DEF Delivers, Over
  <1> QED
    BY <1>4, <1>5, <1>7

LEMMA StartStep ==
    ASSUME WriterInv, NEW p \in Processes, FlushStart(p)
    PROVE  Ordered' /\ Sending' /\ Delivers
  <1> DEFINE f == [pc |-> "enter", runs |-> <<>>, ok |-> TRUE, remaining |-> <<>>, final |-> p = "cli",
                   held |-> buffer[p]]
  <1>1. /\ flight[p] = NULL /\ flight' = [flight EXCEPT ![p] = f] /\ buffer' = [buffer EXCEPT ![p] = <<>>]
        /\ UNCHANGED <<now, made, table, heartbeat, queue, lock, gone, exposed>>
    BY DEF FlushStart, Idle, published
  <1>2. /\ buffer \in [Processes -> Seq(Rows)] /\ now \in Nat
        /\ flight \in [Processes -> Flights \cup {NULL}]
    BY DEF WriterInv, WriterTypeOK
  <1>3. /\ f.pc = "enter" /\ f.held = buffer[p] /\ f.remaining = <<>> /\ f # NULL
        /\ p = "cli" => f.final
    <2>1. buffer[p] \in Seq(Rows) /\ (p = "cli") \in BOOLEAN
      BY <1>2
    <2>2. f \in Flights
      BY <2>1 DEF Flights
    <2> HIDE DEF f
    <2>3. f # NULL
      BY <2>2, FlightTypes
    <2> QED
      BY <2>3 DEF f
  <1> HIDE DEF f
  <1>4. /\ flight'[p] = f /\ \A q \in Processes \ {p} : flight'[q] = flight[q]
        /\ buffer'[p] = <<>> /\ \A q \in Processes \ {p} : buffer'[q] = buffer[q]
    BY <1>1, <1>2
  <1>5. \A q \in Processes : Memory(q)' = Memory(q)
    <2>1. Memory(p)' = Memory(p)
      BY <1>1, <1>3, <1>4 DEF Memory, HeldBy, ToSet
    <2>2. ASSUME NEW q \in Processes \ {p} PROVE Memory(q)' = Memory(q)
      BY <1>4 DEF Memory, HeldBy
    <2> QED
      BY <2>1, <2>2
  <1>6. /\ Memory("loop")' = Memory("loop") /\ Memory("cli")' = Memory("cli")
        /\ OnFile' = OnFile /\ Done' = Done
    BY <1>1, <1>5, TwoProcesses DEF OnFile, Done
  <1>7. ~At(p, "send") /\ ~At(p, "send")'
    BY <1>1, <1>3, <1>4 DEF At
  <1>8. \A q \in Processes \ {p} :
           (At(q, "send")' <=> At(q, "send")) /\ (At(q, "enter")' <=> At(q, "enter"))
    BY <1>4 DEF At
  <1>l. \A q \in Processes : Loaded(q)' = Loaded(q)
    BY <1>4, <1>7, LoadStays
  <1>9. Ordered'
    BY <1>1, <1>3, <1>4, <1>6, <1>7, <1>8, TwoProcesses DEF WriterInv, Ordered
  <1>10. Sending'
    <2>1. ASSUME NEW q \in Processes \ {p}, At(q, "send")' PROVE Sound(q)'
      BY <1>1, <1>4, <1>8, <2>1, SoundStays DEF WriterInv, Sending
    <2> QED
      BY <1>7, <2>1 DEF Sending
  <1>11. Everywhere' = Everywhere
    BY <1>1, <1>6, <1>l, TwoProcesses DEF Everywhere
  <1>12. Delivers
    BY <1>1, <1>2, <1>6, <1>11, <1>l DEF Delivers, Over
  <1> QED
    BY <1>9, <1>10, <1>12

LEMMA EnterStep ==
    ASSUME WriterInv, NEW p \in Processes, FlushEnter(p)
    PROVE  Ordered' /\ Sending' /\ Delivers
  <1> DEFINE f == flight[p]
             rows == queue \o f.held
             plan == StatsLast(Runs(CoalesceStats(rows)))
             g == [f EXCEPT !.pc = "send", !.runs = plan]
  <1>1. /\ At(p, "enter")
        /\ \/ lock = NULL /\ lock' = p
           \/ lock # NULL /\ LockGivesUp /\ lock' = lock
        /\ flight' = [flight EXCEPT ![p].pc = "send", ![p].runs = plan]
        /\ UNCHANGED <<now, made, table, heartbeat, buffer, queue, gone, exposed>>
    BY DEF FlushEnter, EnterFile, published
  <1>2. /\ flight \in [Processes -> Flights \cup {NULL}] /\ queue \in Seq(Rows) /\ now \in Nat
    BY DEF WriterInv, WriterTypeOK
  <1>3. f \in Flights /\ f.remaining = <<>> /\ f.held \in Seq(Rows) /\ f # NULL
    BY <1>1, <1>2, FlightTypes DEF At, WriterInv, Ordered
  <1>4. rows \in Seq(Rows) /\ ToSet(rows) = OnFile \cup HeldBy(p)
    BY <1>2, <1>3, Joined DEF OnFile, HeldBy
  <1> HIDE DEF rows
  <1>5. /\ plan \in Seq(Seq(Rows)) /\ StatsAfter(plan)
        /\ \A k \in DOMAIN plan : Uniform(plan[k])
        /\ InRuns(plan) \subseteq OnFile \cup HeldBy(p)
        /\ \A r \in OnFile \cup HeldBy(p) : r.op = "event" => r \in InRuns(plan)
    BY <1>4, Planned
  <1> HIDE DEF plan
  <1>6. flight' = [flight EXCEPT ![p] = g]
    BY <1>1, <1>2
  <1> HIDE DEF f
  <1>7. /\ g \in Flights /\ g.pc = "send" /\ g.runs = plan /\ g.remaining = f.remaining
        /\ g.held = f.held /\ g.final = f.final
    BY <1>3, <1>5 DEF Flights
  <1>8. g # NULL
    BY <1>7, FlightTypes
  <1> HIDE DEF g
  <1>9. flight'[p] = g /\ \A q \in Processes \ {p} : flight'[q] = flight[q]
    BY <1>2, <1>6
  <1>10. \A q \in Processes : HeldBy(q)' = HeldBy(q)
    <2>1. HeldBy(p)' = HeldBy(p)
      BY <1>3, <1>7, <1>8, <1>9 DEF HeldBy, f
    <2> QED
      BY <1>9, <2>1 DEF HeldBy
  <1>11. /\ Memory("loop")' = Memory("loop") /\ Memory("cli")' = Memory("cli")
         /\ OnFile' = OnFile /\ Done' = Done
    BY <1>1, <1>10, TwoProcesses DEF Memory, OnFile, Done
  <1>12. At(p, "send")' /\ ~At(p, "enter")'
    BY <1>7, <1>8, <1>9 DEF At
  <1>13. \A q \in Processes \ {p} :
            (At(q, "send")' <=> At(q, "send")) /\ (At(q, "enter")' <=> At(q, "enter"))
    BY <1>9 DEF At
  <1>14. Ordered'
    <2>1. \A q \in Processes : flight'[q] # NULL => buffer'[q] = <<>>
      BY <1>1, <1>3, <1>9 DEF WriterInv, Ordered, f
    <2>2. flight'["cli"] # NULL => flight'["cli"].final
      BY <1>3, <1>7, <1>9, TwoProcesses DEF WriterInv, Ordered, f
    <2>3. \A q \in Processes : lock' = q => At(q, "send")'
      BY <1>1, <1>12, <1>13 DEF WriterInv, Ordered
    <2>4. ASSUME ~LockGivesUp PROVE exposed' = {} /\ \A q \in Processes : At(q, "send")' => lock' = q
      <3>1. lock = NULL /\ lock' = p
        BY <1>1, <2>4
      <3>2. \A q \in Processes : ~At(q, "send")
        BY <2>4, <3>1, Locked, TwoProcesses
      <3> QED
        BY <1>1, <1>13, <2>4, <3>1, <3>2, Locked
    <2>5. \A q \in Processes : At(q, "enter")' => flight'[q].remaining = <<>>
      BY <1>9, <1>12, <1>13 DEF WriterInv, Ordered
    <2>6. \A r \in Memory("cli")' : ~IsStats(r)
      BY <1>11 DEF WriterInv, Ordered
    <2> QED
      BY <2>1, <2>2, <2>3, <2>4, <2>5, <2>6 DEF Ordered
  <1>15. Sending'
    <2>1. OnFile' = OnFile /\ HeldBy(p)' = HeldBy(p)
      BY <1>10, <1>11
    <2>2. Unsent(p)' = InRuns(plan)
      BY <1>3, <1>7, <1>9 DEF Unsent, ToSet, InRuns
    <2>3. flight'[p].runs = plan /\ flight'[p].remaining = <<>>
      BY <1>3, <1>7, <1>9
    <2>4. Sound(p)'
      BY <1>5, <2>1, <2>2, <2>3 DEF Sound, Over
    <2>5. ASSUME NEW q \in Processes \ {p}, At(q, "send")' PROVE Sound(q)'
      BY <1>1, <1>9, <1>13, <2>5, SoundStays DEF WriterInv, Sending
    <2> QED
      BY <2>4, <2>5 DEF Sending
  <1>l. /\ Loaded(p)' = InRuns(plan)
        /\ \A q \in Processes \ {p} : Loaded(q)' = Loaded(q)
    <2>1. Unsent(p)' = InRuns(plan)
      BY <1>3, <1>7, <1>9 DEF Unsent, ToSet, InRuns
    <2> QED
      BY <1>9, <1>12, <2>1, LoadStays DEF Loaded
  <1>h. HeldBy(p) \subseteq Memory(p) /\ Memory(p) = HeldBy(p)
    BY <1>1, <1>3 DEF Memory, WriterInv, Ordered, f, ToSet
  <1>16. Everywhere' \subseteq Everywhere
    <2>1. OnFile \cup HeldBy(p) \subseteq Everywhere
      BY <1>h, TwoProcesses DEF Everywhere
    <2> QED
      BY <1>1, <1>5, <1>11, <1>l, <2>1, TwoProcesses DEF Everywhere
  <1>v. ASSUME NEW r \in Loaded(p)', IsStats(r) PROVE Vouched(r, Done' \cup Loaded(p)')
    <2>1. \A x \in OnFile \cup HeldBy(p) : x.op = "event" => x \in Loaded(p)'
      BY <1>5, <1>l
    <2>2. \A x \in ToSet(made) : x.op = "event"
      BY RowsAreRows DEF WriterInv, Rowed
    <2>3. CASE r \in OnFile
      <3>1. Tells(ToSet(made), r.ts, Done \cup OnFile)
        BY <1>v, <2>3 DEF WriterInv, Delivery, Honest
      <3> QED
        BY <1>1, <1>11, <2>1, <2>2, <3>1 DEF Vouched, Tells
    <2>4. CASE r \in HeldBy(p)
      <3>1. p = "loop"
        BY <1>v, <1>h, <2>4, TwoProcesses DEF WriterInv, Ordered
      <3>2. Tells(ToSet(made), r.ts, Done \cup OnFile \cup HeldBy(p))
        BY <1>v, <1>h, <2>4, <3>1 DEF WriterInv, Delivery, Honest
      <3> QED
        BY <1>1, <1>11, <2>1, <2>2, <3>2 DEF Vouched, Tells
    <2> QED
      BY <1>5, <1>l, <2>3, <2>4
  <1>w. \A q \in Processes : \A r \in Loaded(q)' : IsStats(r) =>
           \/ r \in Loaded(q) /\ Over(Loaded(q), Done' \cup Loaded(q)')
           \/ Vouched(r, Done' \cup Loaded(q)')
    <2> SUFFICES ASSUME NEW q \in Processes, NEW r \in Loaded(q)', IsStats(r)
                 PROVE  \/ r \in Loaded(q) /\ Over(Loaded(q), Done' \cup Loaded(q)')
                        \/ Vouched(r, Done' \cup Loaded(q)')
      OBVIOUS
    <2>1. CASE q = p
      BY <1>v, <2>1
    <2>2. CASE q # p
      BY <1>l, <2>2 DEF Over
    <2> QED
      BY <2>1, <2>2
  <1>17. Delivers
    BY <1>1, <1>2, <1>11, <1>16, <1>w DEF Delivers, Over
  <1> QED
    BY <1>14, <1>15, <1>17

\* A flush that leaves the file, or never got into it: what becomes of the rows
\* it has is all that is left to say.
LEMMA LeaveStep ==
    ASSUME WriterInv, NEW p \in Processes, flight[p] # NULL, LeaveFile(p),
           \A q \in Processes \ {p} : buffer'[q] = buffer[q],
           \A q \in Processes \ {p} : At(q, "send") /\ flight'[q] = flight[q] => Sound(q)',
           ~LockGivesUp => exposed' = exposed,
           \A r \in Memory("cli")' : ~IsStats(r)
    PROVE  Ordered' /\ Sending' /\ flight'[p] = NULL /\ Loaded(p)' = {}
           /\ \A q \in Processes \ {p} : Memory(q)' = Memory(q) /\ Loaded(q)' = Loaded(q)
  <1>1. flight \in [Processes -> Flights \cup {NULL}]
    BY DEF WriterInv, WriterTypeOK
  <1>2. flight'[p] = NULL /\ \A q \in Processes \ {p} : flight'[q] = flight[q]
    BY <1>1 DEF LeaveFile
  <1>3. lock' = IF lock = p THEN NULL ELSE lock
    BY DEF LeaveFile
  <1>4. ~At(p, "send")' /\ \A q \in Processes \ {p} : At(q, "send")' <=> At(q, "send")
    BY <1>2 DEF At
  <1>5. \A q \in Processes : At(q, "enter")' => q # p /\ At(q, "enter")
    BY <1>2 DEF At
  <1>6. Ordered'
    <2>1. \A q \in Processes : flight'[q] # NULL => buffer'[q] = <<>>
      BY <1>2 DEF WriterInv, Ordered
    <2>2. flight'["cli"] # NULL => flight'["cli"].final
      BY <1>2, TwoProcesses DEF WriterInv, Ordered
    <2>3. \A q \in Processes : At(q, "enter")' => flight'[q].remaining = <<>>
      BY <1>2, <1>5 DEF WriterInv, Ordered
    <2>4. \A q \in Processes : lock' = q => At(q, "send")'
      BY <1>3, <1>4, TwoProcesses DEF WriterInv, Ordered
    <2>5. ~LockGivesUp => exposed' = {} /\ \A q \in Processes : At(q, "send")' => lock' = q
      BY <1>3, <1>4, TwoProcesses DEF WriterInv, Ordered
    <2> QED
      BY <2>1, <2>2, <2>3, <2>4, <2>5 DEF Ordered
  <1>7. Sending'
    BY <1>2, <1>4 DEF Sending
  <1>8. \A q \in Processes \ {p} : Memory(q)' = Memory(q)
    BY <1>2 DEF Memory, HeldBy
  <1>9. Loaded(p)' = {} /\ \A q \in Processes \ {p} : Loaded(q)' = Loaded(q)
    BY <1>2, <1>4, LoadStays DEF Loaded
  <1> QED
    BY <1>2, <1>6, <1>7, <1>8, <1>9

LEMMA RefusedStep ==
    ASSUME WriterInv, NEW p \in Processes, FlushRefused(p)
    PROVE  Ordered' /\ Sending' /\ Delivers
  <1> DEFINE held == flight[p].held
  <1>1. /\ At(p, "enter") /\ LeaveFile(p) /\ Keep(p, held)
        /\ UNCHANGED <<now, made, table, heartbeat, queue, exposed>>
    BY DEF FlushRefused, published
  <1>2. /\ flight[p] \in Flights /\ flight[p] # NULL /\ ~Idle(p) /\ held \in Seq(Rows)
        /\ buffer \in [Processes -> Seq(Rows)] /\ buffer[p] = <<>> /\ now \in Nat
    BY <1>1, FlightTypes DEF At, Idle, WriterInv, WriterTypeOK, Ordered
  <1> HIDE DEF held
  <1>3. IF flight[p].final
        THEN buffer' = buffer /\ gone' = gone \cup ToSet(held)
        ELSE gone' = gone /\ buffer' = [buffer EXCEPT ![p] = held \o @]
    BY <1>1, <1>2, KeepDoes DEF WriterInv
  <1>4. HeldBy(p) = ToSet(held) /\ Memory(p) = ToSet(held)
    BY <1>2 DEF HeldBy, Memory, ToSet, held
  <1>5. \A q \in Processes \ {p} : buffer'[q] = buffer[q]
    BY <1>2, <1>3
  <1>6. flight'[p] = NULL
    BY <1>1 DEF LeaveFile, WriterInv, WriterTypeOK
  <1>7. IF flight[p].final
        THEN Memory(p)' = {} /\ Done' = Done \cup Memory(p)
        ELSE Memory(p)' = Memory(p) /\ Done' = Done
    <2>1. CASE flight[p].final
      <3>1. Memory(p)' = {}
        BY <1>2, <1>3, <1>6, <2>1 DEF Memory, HeldBy, ToSet
      <3>2. Done' = Done \cup ToSet(held)
        BY <1>1, <1>3, <2>1 DEF Done
      <3> QED
        BY <1>4, <2>1, <3>1, <3>2
    <2>2. CASE ~flight[p].final
      <3>1. buffer'[p] = held \o <<>>
        BY <1>2, <1>3, <2>2
      <3>2. held \o <<>> = held
        BY <1>2
      <3> QED
        BY <1>1, <1>3, <1>4, <1>6, <2>2, <3>1, <3>2 DEF Memory, HeldBy, Done
    <2> QED
      BY <2>1, <2>2
  <1>8. \A r \in Memory("cli")' : ~IsStats(r)
    <2>1. p # "cli" => Memory("cli")' = Memory("cli")
      <3> SUFFICES ASSUME p # "cli" PROVE Memory("cli")' = Memory("cli")
        OBVIOUS
      <3>1. flight'["cli"] = flight["cli"] /\ buffer'["cli"] = buffer["cli"]
        BY <1>1, <1>5, TwoProcesses DEF LeaveFile, WriterInv, WriterTypeOK
      <3> QED
        BY <3>1 DEF Memory, HeldBy
    <2> QED
      BY <1>7, <2>1 DEF WriterInv, Ordered
  <1>s. \A q \in Processes \ {p} : At(q, "send") /\ flight'[q] = flight[q] => Sound(q)'
    BY <1>1, SoundStays DEF WriterInv, Sending
  <1>9. /\ Ordered' /\ Sending' /\ \A q \in Processes \ {p} : Memory(q)' = Memory(q)
        /\ Loaded(p)' = {} /\ \A q \in Processes \ {p} : Loaded(q)' = Loaded(q)
    BY <1>1, <1>2, <1>5, <1>8, <1>s, LeaveStep
  <1>10. OnFile' = OnFile
    BY <1>1 DEF OnFile
  <1>11. \/ /\ Memory("loop")' = {} /\ Done' = Done \cup Memory("loop") /\ Memory("cli")' = Memory("cli")
         \/ /\ Memory("cli")' = {} /\ Done' = Done \cup Memory("cli") /\ Memory("loop")' = Memory("loop")
         \/ Memory("loop")' = Memory("loop") /\ Memory("cli")' = Memory("cli") /\ Done' = Done
    <2>1. CASE p = "loop"
      BY <1>7, <1>9, <2>1, TwoProcesses
    <2>2. CASE p = "cli"
      BY <1>7, <1>9, <2>2, TwoProcesses
    <2> QED
      BY <2>1, <2>2, TwoProcesses
  <1>12. Everywhere' \subseteq Everywhere
    BY <1>1, <1>9, <1>10, <1>11, TwoProcesses DEF Everywhere
  <1>13. Delivers
    BY <1>1, <1>2, <1>9, <1>10, <1>11, <1>12 DEF Delivers, Over
  <1> QED
    BY <1>9, <1>13

LEMMA EndStep ==
    ASSUME WriterInv, NEW p \in Processes, FlushEnd(p)
    PROVE  Ordered' /\ Sending' /\ Delivers
  <1> DEFINE left == flight[p].remaining
             R == ToSet(left)
  <1>1. /\ At(p, "send") /\ flight[p].runs = <<>> /\ LeaveFile(p)
        /\ \/ queue' = left /\ Exposes(p, R) /\ UNCHANGED <<buffer, gone>>
           \/ Keep(p, left) /\ UNCHANGED <<queue, exposed>>
        /\ UNCHANGED <<now, made, table, heartbeat>>
    BY DEF FlushEnd, published
  <1>2. /\ flight[p] \in Flights /\ flight[p] # NULL /\ ~Idle(p) /\ left \in Seq(Rows)
        /\ buffer \in [Processes -> Seq(Rows)] /\ buffer[p] = <<>> /\ now \in Nat
        /\ p = "cli" => flight[p].final
    BY <1>1, FlightTypes DEF At, Idle, WriterInv, WriterTypeOK, Ordered
  <1>3. Over(OnFile \cup HeldBy(p), ToSet(table) \cup exposed \cup R) /\ Loaded(p) = R
    <2>1. Sound(p)
      BY <1>1 DEF WriterInv, Sending
    <2>2. Unsent(p) = R
      BY <1>1 DEF Unsent, InRuns
    <2> QED
      BY <1>1, <2>1, <2>2 DEF Sound, Loaded
  <1>x. exposed \subseteq exposed' /\ (~LockGivesUp => exposed' = exposed)
    <2>1. ~LockGivesUp => \A q \in Processes \ {p} : ~At(q, "send")
      BY <1>1, Locked, TwoProcesses
    <2> QED
      BY <1>1, <2>1 DEF Exposes
  <1> HIDE DEF left
  <1>4. Memory(p) = HeldBy(p)
    BY <1>2 DEF Memory, ToSet
  <1>5. flight'[p] = NULL
    BY <1>1 DEF LeaveFile, WriterInv, WriterTypeOK
  <1>6. \/ /\ OnFile' = R /\ Memory(p)' = {} /\ Done' = Done \cup exposed' /\ buffer' = buffer
           /\ queue' = left /\ Exposes(p, R)
        \/ OnFile' = OnFile /\ Memory(p)' = {} /\ Done' = Done \cup R /\ buffer' = buffer
        \/ /\ OnFile' = OnFile /\ Memory(p)' = R /\ Done' = Done /\ p # "cli"
           /\ buffer' = [buffer EXCEPT ![p] = left \o @]
    <2>1. CASE queue' = left /\ Exposes(p, R) /\ UNCHANGED <<buffer, gone>>
      BY <1>1, <1>2, <1>5, <1>x, <2>1 DEF OnFile, Memory, HeldBy, Done, ToSet
    <2>2. CASE Keep(p, left) /\ UNCHANGED <<queue, exposed>>
      <3>1. IF flight[p].final
            THEN buffer' = buffer /\ gone' = gone \cup R
            ELSE gone' = gone /\ buffer' = [buffer EXCEPT ![p] = left \o @]
        BY <1>2, <2>2, KeepDoes DEF WriterInv
      <3>2. CASE flight[p].final
        BY <1>1, <1>2, <1>5, <2>2, <3>1, <3>2 DEF OnFile, Memory, HeldBy, Done, ToSet
      <3>3. CASE ~flight[p].final
        <4>1. buffer'[p] = left
          <5>1. buffer'[p] = left \o <<>> /\ left \o <<>> = left
            BY <1>2, <3>1, <3>3
          <5> QED
            BY <5>1
        <4> QED
          BY <1>1, <1>2, <1>5, <2>2, <3>1, <3>3, <4>1 DEF OnFile, Memory, HeldBy, Done
      <3> QED
        BY <3>2, <3>3
    <2> QED
      BY <1>1, <2>1, <2>2
  <1>7. \A q \in Processes \ {p} : buffer'[q] = buffer[q]
    BY <1>2, <1>6
  <1>8. \A r \in Memory("cli")' : ~IsStats(r)
    <2>1. p # "cli" => Memory("cli")' = Memory("cli")
      <3> SUFFICES ASSUME p # "cli" PROVE Memory("cli")' = Memory("cli")
        OBVIOUS
      <3>1. flight'["cli"] = flight["cli"] /\ buffer'["cli"] = buffer["cli"]
        BY <1>1, <1>7, TwoProcesses DEF LeaveFile, WriterInv, WriterTypeOK
      <3> QED
        BY <3>1 DEF Memory, HeldBy
    <2> QED
      BY <1>6, <2>1 DEF WriterInv, Ordered
  <1>s. ASSUME NEW q \in Processes \ {p}, At(q, "send"), flight'[q] = flight[q] PROVE Sound(q)'
    <2>1. Sound(q)
      BY <1>s DEF WriterInv, Sending
    <2>2. CASE queue' = queue
      BY <1>1, <1>s, <1>x, <2>1, <2>2, SoundStays
    <2>3. CASE queue' = left /\ Exposes(p, R)
      <3>1. Unsent(q)' = Unsent(q) /\ HeldBy(q)' = HeldBy(q)
        BY <1>s DEF Unsent, InRuns, HeldBy
      <3>2. \A r \in R : r \in Unsent(q) \cup exposed'
        BY <1>s, <2>3 DEF Exposes
      <3>3. OnFile' = R
        BY <2>3 DEF OnFile
      <3>4. Over(R \cup HeldBy(q), ToSet(table) \cup exposed' \cup Unsent(q))
        <4> HIDE DEF R
        <4> QED
          BY <1>x, <2>1, <3>2 DEF Sound, Over
      <3>5. LockGivesUp
        BY <1>1, <1>s, Locked, TwoProcesses
      <3> HIDE DEF R
      <3> QED
        BY <1>1, <1>s, <2>1, <3>1, <3>3, <3>4, <3>5 DEF Sound, Uniform, StatsAfter
    <2> QED
      BY <1>1, <2>2, <2>3
  <1>9. /\ Ordered' /\ Sending' /\ \A q \in Processes \ {p} : Memory(q)' = Memory(q)
        /\ Loaded(p)' = {} /\ \A q \in Processes \ {p} : Loaded(q)' = Loaded(q)
    BY <1>1, <1>2, <1>7, <1>8, <1>s, <1>x, LeaveStep
  <1>10. ToSet(table) \cup exposed \subseteq Done
    BY DEF Done
  <1>v. ASSUME NEW r \in R, IsStats(r) PROVE Tells(ToSet(made), r.ts, Done \cup R)
    BY <1>3, <1>v DEF WriterInv, Delivery, Honest
  <1> HIDE DEF R
  <1>w. \A r \in R : IsStats(r) => \A S : Done \cup R \subseteq S => Vouched(r, S)
    BY <1>1, <1>v DEF Vouched, Tells
  <1>11. CASE p = "loop"
    <2>1. Memory("cli")' = Memory("cli") /\ HeldBy(p) = Memory("loop")
      BY <1>4, <1>9, <1>11, TwoProcesses
    <2>2. Everywhere' \subseteq Everywhere
      BY <1>1, <1>3, <1>6, <1>9, <1>11, <2>1, TwoProcesses DEF Everywhere
    <2> QED
      BY <1>1, <1>2, <1>3, <1>6, <1>9, <1>10, <1>11, <1>w, <2>1, <2>2 DEF Delivers, Over
  <1>12. CASE p = "cli"
    <2>1. Memory("loop")' = Memory("loop") /\ HeldBy(p) = Memory("cli")
      BY <1>4, <1>9, <1>12, TwoProcesses
    <2>2. Everywhere' \subseteq Everywhere
      BY <1>1, <1>3, <1>6, <1>9, <1>12, <2>1, TwoProcesses DEF Everywhere
    <2> QED
      BY <1>1, <1>2, <1>3, <1>6, <1>9, <1>10, <1>12, <1>w, <2>1, <2>2 DEF Delivers, Over
  <1> QED
    BY <1>11, <1>12, TwoProcesses

LEMMA HeadAndTail ==
    ASSUME NEW runs \in Seq(Seq(Rows)), runs # <<>>
    PROVE  /\ 1 \in DOMAIN runs /\ Head(runs) = runs[1] /\ Head(runs) \in Seq(Rows)
           /\ Tail(runs) \in Seq(Seq(Rows))
           /\ \A k \in DOMAIN Tail(runs) : k \in Nat /\ k + 1 \in DOMAIN runs /\ Tail(runs)[k] = runs[k + 1]
           /\ InRuns(runs) = ToSet(Head(runs)) \cup InRuns(Tail(runs))
  <1>1. /\ 1 \in DOMAIN runs /\ Head(runs) = runs[1] /\ Head(runs) \in Seq(Rows)
        /\ Tail(runs) \in Seq(Seq(Rows))
        /\ \A k \in DOMAIN Tail(runs) : k \in Nat /\ k + 1 \in DOMAIN runs /\ Tail(runs)[k] = runs[k + 1]
        /\ \A k \in DOMAIN runs : k = 1 \/ (k - 1 \in DOMAIN Tail(runs) /\ Tail(runs)[k - 1] = runs[k])
    OBVIOUS
  <1> DEFINE rest == Tail(runs)
  <1>2. ASSUME NEW r, NEW k \in DOMAIN runs, r \in ToSet(runs[k])
        PROVE  r \in ToSet(Head(runs)) \cup InRuns(rest)
    <2>1. CASE k = 1
      BY <1>1, <1>2, <2>1
    <2>2. CASE k - 1 \in DOMAIN rest /\ rest[k - 1] = runs[k]
      <3> HIDE DEF rest
      <3> QED
        BY <1>2, <2>2 DEF InRuns
    <2> QED
      BY <1>1, <2>1, <2>2
  <1>3. ASSUME NEW r, NEW k \in DOMAIN rest, r \in ToSet(rest[k])
        PROVE  r \in InRuns(runs)
    BY <1>1, <1>3 DEF InRuns
  <1>4. ToSet(Head(runs)) \subseteq InRuns(runs)
    BY <1>1 DEF InRuns
  <1>5. InRuns(runs) = ToSet(Head(runs)) \cup InRuns(rest)
    <2> HIDE DEF rest
    <2> QED
      BY <1>2, <1>3, <1>4 DEF InRuns
  <1> QED
    BY <1>1, <1>5

LEMMA RunStep ==
    ASSUME WriterInv, NEW p \in Processes, FlushRun(p)
    PROVE  Ordered' /\ Sending' /\ Delivers
  <1> DEFINE f == flight[p]
             g == flight'[p]
             run == Head(f.runs)
             rest == Tail(f.runs)
             size == Len(run)
  <1>1. At(p, "send") /\ f \in Flights /\ f # NULL /\ f.runs # <<>> /\ NextRun(p) = run
    BY DEF FlushRun, At, NextRun, WriterInv, WriterTypeOK
  <1>2. WriterTypeOK /\ now \in Nat /\ Sound(p) /\ buffer[p] = <<>>
    BY <1>1 DEF WriterInv, WriterTypeOK, Sending, Ordered
  <1>3. f.runs \in Seq(Seq(Rows)) /\ f.remaining \in Seq(Rows)
    BY <1>1, FlightTypes
  <1>4. /\ run = f.runs[1] /\ 1 \in DOMAIN f.runs /\ run \in Seq(Rows) /\ rest \in Seq(Seq(Rows))
        /\ \A k \in DOMAIN rest : k \in Nat /\ k + 1 \in DOMAIN f.runs /\ rest[k] = f.runs[k + 1]
        /\ InRuns(f.runs) = ToSet(run) \cup InRuns(rest)
    BY <1>1, <1>3, HeadAndTail
  <1>5. PICK n \in 0 .. size : \E m \in n .. size, ok \in BOOLEAN : RunDone(p, n, m, ok)
    BY <1>1, <1>2, RunDoes
  <1>6. PICK m \in n .. size, ok \in BOOLEAN : RunDone(p, n, m, ok)
    BY <1>5
  <1> DEFINE left == SubSeq(run, n + 1, size)
             sent == SubSeq(run, 1, m)
  <1>7. /\ Onward(p, left, ok)
        /\ \/ Landed(sent) /\ ~HeldBack(p)
           \/ m = 0 /\ UNCHANGED <<table, heartbeat, ended>>
        /\ ok => f.ok /\ n = size
        /\ UNCHANGED <<now, made, buffer, queue, lock, gone, exposed>>
    BY <1>1, <1>6 DEF RunDone
  <1>8. f.ok => f.remaining = <<>>
    BY <1>2 DEF Sound
  <1>9. HeldBack(p) <=> IsStats(run[1]) /\ ~f.ok
    BY <1>1 DEF HeldBack
  <1> HIDE DEF run, rest
  <1>10. size \in Nat /\ n \in Nat /\ m \in Nat /\ n <= m /\ m <= size
    BY <1>4
  <1>11. /\ left \in Seq(Rows) /\ ToSet(left) = {run[i] : i \in n + 1 .. size}
         /\ sent \in Seq(Rows) /\ ToSet(sent) = {run[i] : i \in 1 .. m}
    <2>1. n + 1 \in Nat \ {0} /\ 1 \in Nat \ {0} /\ size \in 0 .. Len(run) /\ m \in 0 .. Len(run)
      BY <1>10
    <2>2. run \in Seq(Rows)
      BY <1>4
    <2> DEFINE after == n + 1
    <2> HIDE DEF after, size
    <2>3. SubSeq(run, after, size) \in Seq(Rows)
          /\ ToSet(SubSeq(run, after, size)) = {run[i] : i \in after .. size}
      BY <2>1, <2>2, SliceDrawn DEF after
    <2>4. SubSeq(run, 1, m) \in Seq(Rows)
          /\ ToSet(SubSeq(run, 1, m)) = {run[i] : i \in 1 .. m}
      BY <2>1, <2>2, SliceDrawn
    <2> QED
      BY <2>3, <2>4 DEF after
  <1>12. n = size => left = <<>>
    BY <1>4, <1>10
  <1>13. ToSet(run) = {run[i] : i \in 1 .. size}
    BY <1>4 DEF ToSet
  <1> HIDE DEF left, sent
  <1>14. /\ g \in Flights /\ g # NULL /\ \A q \in Processes \ {p} : flight'[q] = flight[q]
         /\ g.runs = rest /\ g.remaining = f.remaining \o left /\ g.ok = ok
         /\ g.pc = f.pc /\ g.held = f.held /\ g.final = f.final
    <2>1. flight[p] \in Flights /\ flight[p].runs # <<>> /\ left \in Seq(Rows) /\ ok \in BOOLEAN
          /\ Onward(p, left, ok)
      BY <1>1, <1>7, <1>11, SMTT(60)
    <2>2. /\ flight'[p] \in Flights /\ \A q \in Processes \ {p} : flight'[q] = flight[q]
          /\ flight'[p].runs = Tail(flight[p].runs) /\ flight'[p].remaining = flight[p].remaining \o left
          /\ flight'[p].ok = ok /\ flight'[p].pc = flight[p].pc /\ flight'[p].held = flight[p].held
          /\ flight'[p].final = flight[p].final
      BY <1>2, <2>1, OnwardDoes, ZenonT(60)
    <2>3. flight'[p] # NULL
      BY <2>2, FlightTypes
    <2> QED
      BY <2>2, <2>3 DEF rest
  <1>15. \/ /\ ToSet(table') = ToSet(table) \cup {r \in ToSet(sent) : r.op = "event"}
            /\ heartbeat' = heartbeat \/ \E r \in ToSet(sent) : IsStats(r) /\ heartbeat' = r.ts
            /\ ~HeldBack(p)
         \/ m = 0 /\ UNCHANGED <<table, heartbeat>>
    BY <1>2, <1>7, <1>11, LandedDoes
  <1> HIDE DEF f, g, size
  <1>16. \A q \in Processes : HeldBy(q)' = HeldBy(q)
    BY <1>1, <1>14 DEF HeldBy, f, g
  <1>17. /\ Memory("loop")' = Memory("loop") /\ Memory("cli")' = Memory("cli")
         /\ OnFile' = OnFile /\ ToSet(table) \subseteq ToSet(table') /\ Done \subseteq Done'
    BY <1>7, <1>15, <1>16, TwoProcesses DEF Memory, OnFile, Done
  <1>18. \A q \in Processes : /\ At(q, "send")' <=> At(q, "send")
                              /\ At(q, "enter")' => q # p /\ At(q, "enter")
    BY <1>1, <1>14 DEF At, f, g
  <1>19. Ordered'
    <2>1. \A q \in Processes : flight'[q] # NULL => buffer'[q] = <<>>
      BY <1>1, <1>7, <1>14 DEF WriterInv, Ordered, f
    <2>2. flight'["cli"] # NULL => flight'["cli"].final
      BY <1>1, <1>14, TwoProcesses DEF WriterInv, Ordered, f, g
    <2>3. \A q \in Processes : At(q, "enter")' => flight'[q].remaining = <<>>
      BY <1>14, <1>18 DEF WriterInv, Ordered
    <2> QED
      BY <1>7, <1>17, <1>18, <2>1, <2>2, <2>3 DEF WriterInv, Ordered
  <1>20. ToSet(f.remaining \o left) = ToSet(f.remaining) \cup ToSet(left)
    BY <1>3, <1>11, Joined
  <1>21. /\ Unsent(p) = ToSet(run) \cup InRuns(rest) \cup ToSet(f.remaining)
         /\ Unsent(p)' = InRuns(rest) \cup ToSet(f.remaining) \cup ToSet(left)
    <2>1. Unsent(p) = InRuns(f.runs) \cup ToSet(f.remaining)
      BY DEF Unsent, f
    <2>2. Unsent(p)' = InRuns(g.runs) \cup ToSet(g.remaining)
      BY DEF Unsent, InRuns, g
    <2> QED
      BY <1>4, <1>14, <1>20, <2>1, <2>2
  <1>22. /\ Over(OnFile \cup HeldBy(p), ToSet(table) \cup exposed \cup Unsent(p))
         /\ ~LockGivesUp => Unsent(p) \subseteq OnFile \cup HeldBy(p)
         /\ \A k \in DOMAIN f.runs : Uniform(f.runs[k])
         /\ StatsAfter(f.runs)
    BY <1>2 DEF Sound, f
  <1>23. \A r \in ToSet(run) : r.op = "event" => r \in ToSet(table') \cup ToSet(left)
    <2> SUFFICES ASSUME NEW i \in 1 .. size, run[i].op = "event"
                 PROVE  run[i] \in ToSet(table') \cup ToSet(left)
      BY <1>13
    <2>1. CASE i <= n
      <3>1. i \in 1 .. m /\ m # 0
        BY <1>10, <2>1
      <3> QED
        BY <1>11, <1>15, <3>1
    <2>2. CASE n + 1 <= i
      <3>1. i \in n + 1 .. size
        BY <1>10, <2>2
      <3> QED
        BY <1>11, <3>1
    <2> QED
      BY <1>10, <2>1, <2>2
  <1>24. ToSet(left) \subseteq ToSet(run) /\ ToSet(sent) \subseteq ToSet(run)
    BY <1>10, <1>11, <1>13
  <1>25. Sending'
    <2>1. Over(OnFile \cup HeldBy(p), ToSet(table') \cup exposed \cup Unsent(p)')
      BY <1>17, <1>21, <1>22, <1>23 DEF Over
    <2>2. ~LockGivesUp => Unsent(p)' \subseteq OnFile \cup HeldBy(p)
      BY <1>21, <1>22, <1>24
    <2>3. ok => f.remaining \o left = <<>>
      <3> SUFFICES ASSUME ok PROVE f.remaining \o left = <<>>
        OBVIOUS
      <3>1. f.remaining = <<>> /\ left = <<>>
        BY <1>7, <1>8, <1>12 DEF f, size
      <3> QED
        BY <3>1
    <2>4. \A k \in DOMAIN rest : Uniform(rest[k])
      BY <1>4, <1>22
    <2>5. StatsAfter(rest)
      <3> SUFFICES ASSUME NEW k \in DOMAIN rest, NEW l \in DOMAIN rest, k <= l, IsStats(rest[k][1])
                   PROVE  IsStats(rest[l][1])
        BY DEF StatsAfter
      <3>1. k + 1 <= l + 1
        BY <1>4
      <3> QED
        BY <1>4, <1>22, <3>1 DEF StatsAfter
    <2>6. Sound(p)'
      BY <1>7, <1>14, <1>16, <1>17, <2>1, <2>2, <2>3, <2>4, <2>5 DEF Sound, g
    <2>7. ASSUME NEW q \in Processes \ {p}, At(q, "send")' PROVE Sound(q)'
      BY <1>7, <1>14, <1>17, <1>18, <2>7, SoundStays DEF WriterInv, Sending
    <2> QED
      BY <2>6, <2>7 DEF Sending
  <1>l. /\ Loaded(p) = Unsent(p) /\ Loaded(p)' = Unsent(p)' /\ Unsent(p)' \subseteq Unsent(p)
        /\ \A q \in Processes \ {p} : Loaded(q)' = Loaded(q)
        /\ Over(Loaded(p), Done' \cup Loaded(p)')
    <2>1. Loaded(p) = Unsent(p) /\ Loaded(p)' = Unsent(p)'
      BY <1>1, <1>18 DEF Loaded
    <2>2. Unsent(p)' \subseteq Unsent(p)
      BY <1>21, <1>24
    <2>3. \A q \in Processes \ {p} : Loaded(q)' = Loaded(q)
      BY <1>14, LoadStays
    <2>4. Over(Unsent(p), Done' \cup Unsent(p)')
      BY <1>21, <1>23 DEF Over, Done
    <2> QED
      BY <2>1, <2>2, <2>3, <2>4
  <1>26. heartbeat' = heartbeat \/ (heartbeat' <= now /\ Tells(ToSet(made), heartbeat', Done'))
    <2> SUFFICES ASSUME ~HeldBack(p), NEW r \in ToSet(sent), IsStats(r), heartbeat' = r.ts
                 PROVE  heartbeat' <= now /\ Tells(ToSet(made), heartbeat', Done')
      BY <1>15
    <2>1. r \in ToSet(run)
      BY <1>24
    <2>2. \A i \in DOMAIN run : IsStats(run[i])
      BY <1>4, <1>22, <2>1 DEF Uniform, ToSet
    <2>3. f.ok /\ f.remaining = <<>>
      BY <1>4, <1>8, <1>9, <1>22, <2>1, <2>2 DEF Uniform, ToSet, f
    <2>4. \A k \in DOMAIN f.runs : IsStats(f.runs[k][1])
      <3> SUFFICES ASSUME NEW k \in DOMAIN f.runs PROVE IsStats(f.runs[k][1])
        OBVIOUS
      <3>1. 1 <= k
        BY <1>3 DEF f
      <3>2. IsStats(f.runs[1][1])
        BY <1>4, <1>22, <2>2 DEF Uniform
      <3> QED
        BY <1>4, <1>22, <3>1, <3>2 DEF StatsAfter
    <2>5. \A x \in Unsent(p) : IsStats(x)
      <3>1. ToSet(f.remaining) = {}
        BY <2>3 DEF ToSet
      <3>2. \A x \in InRuns(f.runs) : IsStats(x)
        BY <1>22, <2>4 DEF InRuns, Uniform, ToSet
      <3> QED
        BY <1>4, <1>21, <3>1, <3>2
    <2>6. r \in Loaded(p)
      BY <1>21, <1>l, <2>1
    <2>7. r \in Everywhere
      BY <2>6, TwoProcesses DEF Everywhere
    <2>8. r.ts <= now /\ r.ts \in Nat
      BY <2>7, RowsAreRows DEF WriterInv, Delivery, Dated, Rowed
    <2>9. Tells(ToSet(made), r.ts, Done \cup Unsent(p))
      BY <1>l, <2>6 DEF WriterInv, Delivery, Honest
    <2>10. \A x \in ToSet(made) : x.op = "event"
      BY RowsAreRows DEF WriterInv, Rowed
    <2>11. Tells(ToSet(made), r.ts, Done)
      BY <2>5, <2>9, <2>10 DEF Tells, IsStats
    <2> QED
      BY <1>17, <2>8, <2>11 DEF Tells
  <1>27. Everywhere' \subseteq Everywhere
    <2>1. ToSet(sent) \subseteq Everywhere
      BY <1>21, <1>24, <1>l, TwoProcesses DEF Everywhere
    <2>2. \A q \in Processes : Loaded(q)' \subseteq Loaded(q)
      BY <1>l
    <2> QED
      BY <1>15, <1>17, <2>1, <2>2, TwoProcesses DEF Everywhere
  <1>28. Delivers
    BY <1>2, <1>7, <1>17, <1>26, <1>27, <1>l DEF Delivers, Over
  <1> QED
    BY <1>19, <1>25, <1>28

-----------------------------------------------------------------------------
(* No row is in two places                                                 *)

\* The rows only one process knows of, and those everyone would find: the file,
\* or the list of the process that holds it.
Own(p) == IF flight[p] = NULL THEN buffer[p]
          ELSE IF flight[p].pc = "enter" THEN flight[p].held ELSE <<>>
Owned(p) == ToSet(Own(p))
Backlog == IF lock = NULL THEN OnFile ELSE Unsent(lock)

Pending(p) ==
    /\ Once(flight[p].remaining) /\ OnceEach(flight[p].runs)
    /\ Apart(InRuns(flight[p].runs), ToSet(flight[p].remaining))
BacklogOnce == IF lock = NULL THEN Once(queue) ELSE Pending(lock)

Separate ==
    /\ Apart(ToSet(table), Backlog)
    /\ \A p \in Processes :
        /\ Apart(ToSet(table), Owned(p)) /\ Apart(Backlog, Owned(p))
        /\ \A q \in Processes \ {p} : Apart(Owned(p), Owned(q))

Singled == Once(table) /\ BacklogOnce /\ (\A p \in Processes : Once(Own(p))) /\ Separate

\* As long as nothing may have landed unknown to its writer, every event is in
\* one place, once.
Single == ~doubt => Singled

LEMMA OwnStays ==
    ASSUME NEW p \in Processes, flight'[p] = flight[p], buffer'[p] = buffer[p]
    PROVE  Own(p)' = Own(p) /\ Owned(p)' = Owned(p)
  BY DEF Own, Owned

LEMMA BacklogStays ==
    ASSUME lock' = lock, queue' = queue, lock # NULL => flight'[lock] = flight[lock]
    PROVE  Backlog' = Backlog /\ BacklogOnce' = BacklogOnce
  <1>1. CASE lock = NULL
    BY <1>1 DEF Backlog, BacklogOnce, OnFile
  <1>2. CASE lock # NULL
    <2>1. Unsent(lock)' = Unsent(lock)
      BY <1>2 DEF Unsent, InRuns
    <2>2. Pending(lock)' = Pending(lock)
      BY <1>2 DEF Pending, InRuns, OnceEach
    <2> QED
      BY <1>2, <2>1, <2>2 DEF Backlog, BacklogOnce
  <1> QED
    BY <1>1, <1>2

LEMMA BacklogIsNear ==
    ASSUME WriterInv
    PROVE  Backlog \subseteq Everywhere /\ \A p \in Processes : Owned(p) \subseteq Everywhere
  <1>1. \A p \in Processes : Memory(p) \subseteq Everywhere
    BY TwoProcesses DEF Everywhere
  <1>2. OnFile \subseteq Everywhere
    BY DEF Everywhere
  <1>3. ASSUME NEW p \in Processes PROVE Owned(p) \subseteq Everywhere
    <2>1. Owned(p) \subseteq Memory(p)
      BY DEF Owned, Own, Memory, HeldBy, ToSet
    <2> QED
      BY <1>1, <2>1
  <1>4. ASSUME lock # NULL PROVE Unsent(lock) \subseteq Everywhere
    <2>1. lock \in Processes /\ At(lock, "send")
      BY <1>4 DEF WriterInv, WriterTypeOK, Ordered
    <2> QED
      BY <2>1, TwoProcesses DEF Everywhere, Loaded
  <1> QED
    BY <1>2, <1>3, <1>4 DEF Backlog

\* A row of the next unit of time is nowhere yet.
LEMMA Fresh ==
    ASSUME WriterInv, NEW row, row.ts = now + 1
    PROVE  row \notin ToSet(table) /\ row \notin Backlog /\ \A p \in Processes : row \notin Owned(p)
  <1>1. \A r \in Everywhere : r.ts \in Nat /\ r.ts <= now /\ now \in Nat
    BY RowsAreRows DEF WriterInv, Delivery, Dated, Rowed
  <1>2. row \notin Everywhere
    BY <1>1
  <1>3. ToSet(table) \subseteq Everywhere
    BY DEF Everywhere
  <1> QED
    BY <1>2, <1>3, BacklogIsNear

\* What a process has in memory gains at most one event that is nowhere yet.
LEMMA OwnGrows ==
    ASSUME WriterInv, Singled, NEW p \in Processes, NEW row, row.ts = now + 1,
           \A q \in Processes \ {p} : Own(q)' = Own(q),
           \A r \in Owned(p)' : r.op = "event" => r \in Owned(p) \/ r = row,
           Once(Own(p))', table' = table, Backlog' = Backlog, BacklogOnce' = BacklogOnce
    PROVE  Singled'
  <1>1. row \notin ToSet(table) /\ row \notin Backlog /\ \A q \in Processes : row \notin Owned(q)
    BY Fresh
  <1>2. \A q \in Processes \ {p} : Owned(q)' = Owned(q)
    BY DEF Owned
  <1>3. Once(table)' /\ BacklogOnce' /\ \A q \in Processes : Once(Own(q))'
    BY DEF Singled, Once
  <1>4. Separate'
    <2>1. Apart(ToSet(table), Backlog)'
      BY DEF Singled, Separate, Apart
    <2>2. Apart(ToSet(table), Owned(p))' /\ Apart(Backlog, Owned(p))'
      BY <1>1 DEF Singled, Separate, Apart
    <2>3. \A q \in Processes \ {p} : Apart(ToSet(table), Owned(q))' /\ Apart(Backlog, Owned(q))'
      BY <1>2 DEF Singled, Separate, Apart
    <2>4. \A q \in Processes \ {p} : Apart(Owned(p), Owned(q))' /\ Apart(Owned(q), Owned(p))'
      BY <1>1, <1>2 DEF Singled, Separate, Apart
    <2>5. \A q \in Processes \ {p}, r \in Processes \ {p} : q # r => Apart(Owned(q), Owned(r))'
      BY <1>2 DEF Singled, Separate
    <2> QED
      BY <2>1, <2>2, <2>3, <2>4, <2>5 DEF Separate
  <1> QED
    BY <1>3, <1>4 DEF Singled

LEMMA OwnShrinks ==
    ASSUME WriterInv, Singled, NEW p \in Processes,
           \A q \in Processes \ {p} : Own(q)' = Own(q),
           \A r \in Owned(p)' : r.op = "event" => r \in Owned(p),
           Once(Own(p))', table' = table, Backlog' = Backlog, BacklogOnce' = BacklogOnce
    PROVE  Singled'
  <1> DEFINE row == [ts |-> now + 1]
  <1>1. row.ts = now + 1
    OBVIOUS
  <1> HIDE DEF row
  <1> QED
    BY <1>1, OwnGrows

LEMMA SingleRecord ==
    ASSUME WriterInv, Singled, NEW type \in Types, RecordEvent(type)
    PROVE  Singled'
  <1> DEFINE row == EventRow("loop", now + 1, type)
  <1>1. /\ flight["loop"] = NULL /\ buffer' = [buffer EXCEPT !["loop"] = Append(@, row)]
        /\ UNCHANGED <<table, queue, lock, flight>>
    BY DEF RecordEvent, Made, CanRecord, Running, Idle, published
  <1>2. /\ buffer \in [Processes -> Seq(Rows)] /\ row \in Rows /\ row.ts = now + 1
    BY NewRow, TwoProcesses DEF WriterInv, WriterTypeOK
  <1> HIDE DEF row
  <1>3. buffer'["loop"] = Append(buffer["loop"], row) /\ buffer["loop"] \in Seq(Rows)
        /\ \A q \in Processes \ {"loop"} : buffer'[q] = buffer[q]
    BY <1>1, <1>2, TwoProcesses
  <1>4. Own("loop") = buffer["loop"] /\ Own("loop")' = Append(buffer["loop"], row)
    BY <1>1, <1>3 DEF Own
  <1>5. \A q \in Processes \ {"loop"} : Own(q)' = Own(q)
    BY <1>1, <1>3 DEF Own
  <1>6. row \notin Owned("loop") /\ Once(Own("loop"))
    BY <1>2, Fresh, TwoProcesses DEF Singled
  <1>7. ToSet(Own("loop")') = Owned("loop") \cup {row} /\ Once(Own("loop")')
    <2> DEFINE list == buffer["loop"]
    <2>1. list \in Seq(Rows) /\ row \notin ToSet(list) /\ Once(list)
      BY <1>3, <1>4, <1>6 DEF Owned
    <2> HIDE DEF list
    <2>2. ToSet(Append(list, row)) = ToSet(list) \cup {row} /\ Once(Append(list, row))
      BY <1>2, <2>1, AppendIs
    <2> QED
      BY <1>4, <2>2 DEF list, Owned
  <1>8. Owned("loop")' = Owned("loop") \cup {row} /\ Once(Own("loop"))'
    BY <1>7 DEF Owned, Once
  <1>9. Backlog' = Backlog /\ BacklogOnce' = BacklogOnce
    BY <1>1, BacklogStays
  <1> QED
    BY <1>1, <1>2, <1>5, <1>8, <1>9, OwnGrows, TwoProcesses

LEMMA SingleInsert ==
    ASSUME ~LockGivesUp, WriterInv, Singled, NEW type \in Types, InsertEventNow(type), ~doubt'
    PROVE  Singled'
  <1> DEFINE row == EventRow("loop", now + 1, type)
  <1>1. /\ \/ Landed(<<row>>) /\ queue' = queue
           \/ Enqueue(row) /\ table' = table
           \/ UNCHANGED <<table, queue>>
        /\ UNCHANGED <<buffer, lock, flight>>
    BY DEF InsertEventNow, Made, published
  <1>2. WriterTypeOK /\ row \in Rows /\ row.ts = now + 1 /\ row.op = "event"
    BY NewRow, TwoProcesses DEF WriterInv, WriterTypeOK
  <1> HIDE DEF row
  <1>3. \A p \in Processes : Own(p)' = Own(p) /\ Owned(p)' = Owned(p)
    BY <1>1, OwnStays
  <1>4. row \notin ToSet(table) /\ row \notin Backlog /\ \A p \in Processes : row \notin Owned(p)
    BY <1>2, Fresh
  <1>5. \A p \in Processes : Once(Own(p))'
    BY <1>3 DEF Singled, Once
  <1>6. CASE Landed(<<row>>) /\ queue' = queue
    <2> DEFINE one == <<row>>
    <2>1. one \in Seq(Rows) /\ ToSet(one) = {row} /\ Once(one)
      BY <1>2 DEF ToSet, Once
    <2>2. Landed(one)
      BY <1>6
    <2> HIDE DEF one
    <2>3. Apart(ToSet(one), ToSet(table)) /\ Once(table)
      BY <1>4, <2>1 DEF Apart, Singled
    <2>4. /\ ToSet(table') = ToSet(table) \cup {r \in ToSet(one) : r.op = "event"}
          /\ Once(table')
      BY <1>2, <2>1, <2>2, <2>3, LandedDoes
    <2>5. ToSet(table)' = ToSet(table) \cup {row} /\ Once(table)'
      BY <1>2, <2>1, <2>4 DEF Once, ToSet
    <2>6. Backlog' = Backlog /\ BacklogOnce' = BacklogOnce
      BY <1>1, <1>6, BacklogStays
    <2>7. Separate'
      <3>1. Apart(ToSet(table), Backlog)'
        BY <1>4, <2>5, <2>6 DEF Singled, Separate, Apart
      <3>2. \A p \in Processes : Apart(ToSet(table), Owned(p))' /\ Apart(Backlog, Owned(p))'
        BY <1>3, <1>4, <2>5, <2>6 DEF Singled, Separate, Apart
      <3>3. \A p \in Processes, q \in Processes : p # q => Apart(Owned(p), Owned(q))'
        BY <1>3 DEF Singled, Separate, Apart
      <3> QED
        BY <3>1, <3>2, <3>3 DEF Separate
    <2> QED
      BY <1>5, <2>5, <2>6, <2>7 DEF Singled
  <1>7. CASE Enqueue(row) /\ table' = table
    <2>1. lock = NULL /\ lock' = NULL
      BY <1>1, <1>7 DEF Enqueue
    <2>2. Backlog = OnFile /\ Once(queue) /\ row \notin ToSet(queue)
      BY <1>4, <2>1 DEF Backlog, BacklogOnce, Singled, OnFile
    <2>3. ToSet(queue') \subseteq ToSet(queue) \cup {row} /\ Once(queue')
      BY <1>2, <1>7, <2>2, EnqueueDoes
    <2>4. Backlog' \subseteq Backlog \cup {row}
      BY <2>1, <2>2, <2>3 DEF Backlog, OnFile
    <2>5. BacklogOnce'
      BY <2>1, <2>3 DEF BacklogOnce, Once
    <2>6. Separate'
      <3>1. Apart(ToSet(table), Backlog)'
        BY <1>4, <1>7, <2>4 DEF Singled, Separate, Apart
      <3>2. \A p \in Processes : Apart(ToSet(table), Owned(p))' /\ Apart(Backlog, Owned(p))'
        BY <1>3, <1>4, <1>7, <2>4 DEF Singled, Separate, Apart
      <3>3. \A p \in Processes, q \in Processes : p # q => Apart(Owned(p), Owned(q))'
        BY <1>3 DEF Singled, Separate, Apart
      <3> QED
        BY <3>1, <3>2, <3>3 DEF Separate
    <2>7. Once(table)'
      BY <1>7 DEF Singled, Once
    <2> QED
      BY <1>5, <2>5, <2>6, <2>7 DEF Singled
  <1>8. CASE UNCHANGED <<table, queue>>
    <2>1. Backlog' = Backlog /\ BacklogOnce' = BacklogOnce
      BY <1>1, <1>8, BacklogStays
    <2> QED
      BY <1>3, <1>5, <1>8, <2>1, OwnShrinks, TwoProcesses DEF Singled
  <1> QED
    BY <1>1, <1>6, <1>7, <1>8

LEMMA SingleHeartbeat ==
    ASSUME WriterInv, Singled, Heartbeat
    PROVE  Singled'
  <1>1. flight["loop"] = NULL /\ UNCHANGED <<table, queue, lock, flight>>
    BY DEF Heartbeat, Running, Idle, published
  <1>2. /\ \A q \in Processes \ {"loop"} : buffer'[q] = buffer[q]
        /\ ToSet(buffer'["loop"]) \subseteq ToSet(buffer["loop"]) \cup {StatsRow(now)}
        /\ Once(buffer["loop"]) => Once(buffer'["loop"])
    BY HeartbeatDoes, TwoProcesses DEF WriterInv
  <1>3. Own("loop") = buffer["loop"] /\ Own("loop")' = buffer'["loop"]
        /\ \A q \in Processes \ {"loop"} : Own(q)' = Own(q)
    BY <1>1, <1>2 DEF Own
  <1>4. Once(Own("loop")')
    BY <1>2, <1>3, TwoProcesses DEF Singled
  <1>5. \A r \in Owned("loop")' : r.op = "event" => r \in Owned("loop")
    BY <1>2, <1>3 DEF Owned, StatsRow
  <1>6. Once(Own("loop"))'
    BY <1>4 DEF Once
  <1>7. Backlog' = Backlog /\ BacklogOnce' = BacklogOnce
    BY <1>1, BacklogStays
  <1> QED
    BY <1>1, <1>3, <1>5, <1>6, <1>7, OwnShrinks, TwoProcesses

LEMMA SingleStop ==
    ASSUME WriterInv, Singled, Stop
    PROVE  Singled'
  <1> DEFINE row == EventRow("loop", now + 1, "end")
             end == EndRow(now + 1)
             held == buffer["loop"] \o <<row, end>>
             f == [pc |-> "enter", runs |-> <<>>, ok |-> TRUE, remaining |-> <<>>, final |-> TRUE,
                   held |-> held]
  <1>1. /\ flight["loop"] = NULL /\ flight' = [flight EXCEPT !["loop"] = f]
        /\ buffer' = [buffer EXCEPT !["loop"] = <<>>]
        /\ UNCHANGED <<table, queue, lock>>
    BY DEF Stop, Made, Running, Idle, published
  <1>2. /\ buffer \in [Processes -> Seq(Rows)] /\ now \in Nat
        /\ flight \in [Processes -> Flights \cup {NULL}]
        /\ row \in Rows /\ row.ts = now + 1 /\ row.op = "event"
    BY NewRow, TwoProcesses DEF WriterInv, WriterTypeOK, Types
  <1>3. end \in Rows /\ end.op = "session"
    <2>1. now + 1 \in Nat
      BY <1>2
    <2> QED
      BY <2>1, RowTypes DEF EndRow
  <1> HIDE DEF row, end
  <1>4. Own("loop") = buffer["loop"]
    BY <1>1 DEF Own
  <1>5. row \notin Owned("loop") /\ Once(Own("loop"))
    BY <1>2, Fresh, TwoProcesses DEF Singled
  <1>6. held \in Seq(Rows) /\ ToSet(held) = Owned("loop") \cup {row, end} /\ Once(held)
    <2> DEFINE two == <<row, end>>
               list == buffer["loop"]
    <2>1. two \in Seq(Rows) /\ ToSet(two) = {row, end} /\ Once(two)
      BY <1>2, <1>3 DEF ToSet, Once
    <2>2. list \in Seq(Rows) /\ Once(list) /\ ToSet(list) = Owned("loop")
      BY <1>2, <1>4, <1>5, TwoProcesses DEF Owned
    <2>3. held = list \o two
      OBVIOUS
    <2> HIDE DEF two, list, held, f
    <2>4. Apart(ToSet(list), ToSet(two))
      BY <1>3, <1>5, <2>1, <2>2 DEF Apart
    <2>5. /\ list \o two \in Seq(Rows) /\ ToSet(list \o two) = ToSet(list) \cup ToSet(two)
          /\ Once(list) /\ Once(two) /\ Apart(ToSet(list), ToSet(two)) => Once(list \o two)
      BY <2>1, <2>2, Joined, ZenonT(60)
    <2>6. Once(list \o two)
      BY <2>1, <2>2, <2>4, <2>5
    <2> QED
      BY <2>1, <2>2, <2>3, <2>5, <2>6
  <1>7. f.pc = "enter" /\ f.held = held /\ f # NULL
    <2>1. f \in Flights
      BY <1>6 DEF Flights
    <2> HIDE DEF f
    <2>2. f # NULL
      BY <2>1, FlightTypes
    <2> QED
      BY <2>2 DEF f
  <1> HIDE DEF f, held
  <1>8. flight'["loop"] = f /\ \A q \in Processes \ {"loop"} : flight'[q] = flight[q] /\ buffer'[q] = buffer[q]
    BY <1>1, <1>2, TwoProcesses
  <1>9. Own("loop")' = held /\ \A q \in Processes \ {"loop"} : Own(q)' = Own(q)
    BY <1>7, <1>8 DEF Own
  <1>10. Owned("loop")' = Owned("loop") \cup {row, end} /\ Once(Own("loop"))'
    BY <1>6, <1>9 DEF Owned, Once
  <1>11. Backlog' = Backlog /\ BacklogOnce' = BacklogOnce
    <2>1. lock # "loop"
      BY <1>1, TwoProcesses DEF WriterInv, Ordered, At
    <2>2. lock \in Processes \cup {NULL}
      BY DEF WriterInv, WriterTypeOK
    <2> QED
      BY <1>1, <1>8, <2>1, <2>2, BacklogStays
  <1>12. \A r \in Owned("loop")' : r.op = "event" => r \in Owned("loop") \/ r = row
    BY <1>3, <1>10
  <1> QED
    BY <1>1, <1>2, <1>9, <1>10, <1>11, <1>12, OwnGrows, TwoProcesses

LEMMA SingleCrash ==
    ASSUME WriterInv, Singled, Crash, ~doubt'
    PROVE  Singled'
  <1>1. /\ flight' = [flight EXCEPT !["loop"] = NULL] /\ buffer' = [buffer EXCEPT !["loop"] = <<>>]
        /\ lock' = IF lock = "loop" THEN NULL ELSE lock
        /\ UNCHANGED <<table, queue>> /\ flight["loop"] = NULL
    BY DEF Crash, Idle, published
  <1>2. flight'["loop"] = NULL /\ buffer'["loop"] = <<>>
        /\ \A q \in Processes \ {"loop"} : flight'[q] = flight[q] /\ buffer'[q] = buffer[q]
    BY <1>1, TwoProcesses DEF WriterInv, WriterTypeOK
  <1>3. \A q \in Processes \ {"loop"} : Own(q)' = Own(q)
    BY <1>2 DEF Own
  <1>4. Own("loop")' = <<>>
    BY <1>2 DEF Own
  <1>5. Owned("loop")' = {} /\ Once(Own("loop"))'
    BY <1>4 DEF Owned, ToSet, Once
  <1>6. lock # "loop" /\ lock' = lock /\ lock \in Processes \cup {NULL}
    BY <1>1, TwoProcesses DEF WriterInv, WriterTypeOK, Ordered, At
  <1>7. Backlog' = Backlog /\ BacklogOnce' = BacklogOnce
    BY <1>1, <1>2, <1>6, BacklogStays
  <1> QED
    BY <1>1, <1>3, <1>5, <1>7, OwnShrinks, TwoProcesses

LEMMA SinglePost ==
    ASSUME WriterInv, Singled, PostEvent
    PROVE  Singled'
  <1> DEFINE row == EventRow("cli", now + 1, "down")
  <1>1. /\ flight["cli"] = NULL
        /\ buffer' = [buffer EXCEPT !["cli"] = <<row>>]
        /\ UNCHANGED <<table, queue, lock, flight>>
    BY DEF PostEvent, Made, Idle, published
  <1>2. buffer \in [Processes -> Seq(Rows)] /\ row.ts = now + 1
    BY NewRow, TwoProcesses DEF WriterInv, WriterTypeOK, Types
  <1> HIDE DEF row
  <1>3. buffer'["cli"] = <<row>> /\ \A q \in Processes \ {"cli"} : buffer'[q] = buffer[q]
    BY <1>1, <1>2, TwoProcesses
  <1>4. Own("cli")' = <<row>> /\ \A q \in Processes \ {"cli"} : Own(q)' = Own(q)
    BY <1>1, <1>3 DEF Own
  <1>5. Owned("cli")' = {row} /\ Once(Own("cli"))'
    BY <1>4 DEF Owned, ToSet, Once
  <1>6. Backlog' = Backlog /\ BacklogOnce' = BacklogOnce
    BY <1>1, BacklogStays
  <1> QED
    BY <1>1, <1>2, <1>4, <1>5, <1>6, OwnGrows, TwoProcesses

LEMMA SingleIdle ==
    ASSUME WriterInv, Singled, Tick \/ UNCHANGED writerVars
    PROVE  Singled'
  <1>1. UNCHANGED <<table, buffer, queue, lock, flight>>
    BY DEF Tick, writerVars, published
  <1>2. \A p \in Processes : Own(p)' = Own(p) /\ Owned(p)' = Owned(p) /\ (Once(Own(p))' <=> Once(Own(p)))
    BY <1>1 DEF Own, Owned, Once
  <1>3. Backlog' = Backlog /\ BacklogOnce' = BacklogOnce
    BY <1>1, BacklogStays
  <1> QED
    BY <1>1, <1>2, <1>3, OwnShrinks, TwoProcesses DEF Singled

LEMMA SingleStart ==
    ASSUME WriterInv, Singled, NEW p \in Processes, FlushStart(p)
    PROVE  Singled'
  <1> DEFINE f == [pc |-> "enter", runs |-> <<>>, ok |-> TRUE, remaining |-> <<>>, final |-> p = "cli",
                   held |-> buffer[p]]
  <1>1. /\ flight[p] = NULL /\ flight' = [flight EXCEPT ![p] = f] /\ buffer' = [buffer EXCEPT ![p] = <<>>]
        /\ UNCHANGED <<table, queue, lock>>
    BY DEF FlushStart, Idle, published
  <1>2. /\ buffer \in [Processes -> Seq(Rows)]
        /\ flight \in [Processes -> Flights \cup {NULL}]
    BY DEF WriterInv, WriterTypeOK
  <1>3. f.pc = "enter" /\ f.held = buffer[p] /\ f # NULL
    <2>1. buffer[p] \in Seq(Rows) /\ (p = "cli") \in BOOLEAN
      BY <1>2
    <2>2. f \in Flights
      BY <2>1 DEF Flights
    <2> HIDE DEF f
    <2>3. f # NULL
      BY <2>2, FlightTypes
    <2> QED
      BY <2>3 DEF f
  <1> HIDE DEF f
  <1>4. /\ flight'[p] = f
        /\ \A q \in Processes \ {p} : flight'[q] = flight[q] /\ buffer'[q] = buffer[q]
    BY <1>1, <1>2
  <1>5. Own(p)' = Own(p) /\ \A q \in Processes \ {p} : Own(q)' = Own(q)
    BY <1>1, <1>3, <1>4 DEF Own
  <1>6. Owned(p)' = Owned(p) /\ Once(Own(p))'
    BY <1>5 DEF Owned, Once, Singled
  <1>7. lock # p /\ lock \in Processes \cup {NULL}
    BY <1>1, TwoProcesses DEF WriterInv, WriterTypeOK, Ordered, At
  <1>8. Backlog' = Backlog /\ BacklogOnce' = BacklogOnce
    BY <1>1, <1>4, <1>7, BacklogStays
  <1> QED
    BY <1>1, <1>5, <1>6, <1>8, OwnShrinks

LEMMA SingleRefused ==
    ASSUME ~LockGivesUp, WriterInv, Singled, NEW p \in Processes, FlushRefused(p)
    PROVE  Singled'
  <1> DEFINE held == flight[p].held
  <1>1. /\ At(p, "enter") /\ lock = NULL /\ LeaveFile(p) /\ Keep(p, held)
        /\ UNCHANGED <<table, queue>>
    BY DEF FlushRefused, published
  <1>2. /\ flight[p] # NULL /\ flight[p].pc = "enter" /\ ~Idle(p) /\ held \in Seq(Rows)
        /\ buffer \in [Processes -> Seq(Rows)] /\ buffer[p] = <<>>
        /\ flight \in [Processes -> Flights \cup {NULL}]
    BY <1>1, FlightTypes DEF At, Idle, WriterInv, WriterTypeOK, Ordered
  <1>3. Own(p) = held
    BY <1>2 DEF Own
  <1> HIDE DEF held
  <1>4. buffer' = buffer \/ buffer' = [buffer EXCEPT ![p] = held \o @]
    BY <1>1, <1>2, KeepDoes DEF WriterInv
  <1>5. /\ flight'[p] = NULL /\ lock' = NULL
        /\ \A q \in Processes \ {p} : flight'[q] = flight[q] /\ buffer'[q] = buffer[q]
    BY <1>1, <1>2, <1>4, TwoProcesses DEF LeaveFile
  <1>6. Own(p)' = <<>> \/ Own(p)' = Own(p)
    <2>1. held \o <<>> = held
      BY <1>2
    <2>2. buffer'[p] = <<>> \/ buffer'[p] = held
      BY <1>2, <1>4, <2>1
    <2> QED
      BY <1>3, <1>5, <2>2 DEF Own
  <1>7. \A q \in Processes \ {p} : Own(q)' = Own(q)
    BY <1>5 DEF Own
  <1>8. Owned(p)' \subseteq Owned(p) /\ Once(Own(p))'
    BY <1>6 DEF Owned, ToSet, Once, Singled
  <1>9. Backlog' = Backlog /\ BacklogOnce' = BacklogOnce
    BY <1>1, <1>5, BacklogStays
  <1> QED
    BY <1>1, <1>7, <1>8, <1>9, OwnShrinks

\* A flush takes its rows and the file's together: they were apart, so its plan
\* has every event once.
LEMMA SingleEnter ==
    ASSUME ~LockGivesUp, WriterInv, Singled, NEW p \in Processes, FlushEnter(p)
    PROVE  Singled'
  <1> DEFINE f == flight[p]
             rows == queue \o f.held
             plan == StatsLast(Runs(CoalesceStats(rows)))
             g == [f EXCEPT !.pc = "send", !.runs = plan]
  <1>1. /\ At(p, "enter") /\ lock = NULL /\ lock' = p
        /\ flight' = [flight EXCEPT ![p].pc = "send", ![p].runs = plan]
        /\ UNCHANGED <<table, buffer, queue>>
    BY DEF FlushEnter, EnterFile, published
  <1>2. /\ flight \in [Processes -> Flights \cup {NULL}] /\ queue \in Seq(Rows)
    BY DEF WriterInv, WriterTypeOK
  <1>3. f \in Flights /\ f.remaining = <<>> /\ f.held \in Seq(Rows) /\ f # NULL /\ f.pc = "enter"
    BY <1>1, <1>2, FlightTypes DEF At, WriterInv, Ordered
  <1>4. Own(p) = f.held /\ Backlog = ToSet(queue) /\ Once(queue) /\ Once(f.held)
    BY <1>1, <1>3 DEF Own, Backlog, OnFile, BacklogOnce, Singled
  <1>5. Owned(p) = ToSet(f.held) /\ Apart(ToSet(queue), ToSet(f.held))
    BY <1>4 DEF Owned, Singled, Separate
  <1>6. rows \in Seq(Rows) /\ ToSet(rows) = Backlog \cup Owned(p) /\ Once(rows)
    <2> DEFINE held == f.held
    <2>1. held \in Seq(Rows)
      BY <1>3
    <2>2. Once(held) /\ Apart(ToSet(queue), ToSet(held)) /\ Owned(p) = ToSet(held)
      BY <1>4, <1>5
    <2> HIDE DEF held
    <2>3. /\ queue \o held \in Seq(Rows) /\ ToSet(queue \o held) = ToSet(queue) \cup ToSet(held)
          /\ Once(queue) /\ Once(held) /\ Apart(ToSet(queue), ToSet(held)) => Once(queue \o held)
      BY <1>2, <2>1, Joined
    <2>4. rows = queue \o held
      BY DEF held
    <2> HIDE DEF rows
    <2> QED
      BY <1>4, <2>2, <2>3, <2>4
  <1> HIDE DEF rows
  <1>7. /\ plan \in Seq(Seq(Rows)) /\ InRuns(plan) \subseteq ToSet(rows)
        /\ OnceEach(plan)
    <2>1. /\ plan \in Seq(Seq(Rows)) /\ InRuns(plan) \subseteq ToSet(rows)
          /\ Once(rows) => OnceEach(plan)
      BY <1>6, Planned
    <2> QED
      BY <1>6, <2>1
  <1> HIDE DEF plan
  <1>8. flight' = [flight EXCEPT ![p] = g]
    BY <1>1, <1>2
  <1> HIDE DEF f
  <1>9. g \in Flights /\ g.pc = "send" /\ g.runs = plan /\ g.remaining = <<>>
    BY <1>3, <1>7 DEF Flights
  <1>10. g # NULL
    BY <1>9, FlightTypes
  <1> HIDE DEF g
  <1>11. flight'[p] = g /\ \A q \in Processes \ {p} : flight'[q] = flight[q]
    BY <1>2, <1>8
  <1>12. Own(p)' = <<>> /\ \A q \in Processes \ {p} : Own(q)' = Own(q)
    <2>1. flight'[p] # NULL /\ flight'[p].pc = "send"
      BY <1>9, <1>10, <1>11
    <2>2. Own(p)' = <<>>
      BY <2>1 DEF Own
    <2>3. \A q \in Processes \ {p} : flight'[q] = flight[q] /\ buffer'[q] = buffer[q]
      BY <1>1, <1>11
    <2>4. \A q \in Processes \ {p} : Own(q)' = Own(q)
      BY <2>3, OwnStays
    <2> QED
      BY <2>2, <2>4
  <1>13. Owned(p)' = {} /\ Once(Own(p))' /\ \A q \in Processes \ {p} : Owned(q)' = Owned(q)
    BY <1>12 DEF Owned, ToSet, Once
  <1>14. Backlog' = InRuns(plan)
    <2>1. lock' # NULL
      BY <1>1, TwoProcesses
    <2>2. Backlog' = InRuns(flight'[p].runs) \cup ToSet(flight'[p].remaining)
      BY <1>1, <2>1 DEF Backlog, Unsent, InRuns
    <2> QED
      BY <1>9, <1>11, <2>2 DEF ToSet
  <1>15. BacklogOnce'
    <2>1. lock' # NULL
      BY <1>1, TwoProcesses
    <2>2. Once(g.remaining) /\ OnceEach(g.runs) /\ Apart(InRuns(g.runs), ToSet(g.remaining))
      BY <1>7, <1>9 DEF Once, Apart, ToSet
    <2>3. Pending(p)'
      BY <1>11, <2>2 DEF Pending, Once, OnceEach, Apart, InRuns
    <2> QED
      BY <1>1, <2>1, <2>3 DEF BacklogOnce
  <1>16. Backlog' \subseteq Backlog \cup Owned(p)
    BY <1>6, <1>7, <1>14
  <1>17. Separate'
    <2>1. Apart(ToSet(table), Backlog)'
      BY <1>1, <1>16 DEF Singled, Separate, Apart
    <2>2. \A q \in Processes \ {p} : Apart(ToSet(table), Owned(q))' /\ Apart(Backlog, Owned(q))'
      BY <1>1, <1>13, <1>16 DEF Singled, Separate, Apart
    <2>3. Apart(ToSet(table), Owned(p))' /\ Apart(Backlog, Owned(p))'
      BY <1>13 DEF Apart
    <2>4. \A q \in Processes \ {p} : Apart(Owned(p), Owned(q))' /\ Apart(Owned(q), Owned(p))'
      BY <1>13 DEF Apart
    <2>5. \A q \in Processes \ {p}, r \in Processes \ {p} : q # r => Apart(Owned(q), Owned(r))'
      BY <1>13 DEF Singled, Separate
    <2> QED
      BY <2>1, <2>2, <2>3, <2>4, <2>5 DEF Separate
  <1>18. Once(table)' /\ \A q \in Processes : Once(Own(q))'
    BY <1>1, <1>12, <1>13 DEF Singled, Once
  <1> QED
    BY <1>15, <1>17, <1>18 DEF Singled

LEMMA SingleEnd ==
    ASSUME ~LockGivesUp, WriterInv, Singled, NEW p \in Processes, FlushEnd(p), ~doubt'
    PROVE  Singled'
  <1> DEFINE left == flight[p].remaining
  <1>1. /\ At(p, "send") /\ flight[p].runs = <<>> /\ LeaveFile(p)
        /\ queue' = left /\ UNCHANGED <<table, buffer>>
    BY DEF FlushEnd, published
  <1>2. /\ flight \in [Processes -> Flights \cup {NULL}] /\ lock = p /\ lock # NULL /\ buffer[p] = <<>>
        /\ flight[p] # NULL
    BY <1>1, Locked, TwoProcesses DEF At, WriterInv, WriterTypeOK, Ordered
  <1>3. flight'[p] = NULL /\ lock' = NULL /\ \A q \in Processes \ {p} : flight'[q] = flight[q]
    BY <1>1, <1>2 DEF LeaveFile
  <1>4. Backlog = ToSet(left) /\ Once(left)
    BY <1>1, <1>2 DEF Backlog, Unsent, InRuns, BacklogOnce, Pending, Singled
  <1>5. Backlog' = Backlog /\ BacklogOnce'
    BY <1>1, <1>3, <1>4 DEF Backlog, OnFile, BacklogOnce, Once
  <1>6. Own(p)' = <<>> /\ \A q \in Processes \ {p} : Own(q)' = Own(q)
    BY <1>1, <1>2, <1>3 DEF Own
  <1>7. Owned(p)' = {} /\ Once(Own(p))' /\ \A q \in Processes \ {p} : Owned(q)' = Owned(q)
    BY <1>6 DEF Owned, ToSet, Once
  <1>8. Separate'
    <2>1. Apart(ToSet(table), Backlog)'
      BY <1>1, <1>5 DEF Singled, Separate, Apart
    <2>2. \A q \in Processes \ {p} : Apart(ToSet(table), Owned(q))' /\ Apart(Backlog, Owned(q))'
      BY <1>1, <1>5, <1>7 DEF Singled, Separate, Apart
    <2>3. Apart(ToSet(table), Owned(p))' /\ Apart(Backlog, Owned(p))'
      BY <1>7 DEF Apart
    <2>4. \A q \in Processes \ {p} : Apart(Owned(p), Owned(q))' /\ Apart(Owned(q), Owned(p))'
      BY <1>7 DEF Apart
    <2>5. \A q \in Processes \ {p}, r \in Processes \ {p} : q # r => Apart(Owned(q), Owned(r))'
      BY <1>7 DEF Singled, Separate
    <2> QED
      BY <2>1, <2>2, <2>3, <2>4, <2>5 DEF Separate
  <1>9. Once(table)' /\ \A q \in Processes : Once(Own(q))'
    BY <1>1, <1>6, <1>7 DEF Singled, Once
  <1> QED
    BY <1>5, <1>8, <1>9 DEF Singled

\* A run that has been sent: what landed of it, what is left of it, and what is
\* still to be sent are apart because the run had every event once.
LEMMA SingleRun ==
    ASSUME ~LockGivesUp, WriterInv, Singled, NEW p \in Processes, FlushRun(p), ~doubt'
    PROVE  Singled'
  <1> DEFINE f == flight[p]
             g == flight'[p]
             run == Head(f.runs)
             rest == Tail(f.runs)
             size == Len(run)
  <1>1. At(p, "send") /\ f \in Flights /\ f # NULL /\ f.runs # <<>> /\ NextRun(p) = run
    BY DEF FlushRun, At, NextRun, WriterInv, WriterTypeOK
  <1>2. WriterTypeOK /\ lock = p /\ lock # NULL /\ f.pc = "send"
    BY <1>1, Locked, TwoProcesses DEF WriterInv, At
  <1>3. f.runs \in Seq(Seq(Rows)) /\ f.remaining \in Seq(Rows)
    BY <1>1, FlightTypes
  <1>4. /\ run = f.runs[1] /\ 1 \in DOMAIN f.runs /\ run \in Seq(Rows) /\ rest \in Seq(Seq(Rows))
        /\ \A k \in DOMAIN rest : k \in Nat /\ k + 1 \in DOMAIN f.runs /\ rest[k] = f.runs[k + 1]
        /\ InRuns(f.runs) = ToSet(run) \cup InRuns(rest)
    BY <1>1, <1>3, HeadAndTail
  <1>5. PICK n \in 0 .. size : \E m \in n .. size, ok \in BOOLEAN : RunDone(p, n, m, ok)
    BY <1>1, <1>2, RunDoes
  <1>6. PICK m \in n .. size, ok \in BOOLEAN : RunDone(p, n, m, ok)
    BY <1>5
  <1> DEFINE left == SubSeq(run, n + 1, size)
             sent == SubSeq(run, 1, m)
  <1>7. /\ Onward(p, left, ok)
        /\ Landed(sent) \/ (m = 0 /\ table' = table)
        /\ m = n /\ UNCHANGED <<buffer, queue, lock>>
    BY <1>1, <1>6 DEF RunDone
  <1> HIDE DEF run, rest
  <1>8. size \in Nat /\ n \in Nat /\ m \in Nat /\ n <= m /\ m <= size
    BY <1>4
  <1>9. /\ left \in Seq(Rows) /\ ToSet(left) = {run[i] : i \in n + 1 .. size}
        /\ sent \in Seq(Rows) /\ ToSet(sent) = {run[i] : i \in 1 .. m}
        /\ Once(run) => Once(left) /\ Once(sent)
    <2>1. n + 1 \in Nat \ {0} /\ 1 \in Nat \ {0} /\ size \in 0 .. Len(run) /\ m \in 0 .. Len(run)
      BY <1>8
    <2>2. run \in Seq(Rows)
      BY <1>4
    <2> DEFINE after == n + 1
    <2> HIDE DEF after, size
    <2>3. SubSeq(run, after, size) \in Seq(Rows) /\ Drawn(SubSeq(run, after, size), run)
          /\ ToSet(SubSeq(run, after, size)) = {run[i] : i \in after .. size}
      BY <2>1, <2>2, SliceDrawn DEF after
    <2>4. SubSeq(run, 1, m) \in Seq(Rows) /\ Drawn(SubSeq(run, 1, m), run)
          /\ ToSet(SubSeq(run, 1, m)) = {run[i] : i \in 1 .. m}
      BY <2>1, <2>2, SliceDrawn
    <2>5. Once(run) => Once(SubSeq(run, after, size))
      BY <2>3, DrawnKeeps
    <2>6. Once(run) => Once(SubSeq(run, 1, m))
      BY <2>4, DrawnKeeps
    <2> QED
      BY <2>3, <2>4, <2>5, <2>6 DEF after
  <1>10. ToSet(run) = {run[i] : i \in 1 .. size}
    BY <1>4 DEF ToSet
  <1> HIDE DEF left, sent
  <1>11. /\ g \in Flights /\ g # NULL /\ \A q \in Processes \ {p} : flight'[q] = flight[q]
         /\ g.runs = rest /\ g.remaining = f.remaining \o left /\ g.pc = f.pc
    <2>1. flight[p] \in Flights /\ flight[p].runs # <<>> /\ left \in Seq(Rows) /\ ok \in BOOLEAN
          /\ Onward(p, left, ok)
      BY <1>1, <1>7, <1>9, SMTT(60)
    <2>2. /\ flight'[p] \in Flights /\ \A q \in Processes \ {p} : flight'[q] = flight[q]
          /\ flight'[p].runs = Tail(flight[p].runs) /\ flight'[p].remaining = flight[p].remaining \o left
          /\ flight'[p].pc = flight[p].pc
      BY <1>2, <2>1, OnwardDoes, ZenonT(60)
    <2>3. flight'[p] # NULL
      BY <2>2, FlightTypes
    <2> QED
      BY <2>2, <2>3 DEF rest
  <1>12. Once(f.remaining) /\ OnceEach(f.runs) /\ Apart(InRuns(f.runs), ToSet(f.remaining))
    BY <1>2 DEF Singled, BacklogOnce, Pending
  <1>13. Once(run) /\ Once(left) /\ Once(sent)
    BY <1>4, <1>9, <1>12 DEF OnceEach
  <1>14. ToSet(left) \subseteq ToSet(run) /\ ToSet(sent) \subseteq ToSet(run)
    BY <1>8, <1>9, <1>10
  <1>15. Backlog = ToSet(run) \cup InRuns(rest) \cup ToSet(f.remaining)
    <2>1. Backlog = InRuns(f.runs) \cup ToSet(f.remaining)
      BY <1>2 DEF Backlog, Unsent
    <2> QED
      BY <1>4, <2>1
  <1>16. Apart(ToSet(sent), ToSet(table)) /\ Apart(ToSet(table), ToSet(sent))
    BY <1>14, <1>15 DEF Singled, Separate, Apart
  <1>17. Once(table') /\ ToSet(table) \subseteq ToSet(table')
         /\ ToSet(table') \subseteq ToSet(table) \cup {r \in ToSet(sent) : r.op = "event"}
    <2>1. Once(table)
      BY DEF Singled
    <2>2. CASE m = 0 /\ table' = table
      BY <2>1, <2>2
    <2>3. CASE Landed(sent)
      <3>1. /\ ToSet(table') = ToSet(table) \cup {r \in ToSet(sent) : r.op = "event"}
            /\ Once(table) /\ Once(sent) /\ Apart(ToSet(sent), ToSet(table)) => Once(table')
        BY <1>2, <1>9, <2>3, LandedDoes
      <3> QED
        BY <1>13, <1>16, <2>1, <3>1
    <2> QED
      BY <1>7, <2>2, <2>3
  <1>18. Apart(ToSet(sent), ToSet(left)) /\ Apart(ToSet(left), ToSet(sent))
    <2>1. ASSUME NEW i \in 1 .. m, NEW j \in n + 1 .. size, run[i] = run[j], run[i].op = "event" PROVE FALSE
      <3>1. i \in DOMAIN run /\ j \in DOMAIN run /\ i < j
        BY <1>4, <1>7, <1>8, <2>1
      <3>2. i = j
        BY <1>13, <2>1, <3>1 DEF Once
      <3> QED
        BY <3>1, <3>2
    <2> QED
      BY <1>9, <2>1 DEF Apart
  <1>19. Apart(InRuns(rest), ToSet(run)) /\ Apart(ToSet(run), InRuns(rest)) /\ OnceEach(rest)
    <2>1. ASSUME NEW k \in DOMAIN rest PROVE Apart(ToSet(rest[k]), ToSet(run)) /\ Once(rest[k])
      <3>1. k + 1 # 1 /\ k + 1 \in DOMAIN f.runs /\ rest[k] = f.runs[k + 1]
        BY <1>4
      <3> QED
        BY <1>4, <1>12, <3>1 DEF OnceEach
    <2>2. ASSUME NEW k \in DOMAIN rest, NEW l \in DOMAIN rest, k # l
          PROVE  Apart(ToSet(rest[k]), ToSet(rest[l]))
      <3>1. k + 1 # l + 1 /\ k + 1 \in DOMAIN f.runs /\ rest[k] = f.runs[k + 1]
            /\ l + 1 \in DOMAIN f.runs /\ rest[l] = f.runs[l + 1]
        BY <1>4, <2>2
      <3> QED
        BY <1>12, <3>1 DEF OnceEach
    <2>3. Apart(InRuns(rest), ToSet(run)) /\ Apart(ToSet(run), InRuns(rest))
      BY <2>1 DEF Apart, InRuns
    <2> QED
      BY <2>1, <2>2, <2>3 DEF OnceEach
  <1>20. /\ Apart(ToSet(run), ToSet(f.remaining)) /\ Apart(InRuns(rest), ToSet(f.remaining))
         /\ Apart(ToSet(f.remaining), ToSet(left))
    BY <1>4, <1>12, <1>14 DEF Apart
  <1> DEFINE kept == f.remaining \o left
  <1>21. ToSet(kept) = ToSet(f.remaining) \cup ToSet(left) /\ Once(kept)
    <2> DEFINE old == f.remaining
    <2>1. old \in Seq(Rows) /\ Once(old) /\ Apart(ToSet(old), ToSet(left))
      BY <1>3, <1>12, <1>20
    <2> HIDE DEF old
    <2>2. /\ ToSet(old \o left) = ToSet(old) \cup ToSet(left)
          /\ Once(old) /\ Once(left) /\ Apart(ToSet(old), ToSet(left)) => Once(old \o left)
      BY <1>9, <2>1, Joined, ZenonT(60)
    <2>3. ToSet(old \o left) = ToSet(old) \cup ToSet(left) /\ Once(old \o left)
      BY <1>13, <2>1, <2>2
    <2> QED
      BY <2>3 DEF old
  <1>22. Apart(InRuns(rest), ToSet(kept))
    BY <1>14, <1>19, <1>20, <1>21 DEF Apart
  <1>23. /\ Backlog' = InRuns(rest) \cup ToSet(f.remaining) \cup ToSet(left)
    <2>1. Backlog' = InRuns(g.runs) \cup ToSet(g.remaining)
      BY <1>2, <1>7 DEF Backlog, Unsent, InRuns
    <2> QED
      BY <1>11, <1>21, <2>1
  <1>24. BacklogOnce'
    <2>1. Once(g.remaining) /\ OnceEach(g.runs) /\ Apart(InRuns(g.runs), ToSet(g.remaining))
      BY <1>11, <1>19, <1>21, <1>22
    <2>2. Pending(p)'
      BY <2>1 DEF Pending, Once, OnceEach, Apart, InRuns
    <2> QED
      BY <1>2, <1>7, <2>2 DEF BacklogOnce
  <1>25. \A q \in Processes : Own(q)' = Own(q) /\ Owned(q)' = Owned(q) /\ Once(Own(q))'
    <2>1. Own(p)' = Own(p)
      BY <1>1, <1>2, <1>11 DEF Own
    <2>2. \A q \in Processes \ {p} : flight'[q] = flight[q] /\ buffer'[q] = buffer[q]
      BY <1>7, <1>11
    <2>3. \A q \in Processes : Own(q)' = Own(q)
      BY <2>1, <2>2, OwnStays
    <2> QED
      BY <2>3 DEF Owned, Once, Singled
  <1>26. Backlog' \subseteq Backlog
    BY <1>14, <1>15, <1>23
  <1>27. Separate'
    <2>1. Apart(ToSet(table), Backlog)'
      <3>1. ASSUME NEW r \in ToSet(table'), r.op = "event" PROVE r \notin Backlog'
        <4>1. CASE r \in ToSet(table)
          BY <1>26, <3>1, <4>1 DEF Singled, Separate, Apart
        <4>2. CASE r \in ToSet(sent)
          BY <1>14, <1>18, <1>19, <1>20, <1>23, <3>1, <4>2 DEF Apart
        <4> QED
          BY <1>17, <4>1, <4>2
      <3> QED
        BY <3>1 DEF Apart, ToSet
    <2>2. \A q \in Processes : Apart(Backlog, Owned(q))'
      BY <1>25, <1>26 DEF Singled, Separate, Apart
    <2>3. \A q \in Processes : Apart(ToSet(table), Owned(q))'
      <3>1. ASSUME NEW q \in Processes, NEW r \in ToSet(table'), r.op = "event" PROVE r \notin Owned(q)
        BY <1>14, <1>15, <1>17, <3>1 DEF Singled, Separate, Apart
      <3> QED
        BY <1>25, <3>1 DEF Apart, ToSet
    <2>4. \A q \in Processes, r \in Processes : q # r => Apart(Owned(q), Owned(r))'
      BY <1>25 DEF Singled, Separate, Apart
    <2> QED
      BY <2>1, <2>2, <2>3, <2>4 DEF Separate
  <1>28. Once(table)'
    BY <1>17 DEF Once
  <1> QED
    BY <1>24, <1>25, <1>27, <1>28 DEF Singled

LEMMA StepSingled ==
    ASSUME ~LockGivesUp, WriterInv, Single, [WriterNext]_writerVars
    PROVE  Single'
  <1> SUFFICES ASSUME ~doubt' PROVE Singled'
    BY DEF Single
  <1>1. doubt \in BOOLEAN
    BY DEF WriterInv, WriterTypeOK
  <1>2. doubt => doubt'
    BY <1>1 DEF WriterNext, RecordEvent, InsertEventNow, Heartbeat, Stop, Crash, PostEvent, Tick, Flush,
                FlushStart, FlushEnter, FlushRefused, FlushRun, FlushEnd, writerVars
  <1>3. Singled
    BY <1>2 DEF Single
  <1>4. CASE \E type \in Types : RecordEvent(type)
    BY <1>3, <1>4, SingleRecord
  <1>5. CASE \E type \in Types : InsertEventNow(type)
    BY <1>3, <1>5, SingleInsert
  <1>6. CASE Heartbeat
    BY <1>3, <1>6, SingleHeartbeat
  <1>7. CASE Stop
    BY <1>3, <1>7, SingleStop
  <1>8. CASE Crash
    BY <1>3, <1>8, SingleCrash
  <1>9. CASE PostEvent
    BY <1>3, <1>9, SinglePost
  <1>10. CASE Tick \/ UNCHANGED writerVars
    BY <1>3, <1>10, SingleIdle
  <1>11. ASSUME NEW p \in Processes, Flush(p) PROVE Singled'
    <2>1. CASE FlushStart(p)
      BY <1>3, <2>1, SingleStart
    <2>2. CASE FlushEnter(p)
      BY <1>3, <2>2, SingleEnter
    <2>3. CASE FlushRefused(p)
      BY <1>3, <2>3, SingleRefused
    <2>4. CASE FlushRun(p)
      BY <1>3, <2>4, SingleRun
    <2>5. CASE FlushEnd(p)
      BY <1>3, <2>5, SingleEnd
    <2> QED
      BY <1>11, <2>1, <2>2, <2>3, <2>4, <2>5 DEF Flush
  <1> QED
    BY <1>4, <1>5, <1>6, <1>7, <1>8, <1>9, <1>10, <1>11 DEF WriterNext

LEMMA StartSingled == WriterInit => Single
  <1> SUFFICES ASSUME WriterInit PROVE Singled
    BY DEF Single
  <1>1. /\ table = <<>> /\ queue = <<>> /\ lock = NULL
        /\ \A p \in Processes : buffer[p] = <<>> /\ flight[p] = NULL
    BY DEF WriterInit
  <1>2. Backlog = {} /\ ToSet(table) = {} /\ \A p \in Processes : Own(p) = <<>> /\ Owned(p) = {}
    BY <1>1 DEF Backlog, OnFile, Owned, Own, ToSet
  <1>3. Separate
    BY <1>2 DEF Separate, Apart
  <1> QED
    BY <1>1, <1>2, <1>3 DEF Singled, BacklogOnce, Once

LEMMA OnceInv == WriterInv /\ Single => OncePerEvent
  <1> SUFFICES ASSUME WriterInv, Single, ~doubt, NEW i \in DOMAIN table, NEW j \in DOMAIN table,
                      table[i] = table[j]
               PROVE  i = j
    BY DEF OncePerEvent
  <1>1. Once(table)
    BY DEF Single, Singled
  <1>2. table[i].op = "event"
    <2>1. table[i] \in EventRows
      BY DEF WriterInv, WriterTypeOK
    <2> QED
      BY <2>1 DEF EventRows
  <1> QED
    BY <1>1, <1>2 DEF Once

LEMMA StartUpheld == WriterInit => WriterInv
  <1> SUFFICES ASSUME WriterInit PROVE WriterInv
    OBVIOUS
  <1>1. WriterTypeOK
    BY WriterTypesStart
  <1>2. /\ now = 0 /\ made = <<>> /\ table = <<>> /\ heartbeat = 0 /\ queue = <<>> /\ gone = {}
        /\ exposed = {} /\ lock = NULL /\ \A p \in Processes : buffer[p] = <<>> /\ flight[p] = NULL
    BY DEF WriterInit
  <1>3. /\ ToSet(made) = {} /\ ToSet(table) = {} /\ OnFile = {}
        /\ \A p \in Processes : Memory(p) = {}
    BY <1>2 DEF ToSet, OnFile, Memory, HeldBy
  <1>4. \A p \in Processes : ~At(p, "send") /\ ~At(p, "enter")
    BY <1>2 DEF At
  <1>5. Ordered /\ Sending
    BY <1>2, <1>3, <1>4, TwoProcesses DEF Ordered, Sending
  <1>l. \A p \in Processes : Loaded(p) = {}
    BY <1>4 DEF Loaded
  <1>6. Everywhere = {}
    BY <1>3, <1>l, TwoProcesses DEF Everywhere
  <1>7. Delivery
    BY <1>2, <1>3, <1>6, <1>l, TwoProcesses DEF Delivery, Dated, Kept, Honest, Tells
  <1> QED
    BY <1>1, <1>5, <1>7 DEF WriterInv

LEMMA StepUpheld ==
    ASSUME WriterInv, [WriterNext]_writerVars
    PROVE  WriterInv'
  <1>1. WriterTypeOK'
    <2>1. CASE UNCHANGED writerVars
      BY <2>1 DEF WriterInv, WriterTypeOK, writerVars, published
    <2>2. CASE \E p \in Processes : Flush(p)
      BY <2>2, FlushTypesHold DEF WriterInv
    <2> QED
      BY <2>1, <2>2, LoopTypesHold DEF WriterInv, WriterNext
  <1>2. Ordered' /\ Sending' /\ Delivers
    <2>1. CASE \E type \in Types : RecordEvent(type)
      BY <2>1, RecordStep
    <2>2. CASE \E type \in Types : InsertEventNow(type)
      BY <2>2, InsertStep
    <2>3. CASE Heartbeat
      BY <2>3, HeartbeatStep
    <2>4. CASE Stop
      BY <2>4, StopStep
    <2>5. CASE Crash
      BY <2>5, CrashStep
    <2>6. CASE PostEvent
      BY <2>6, PostStep
    <2>7. CASE Tick \/ UNCHANGED writerVars
      BY <2>7, IdleStep
    <2>8. ASSUME NEW p \in Processes, Flush(p) PROVE Ordered' /\ Sending' /\ Delivers
      <3>1. CASE FlushStart(p)
        BY <3>1, StartStep
      <3>2. CASE FlushEnter(p)
        BY <3>2, EnterStep
      <3>3. CASE FlushRefused(p)
        BY <3>3, RefusedStep
      <3>4. CASE FlushRun(p)
        BY <3>4, RunStep
      <3>5. CASE FlushEnd(p)
        BY <3>5, EndStep
      <3> QED
        BY <2>8, <3>1, <3>2, <3>3, <3>4, <3>5 DEF Flush
    <2> QED
      BY <2>1, <2>2, <2>3, <2>4, <2>5, <2>6, <2>7, <2>8 DEF WriterNext
  <1>3. Delivery'
    BY <1>1, <1>2, Delivered DEF WriterInv
  <1> QED
    BY <1>1, <1>2, <1>3 DEF WriterInv

LEMMA HonestInv == WriterInv => HeartbeatHonest
  <1> SUFFICES ASSUME WriterInv, NEW i \in DOMAIN made, made[i].by = "loop", made[i].ts <= heartbeat
               PROVE  made[i] \in ToSet(table) \cup gone \cup exposed
    BY DEF HeartbeatHonest
  <1>1. made[i] \in ToSet(made)
    BY DEF ToSet
  <1> QED
    BY <1>1 DEF WriterInv, Delivery, Honest, Tells, Done

LEMMA KeptInv == WriterInv => NothingLost
  <1> SUFFICES ASSUME WriterInv, NEW i \in DOMAIN made
               PROVE  made[i] \in ToSet(table) \cup Held \cup gone \cup exposed
    BY DEF NothingLost
  <1>1. made[i] \in ToSet(made)
    BY DEF ToSet
  <1>2. ASSUME NEW p \in Processes PROVE Memory(p) \subseteq Held
    <2>1. ToSet(buffer[p]) \subseteq Held
      BY DEF Held
    <2>2. ASSUME flight[p] # NULL PROVE ToSet(flight[p].held) \subseteq Held
      <3>1. p \in {q \in Processes : ~Idle(q)}
        BY <2>2 DEF Idle
      <3> QED
        BY <3>1 DEF Held
    <2> QED
      BY <2>1, <2>2 DEF Memory, HeldBy
  <1>3. OnFile \subseteq Held
    BY DEF OnFile, Held
  <1> QED
    BY <1>1, <1>2, <1>3, TwoProcesses DEF WriterInv, Delivery, Kept, Done

-----------------------------------------------------------------------------
(* Theorems                                                                *)

\* The invariant of the delivery, whether or not the lock of the file is given
\* up: a flush that is sending still has every event of the file and of what it
\* took that has not landed and was not put on the file under its hands, and
\* wherever a heartbeat is, in the database, on file, in memory or on the list of
\* a flush, every event of the loop it vouches for is at least as far.
THEOREM WriterInvariance == WriterSpec => []WriterInv
  <1>1. WriterInit => WriterInv
    BY StartUpheld
  <1>2. WriterInv /\ [WriterNext]_writerVars => WriterInv'
    BY StepUpheld
  <1> QED
    BY <1>1, <1>2, PTL DEF WriterSpec

\* A heartbeat never overtakes the events recorded before it: once it stands in
\* the database, they do too, but for those given up and those put on the file
\* under the other process's hands (the order of the runs of _write_entries, and
\* the backlog that withholds heartbeats).
THEOREM HeartbeatsAreHonest == WriterSpec => []HeartbeatHonest
  BY WriterInvariance, HonestInv, PTL

\* Two processes flush, fail, die and rewrite one file, with or without its lock,
\* and no event disappears from memory, file and database but those counted as
\* given up and those one of them put on the file between the other's read of it
\* and its rewrite.
THEOREM NothingGetsLost == WriterSpec => []NothingLost
  BY WriterInvariance, KeptInv, PTL

\* As long as no answer and no rewrite was lost, no row is inserted a second
\* time: what failed is queued again, and only that, however often a process
\* retries and whoever holds the file.
THEOREM NoneIsSentTwice == ~LockGivesUp => (WriterSpec => []OncePerEvent)
  <1> SUFFICES ASSUME ~LockGivesUp PROVE WriterSpec => []OncePerEvent
    OBVIOUS
  <1>1. WriterInit => WriterInv /\ Single
    BY StartUpheld, StartSingled
  <1>2. WriterInv /\ Single /\ [WriterNext]_writerVars => WriterInv' /\ Single'
    BY StepUpheld, StepSingled
  <1>3. WriterInv /\ Single => OncePerEvent
    BY OnceInv
  <1> QED
    BY <1>1, <1>2, <1>3, PTL DEF WriterSpec

-----------------------------------------------------------------------------
(* The gate, over a writer that nothing disturbs                           *)

\* The loop is the only writer, no event is inserted at once, and neither a
\* request nor the file is refused.  It may die at any moment.
Undisturbed == ClipTypes = {} /\ ~Watchdog /\ ~LockGivesUp /\ MaxFaults = 0

LoopOnly ==
    /\ queue = <<>> /\ buffer["cli"] = <<>> /\ flight["cli"] = NULL
    /\ \A r \in ToSet(made) : r.by = "loop"

\* Wherever the events wait, they wait in the order they were recorded in.
Waiting ==
    /\ InTurn(made) /\ InTurn(buffer["loop"])
    /\ At("loop", "enter") => InTurn(flight["loop"].held) /\ flight["loop"].ok
    /\ At("loop", "send") =>
          /\ RunsInTurn(flight["loop"].runs)
          /\ flight["loop"].ok /\ flight["loop"].remaining = <<>>

\* What landed is all that was recorded up to some moment, and nothing was
\* given up as long as somebody may go on.
Prefixed ==
    /\ \A r \in ToSet(table) \cup Memory("loop") : r.op = "event" => r \in ToSet(made)
    /\ \A s \in ToSet(table), r \in ToSet(made) : r.ts <= s.ts => r \in ToSet(table)
    /\ \A r \in ToSet(made) : r.ts <= heartbeat => r \in ToSet(table)
    /\ over = NULL \/ Memory("loop") # {} => gone = {}

\* Nothing is dated after the end, or by a clock that has run out.
Timed ==
    /\ now <= WriterTime
    /\ \A r \in Memory("loop") \cup ToSet(made) :
          /\ ~IsStats(r) => 1 <= r.ts
          /\ over # NULL => r.ts <= over
    /\ over # NULL => heartbeat <= over /\ over <= now
    /\ ended # NULL => 1 <= ended /\ ended <= now

Undelayed == LoopOnly /\ Waiting /\ Prefixed /\ Timed

\* What a step of such a writer does with its rows.
Recorded ==
    \E row \in EventRows :
        /\ made' = Append(made, row) /\ over = NULL
        /\ row.by = "loop" /\ row.ts = now' /\ now' = now + 1

Carries ==
    /\ now <= now' /\ now' <= WriterTime
    /\ made' = made \/ Recorded
    /\ over' = over \/ (over = NULL /\ over' = now')
    /\ \A r \in Memory("loop")' :
          \/ r \in Memory("loop")
          \/ /\ over = NULL /\ r.ts <= now'
             /\ \/ IsStats(r)
                \/ r.ts = now + 1 /\ (r.op = "event" => r \in ToSet(made'))
    /\ ToSet(table) \subseteq ToSet(table')
    /\ \A s \in ToSet(table') : s \in ToSet(table) \/
          /\ s \in Memory("loop") /\ s.op = "event"
          /\ \A r \in ToSet(made) : r.ts <= s.ts => r \in ToSet(table')
    /\ heartbeat' = heartbeat \/ \E r \in Memory("loop") : heartbeat' = r.ts
    /\ ended' = ended \/ \E r \in Memory("loop") : ~IsStats(r) /\ ended' = r.ts
    /\ \/ gone' = gone
       \/ /\ Memory("loop")' = {} /\ over' # NULL
          /\ UNCHANGED <<made, table, heartbeat>>

LEMMA Carried ==
    ASSUME ~LockGivesUp, WriterInv, WriterInv', LoopOnly, LoopOnly', Prefixed, Timed, Carries
    PROVE  Prefixed' /\ Timed'
  <1> DEFINE M == ToSet(made)
             N == ToSet(made')
             L == Memory("loop")
             L1 == Memory("loop")'
             T == ToSet(table)
             T1 == ToSet(table')
  <1>1. /\ now \in Nat /\ now' \in Nat /\ heartbeat \in Nat /\ heartbeat' \in Nat
        /\ over \in Nat \cup {NULL} /\ over' \in Nat \cup {NULL}
        /\ ended \in Nat \cup {NULL} /\ ended' \in Nat \cup {NULL} /\ WriterTime \in Nat
        /\ NULL \notin Nat
    BY WriterAssumption DEF WriterInv, WriterTypeOK, WriterAssumption
  <1>2. /\ \A r \in M : r.op = "event" /\ r.ts \in Nat /\ r.ts <= now
        /\ \A r \in L \cup T : r.ts \in Nat /\ r.ts <= now
        /\ heartbeat <= now
    BY RowsAreRows DEF WriterInv, Delivery, Dated, Rowed, Everywhere
  <1>3. /\ \A r \in N : r.op = "event" /\ r.ts \in Nat /\ r.ts <= now' /\ r.by = "loop"
        /\ \A r \in L1 \cup T1 : r.ts \in Nat /\ r.ts <= now'
        /\ heartbeat' <= now'
        /\ \A r \in N : r.ts <= heartbeat' => r \in T1 \cup gone'
    <2>1. Rowed'
      BY RowsAreRows, PTL DEF WriterInv
    <2>2. exposed' = {}
      BY DEF WriterInv, Ordered
    <2> QED
      BY <2>1, <2>2 DEF WriterInv, Delivery, Dated, Rowed, Everywhere, Honest, Tells, Done, LoopOnly
  <1>4. \/ made' = made /\ N = M
        \/ /\ over = NULL /\ now' = now + 1
           /\ \E row \in EventRows : row.ts = now' /\ N = M \cup {row}
    <2>1. made \in Seq(EventRows)
      BY DEF WriterInv, WriterTypeOK
    <2>2. ASSUME NEW row \in EventRows, made' = Append(made, row) PROVE N = M \cup {row}
      BY <2>1, <2>2, AppendIs
    <2> QED
      BY <2>2 DEF Carries, Recorded
  <1>5. /\ now <= now' /\ now' <= WriterTime
        /\ over' = over \/ (over = NULL /\ over' = now')
        /\ \A r \in L1 : \/ r \in L
                         \/ /\ over = NULL /\ r.ts <= now'
                            /\ IsStats(r) \/ (r.ts = now + 1 /\ (r.op = "event" => r \in N))
        /\ T \subseteq T1
        /\ \A s \in T1 : s \in T \/
              (s \in L /\ s.op = "event" /\ \A r \in M : r.ts <= s.ts => r \in T1)
        /\ heartbeat' = heartbeat \/ \E r \in L : heartbeat' = r.ts
        /\ ended' = ended \/ \E r \in L : ~IsStats(r) /\ ended' = r.ts
    BY DEF Carries
  <1>6. \/ gone' = gone
        \/ L1 = {} /\ over' # NULL /\ N = M /\ T1 = T /\ heartbeat' = heartbeat
    BY DEF Carries
  <1>7. /\ \A r \in T \cup L : r.op = "event" => r \in M
        /\ \A s \in T, r \in M : r.ts <= s.ts => r \in T
        /\ \A r \in M : r.ts <= heartbeat => r \in T
        /\ over = NULL \/ L # {} => gone = {}
    BY DEF Prefixed
  <1>8. /\ \A r \in L \cup M : (~IsStats(r) => 1 <= r.ts) /\ (over # NULL => r.ts <= over)
        /\ over # NULL => heartbeat <= over /\ over <= now
        /\ ended # NULL => 1 <= ended /\ ended <= now
    BY DEF Timed
  <1> HIDE DEF M, N, L, L1, T, T1
  <1>9. \A r \in T1 \cup L1 : r.op = "event" => r \in N
    <2>1. M \subseteq N
      BY <1>4
    <2> QED
      BY <1>5, <1>7, <2>1 DEF IsStats
  <1>10. ASSUME NEW s \in T1, NEW r \in N, r.ts <= s.ts PROVE r \in T1
    <2>1. s \in T \cup L /\ s.ts <= now
      BY <1>2, <1>5
    <2>2. r \in M
      BY <1>1, <1>2, <1>3, <1>4, <1>10, <2>1
    <2> QED
      BY <1>5, <1>7, <1>10, <2>2
  <1>11. over' = NULL \/ L1 # {} => gone' = {}
    BY <1>1, <1>5, <1>6, <1>7
  <1>12. ASSUME NEW r \in N, r.ts <= heartbeat' PROVE r \in T1
    <2>1. CASE gone' = {}
      BY <1>3, <1>12, <2>1
    <2>2. CASE gone' = gone /\ gone # {}
      <3>1. over # NULL /\ L = {}
        BY <1>7, <2>2
      <3>2. N = M /\ heartbeat' = heartbeat
        BY <1>4, <1>5, <3>1
      <3> QED
        BY <1>5, <1>7, <1>12, <3>2
    <2>3. CASE gone' # gone
      BY <1>6, <1>7, <1>12, <2>3
    <2> QED
      BY <2>1, <2>2, <2>3
  <1>13. Prefixed'
    BY <1>9, <1>10, <1>11, <1>12 DEF Prefixed, N, T1, L1
  <1>14. ASSUME NEW r \in L1 \cup N
         PROVE  (~IsStats(r) => 1 <= r.ts) /\ (over' # NULL => r.ts <= over')
    <2>1. CASE r \in L \cup M
      BY <1>1, <1>2, <1>5, <1>8, <2>1
    <2>2. CASE r \notin L \cup M
      BY <1>1, <1>3, <1>4, <1>5, <1>14, <2>2
    <2> QED
      BY <2>1, <2>2
  <1>15. over' # NULL => heartbeat' <= over' /\ over' <= now'
    BY <1>1, <1>2, <1>3, <1>5, <1>8
  <1>16. ended' # NULL => 1 <= ended' /\ ended' <= now'
    BY <1>1, <1>2, <1>5, <1>8
  <1>17. Timed'
    BY <1>5, <1>14, <1>15, <1>16 DEF Timed, N, L1
  <1> QED
    BY <1>13, <1>17

\* A list stays in turn as later rows go to its end.
LEMMA TurnsJoined ==
    ASSUME NEW a \in Seq(Rows), NEW b \in Seq(Rows), InTurn(a), InTurn(b), Before(ToSet(a), ToSet(b))
    PROVE  InTurn(a \o b)
  <1> DEFINE c == a \o b
  <1>1. \A i \in DOMAIN c :
           /\ i \in Nat
           /\ IF i \in DOMAIN a THEN c[i] = a[i]
              ELSE i - Len(a) \in DOMAIN b /\ c[i] = b[i - Len(a)]
    OBVIOUS
  <1>2. \A i, j \in DOMAIN c : i < j /\ j \in DOMAIN a => i \in DOMAIN a
    OBVIOUS
  <1>3. Len(a) \in Nat
    OBVIOUS
  <1> HIDE DEF c
  <1>4. ASSUME NEW i \in DOMAIN c, NEW j \in DOMAIN c, i < j
        PROVE  Before({c[i]}, {c[j]})
    <2>1. CASE j \in DOMAIN a
      BY <1>1, <1>2, <1>4, <2>1 DEF InTurn
    <2>2. CASE i \in DOMAIN a /\ j \notin DOMAIN a
      BY <1>1, <2>2 DEF Before, ToSet
    <2>3. CASE i \notin DOMAIN a
      <3>1. j \notin DOMAIN a /\ i - Len(a) < j - Len(a)
        BY <1>1, <1>2, <1>3, <1>4, <2>3
      <3> QED
        BY <1>1, <2>3, <3>1 DEF InTurn
    <2> QED
      BY <2>1, <2>2, <2>3
  <1> QED
    BY <1>4 DEF InTurn, c

LEMMA TurnAppended ==
    ASSUME NEW list \in Seq(Rows), NEW row \in Rows, InTurn(list),
           \A r \in ToSet(list) : r.op = "event" => r.ts < row.ts
    PROVE  InTurn(Append(list, row))
  <1> DEFINE one == <<row>>
  <1>1. one \in Seq(Rows) /\ ToSet(one) = {row} /\ InTurn(one) /\ Append(list, row) = list \o one
    BY DEF ToSet, InTurn
  <1> HIDE DEF one
  <1>2. Before(ToSet(list), ToSet(one))
    BY <1>1 DEF Before
  <1> QED
    BY <1>1, <1>2, TurnsJoined

\* In such a writer the loop's memory is all there is.
LEMMA AllIsMemory ==
    ASSUME WriterInv, Undelayed
    PROVE  /\ OnFile = {} /\ Memory("cli") = {}
           /\ Memory("loop") # {} => Done = ToSet(table) \cup exposed
           /\ \A r \in Memory("loop") \cup ToSet(table) \cup ToSet(made) : r.ts \in Nat /\ r.ts <= now
           /\ \A r \in Memory("loop") : r \in Rows
           /\ now \in Nat /\ over \in Nat \cup {NULL} /\ NULL \notin Nat
  <1>1. OnFile = {} /\ Memory("cli") = {}
    BY DEF Undelayed, LoopOnly, OnFile, Memory, HeldBy, ToSet
  <1>2. Memory("loop") # {} => Done = ToSet(table) \cup exposed
    BY DEF Undelayed, Prefixed, Done
  <1>3. /\ \A r \in Memory("loop") \cup ToSet(table) \cup ToSet(made) : r.ts \in Nat /\ r.ts <= now
        /\ \A r \in Memory("loop") : r \in Rows
    BY RowsAreRows DEF WriterInv, Delivery, Dated, Rowed, Everywhere
  <1>4. now \in Nat /\ over \in Nat \cup {NULL} /\ NULL \notin Nat
    BY WriterAssumption DEF WriterInv, WriterTypeOK, WriterAssumption
  <1> QED
    BY <1>1, <1>2, <1>3, <1>4

LEMMA RecordCarries ==
    ASSUME WriterInv, Undelayed, NEW type \in Types, RecordEvent(type)
    PROVE  LoopOnly' /\ Waiting' /\ Carries
  <1> DEFINE row == EventRow("loop", now + 1, type)
             old == buffer["loop"]
  <1>1. /\ flight["loop"] = NULL /\ over = NULL
        /\ now < WriterTime /\ made' = Append(made, row) /\ now' = now + 1
        /\ buffer' = [buffer EXCEPT !["loop"] = Append(@, row)]
        /\ UNCHANGED <<table, heartbeat, ended, over, queue, lock, flight, gone>>
    BY DEF RecordEvent, Make, Made, CanRecord, Running, Idle, published
  <1>2. /\ buffer \in [Processes -> Seq(Rows)] /\ old \in Seq(Rows)
        /\ made \in Seq(EventRows) /\ made \in Seq(Rows)
        /\ row \in EventRows /\ row \in Rows /\ row.by = "loop" /\ row.ts = now + 1 /\ row.op = "event"
    <2>1. made \in Seq(EventRows) /\ EventRows \subseteq Rows
      BY RowTypes DEF WriterInv, WriterTypeOK
    <2>2. made \in Seq(Rows)
      BY <2>1
    <2> QED
      BY <2>1, <2>2, NewRow, TwoProcesses DEF WriterInv, WriterTypeOK
  <1>3. /\ now \in Nat
        /\ \A r \in Memory("loop") \cup ToSet(made) : r.ts \in Nat /\ r.ts <= now
    BY AllIsMemory
  <1>4. buffer'["loop"] = Append(old, row) /\ buffer'["cli"] = buffer["cli"]
        /\ ToSet(old) \subseteq Memory("loop")
    BY <1>1, <1>2, TwoProcesses DEF Memory
  <1> HIDE DEF row, old
  <1>5. /\ ToSet(made') = ToSet(made) \cup {row} /\ ToSet(buffer'["loop"]) = ToSet(old) \cup {row}
    <2>1. ToSet(Append(made, row)) = ToSet(made) \cup {row}
      BY <1>2, AppendIs
    <2>2. ToSet(Append(old, row)) = ToSet(old) \cup {row}
      BY <1>2, AppendIs
    <2> QED
      BY <1>1, <1>4, <2>1, <2>2
  <1>6. InTurn(made') /\ InTurn(buffer'["loop"])
    <2>1. \A r \in ToSet(made) \cup ToSet(old) : r.ts < row.ts
      BY <1>2, <1>3, <1>4
    <2>2. InTurn(made) /\ InTurn(old)
      BY DEF Undelayed, Waiting, old
    <2> QED
      BY <1>1, <1>2, <1>4, <2>1, <2>2, TurnAppended
  <1>7. LoopOnly'
    BY <1>1, <1>2, <1>4, <1>5 DEF Undelayed, LoopOnly
  <1>8. Waiting'
    BY <1>1, <1>6 DEF Waiting, At
  <1>9. Memory("loop")' \subseteq Memory("loop") \cup {row}
    BY <1>1, <1>4, <1>5 DEF Memory, HeldBy
  <1>10. WriterTime \in Nat
    BY WriterAssumption DEF WriterAssumption
  <1>11. Recorded
    BY <1>1, <1>2 DEF Recorded
  <1> QED
    BY <1>1, <1>2, <1>3, <1>5, <1>7, <1>8, <1>9, <1>10, <1>11 DEF Carries

LEMMA HeartbeatCarries ==
    ASSUME WriterInv, Undelayed, Heartbeat
    PROVE  LoopOnly' /\ Waiting' /\ Carries
  <1> DEFINE old == buffer["loop"]
             stats == {i \in DOMAIN old : IsStats(old[i])}
             row == StatsRow(now)
             new == IF stats = {} THEN Append(old, row)
                    ELSE [old EXCEPT ![CHOOSE i \in stats : TRUE] = row]
  <1>1. /\ UNCHANGED <<now, made, table, heartbeat, ended, over, queue, lock, flight, gone>>
        /\ over = NULL /\ flight["loop"] = NULL
        /\ buffer' = [buffer EXCEPT !["loop"] = new]
    BY DEF Heartbeat, Running, Idle, published
  <1>2. /\ buffer \in [Processes -> Seq(Rows)] /\ old \in Seq(Rows)
        /\ row \in Rows /\ row.op = "stats" /\ row.ts = now /\ now \in Nat
    BY RowTypes, TwoProcesses DEF WriterInv, WriterTypeOK, StatsRow
  <1> HIDE DEF row
  <1>3. /\ buffer'["loop"] = new /\ buffer'["cli"] = buffer["cli"]
        /\ ToSet(buffer'["loop"]) \subseteq ToSet(old) \cup {row}
    BY <1>1, <1>2, HeartbeatDoes, TwoProcesses DEF WriterInv, row
  <1>4. InTurn(old)
    BY DEF Undelayed, Waiting
  <1> HIDE DEF old
  <1>5. /\ DOMAIN new \subseteq Nat
        /\ \A i \in DOMAIN new : new[i].op = "event" => i \in DOMAIN old /\ new[i] = old[i]
    <2>1. CASE stats = {}
      BY <1>2, <2>1
    <2>2. CASE stats # {}
      <3> DEFINE at == CHOOSE i \in stats : TRUE
      <3>1. at \in DOMAIN old
        BY <2>2
      <3> HIDE DEF at
      <3>2. new = [old EXCEPT ![at] = row]
        BY <2>2 DEF at
      <3> QED
        BY <1>2, <3>1, <3>2
    <2> QED
      BY <2>1, <2>2
  <1> HIDE DEF new
  <1>6. InTurn(new)
    BY <1>4, <1>5 DEF InTurn, Before
  <1>7. LoopOnly' /\ Waiting'
    BY <1>1, <1>3, <1>6 DEF Undelayed, LoopOnly, Waiting, At
  <1>8. Memory("loop")' \subseteq Memory("loop") \cup {row}
    BY <1>1, <1>3 DEF Memory, HeldBy, old
  <1>9. now <= WriterTime
    BY DEF Undelayed, Timed
  <1> QED
    BY <1>1, <1>2, <1>7, <1>8, <1>9 DEF Carries, IsStats

LEMMA StopCarries ==
    ASSUME WriterInv, Undelayed, Stop
    PROVE  LoopOnly' /\ Waiting' /\ Carries
  <1> DEFINE row == EventRow("loop", now + 1, "end")
             end == EndRow(now + 1)
             old == buffer["loop"]
             held == old \o <<row, end>>
             f == [pc |-> "enter", runs |-> <<>>, ok |-> TRUE, remaining |-> <<>>, final |-> TRUE,
                   held |-> held]
  <1>1. /\ flight["loop"] = NULL /\ over = NULL /\ over' = now + 1
        /\ now < WriterTime /\ made' = Append(made, row) /\ now' = now + 1
        /\ flight' = [flight EXCEPT !["loop"] = f]
        /\ buffer' = [buffer EXCEPT !["loop"] = <<>>]
        /\ UNCHANGED <<table, heartbeat, ended, queue, gone>>
    BY DEF Stop, Make, Made, Running, Idle, published
  <1>2. /\ buffer \in [Processes -> Seq(Rows)] /\ flight \in [Processes -> Flights \cup {NULL}]
        /\ old \in Seq(Rows) /\ made \in Seq(EventRows) /\ made \in Seq(Rows)
        /\ row \in EventRows /\ row \in Rows /\ row.by = "loop" /\ row.ts = now + 1 /\ row.op = "event"
    <2>1. made \in Seq(EventRows) /\ EventRows \subseteq Rows
      BY RowTypes DEF WriterInv, WriterTypeOK
    <2>2. made \in Seq(Rows)
      BY <2>1
    <2> QED
      BY <2>1, <2>2, NewRow, TwoProcesses DEF WriterInv, WriterTypeOK, Types
  <1>3. end \in Rows /\ end.op = "session" /\ end.ts = now + 1
    <2>1. now + 1 \in Nat
      BY DEF WriterInv, WriterTypeOK
    <2> QED
      BY <2>1, RowTypes DEF EndRow
  <1>4. /\ now \in Nat
        /\ \A r \in Memory("loop") \cup ToSet(made) : r.ts \in Nat /\ r.ts <= now
        /\ ToSet(old) \subseteq Memory("loop")
    BY AllIsMemory DEF Memory
  <1> HIDE DEF row, end, old
  <1>5. held \in Seq(Rows) /\ ToSet(held) = ToSet(old) \cup {row, end} /\ InTurn(held)
    <2> DEFINE two == <<row, end>>
    <2>1. two \in Seq(Rows) /\ ToSet(two) = {row, end}
      BY <1>2, <1>3 DEF ToSet
    <2>2. InTurn(two)
      BY <1>2, <1>3 DEF InTurn, Before
    <2> HIDE DEF two
    <2>3. held = old \o two
      BY DEF two
    <2> HIDE DEF held
    <2>4. Before(ToSet(old), ToSet(two))
      BY <1>2, <1>3, <1>4, <2>1 DEF Before
    <2>5. InTurn(old)
      BY DEF Undelayed, Waiting, old
    <2>6. InTurn(old \o two)
      BY <1>2, <2>1, <2>2, <2>4, <2>5, TurnsJoined
    <2>7. old \o two \in Seq(Rows) /\ ToSet(old \o two) = ToSet(old) \cup ToSet(two)
      BY <1>2, <2>1, Joined
    <2> QED
      BY <2>1, <2>3, <2>6, <2>7
  <1>6. f.pc = "enter" /\ f.held = held /\ f # NULL /\ f.ok
    <2>1. f \in Flights
      BY <1>5 DEF Flights
    <2> HIDE DEF f
    <2>2. f # NULL
      BY <2>1, FlightTypes
    <2> QED
      BY <2>2 DEF f
  <1> HIDE DEF f, held
  <1>7. flight'["loop"] = f /\ flight'["cli"] = flight["cli"]
        /\ buffer'["loop"] = <<>> /\ buffer'["cli"] = buffer["cli"]
    BY <1>1, <1>2, TwoProcesses
  <1>8. ToSet(made') = ToSet(made) \cup {row} /\ InTurn(made')
    <2>1. \A r \in ToSet(made) : r.ts < row.ts
      BY <1>2, <1>4
    <2>2. InTurn(made)
      BY DEF Undelayed, Waiting
    <2> QED
      BY <1>1, <1>2, <2>1, <2>2, AppendIs, TurnAppended
  <1>9. LoopOnly'
    BY <1>1, <1>2, <1>7, <1>8 DEF Undelayed, LoopOnly
  <1>10. Waiting'
    <2>1. InTurn(buffer'["loop"])
      BY <1>7 DEF InTurn
    <2> QED
      BY <1>5, <1>6, <1>7, <1>8, <2>1 DEF Waiting, At
  <1>11. Memory("loop")' \subseteq Memory("loop") \cup {row, end}
    <2>1. Memory("loop")' = ToSet(held)
      BY <1>6, <1>7 DEF Memory, HeldBy, ToSet
    <2> QED
      BY <1>4, <1>5, <2>1
  <1>12. Recorded
    BY <1>1, <1>2 DEF Recorded
  <1>13. WriterTime \in Nat
    BY WriterAssumption DEF WriterAssumption
  <1> QED
    BY <1>1, <1>2, <1>3, <1>4, <1>8, <1>9, <1>10, <1>11, <1>12, <1>13 DEF Carries

LEMMA CrashCarries ==
    ASSUME WriterInv, Undelayed, Crash
    PROVE  LoopOnly' /\ Waiting' /\ Carries
  <1>1. /\ flight' = [flight EXCEPT !["loop"] = NULL] /\ buffer' = [buffer EXCEPT !["loop"] = <<>>]
        /\ over = NULL /\ over' = now
        /\ UNCHANGED <<now, made, table, heartbeat, ended, queue>>
    BY DEF Crash, published
  <1>2. flight'["loop"] = NULL /\ flight'["cli"] = flight["cli"]
        /\ buffer'["loop"] = <<>> /\ buffer'["cli"] = buffer["cli"]
    BY <1>1, TwoProcesses DEF WriterInv, WriterTypeOK
  <1>3. LoopOnly'
    BY <1>1, <1>2 DEF Undelayed, LoopOnly
  <1>4. Waiting'
    <2>1. InTurn(buffer'["loop"])
      BY <1>2 DEF InTurn
    <2> QED
      BY <1>1, <1>2, <2>1 DEF Undelayed, Waiting, At
  <1>5. Memory("loop")' = {}
    BY <1>2 DEF Memory, HeldBy, ToSet
  <1>6. now \in Nat /\ now <= WriterTime /\ NULL \notin Nat
    BY AllIsMemory DEF Undelayed, Timed
  <1> QED
    BY <1>1, <1>3, <1>4, <1>5, <1>6 DEF Carries

LEMMA IdleCarries ==
    ASSUME WriterInv, Undelayed, Tick \/ UNCHANGED writerVars
    PROVE  LoopOnly' /\ Waiting' /\ Carries
  <1>1. /\ UNCHANGED <<made, table, heartbeat, ended, over, buffer, queue, flight, gone>>
        /\ (now' = now + 1 /\ now < WriterTime) \/ now' = now
    BY DEF Tick, writerVars, published
  <1>2. now \in Nat /\ now <= WriterTime /\ WriterTime \in Nat
    BY AllIsMemory, WriterAssumption DEF Undelayed, Timed, WriterAssumption
  <1>3. LoopOnly' /\ Waiting'
    BY <1>1 DEF Undelayed, LoopOnly, Waiting, At
  <1>4. Memory("loop")' = Memory("loop")
    BY <1>1 DEF Memory, HeldBy
  <1> QED
    BY <1>1, <1>2, <1>3, <1>4 DEF Carries

LEMMA StartCarries ==
    ASSUME WriterInv, Undelayed, FlushStart("loop")
    PROVE  LoopOnly' /\ Waiting' /\ Carries
  <1> DEFINE f == [pc |-> "enter", runs |-> <<>>, ok |-> TRUE, remaining |-> <<>>, final |-> "loop" = "cli",
                   held |-> buffer["loop"]]
  <1>1. /\ flight["loop"] = NULL
        /\ flight' = [flight EXCEPT !["loop"] = f] /\ buffer' = [buffer EXCEPT !["loop"] = <<>>]
        /\ UNCHANGED <<now, made, table, heartbeat, ended, over, queue, gone>>
    BY DEF FlushStart, Idle, published
  <1>2. /\ buffer \in [Processes -> Seq(Rows)] /\ flight \in [Processes -> Flights \cup {NULL}]
    BY DEF WriterInv, WriterTypeOK
  <1>3. f.pc = "enter" /\ f.held = buffer["loop"] /\ f # NULL /\ f.ok
    <2>1. buffer["loop"] \in Seq(Rows) /\ ("loop" = "cli") \in BOOLEAN
      BY <1>2, TwoProcesses
    <2>2. f \in Flights
      BY <2>1 DEF Flights
    <2> HIDE DEF f
    <2>3. f # NULL
      BY <2>2, FlightTypes
    <2> QED
      BY <2>3 DEF f
  <1> HIDE DEF f
  <1>4. flight'["loop"] = f /\ flight'["cli"] = flight["cli"]
        /\ buffer'["loop"] = <<>> /\ buffer'["cli"] = buffer["cli"]
    BY <1>1, <1>2, TwoProcesses
  <1>5. LoopOnly'
    BY <1>1, <1>4 DEF Undelayed, LoopOnly
  <1>6. Waiting'
    <2>1. InTurn(buffer'["loop"])
      BY <1>4 DEF InTurn
    <2>2. InTurn(made') /\ InTurn(buffer["loop"])
      BY <1>1 DEF Undelayed, Waiting
    <2> QED
      BY <1>3, <1>4, <2>1, <2>2 DEF Waiting, At
  <1>7. Memory("loop")' = Memory("loop")
    BY <1>1, <1>3, <1>4 DEF Memory, HeldBy, ToSet
  <1>8. now \in Nat /\ now <= WriterTime
    BY AllIsMemory DEF Undelayed, Timed
  <1> QED
    BY <1>1, <1>5, <1>6, <1>7, <1>8 DEF Carries

LEMMA EnterCarries ==
    ASSUME WriterInv, Undelayed, FlushEnter("loop")
    PROVE  LoopOnly' /\ Waiting' /\ Carries
  <1> DEFINE f == flight["loop"]
             rows == queue \o f.held
             plan == StatsLast(Runs(CoalesceStats(rows)))
             g == [f EXCEPT !.pc = "send", !.runs = plan]
  <1>1. /\ At("loop", "enter")
        /\ flight' = [flight EXCEPT !["loop"].pc = "send", !["loop"].runs = plan]
        /\ UNCHANGED <<now, made, table, heartbeat, ended, over, buffer, queue, gone>>
    BY DEF FlushEnter, published
  <1>2. flight \in [Processes -> Flights \cup {NULL}] /\ queue = <<>>
    BY DEF WriterInv, WriterTypeOK, Undelayed, LoopOnly
  <1>3. /\ f \in Flights /\ f.held \in Seq(Rows) /\ InTurn(f.held)
        /\ f.remaining = <<>> /\ f.ok /\ f # NULL
    <2>1. f \in Flights /\ f # NULL
      BY <1>1, <1>2, TwoProcesses DEF At
    <2>2. f.remaining = <<>>
      BY <1>1, TwoProcesses DEF WriterInv, Ordered
    <2>3. InTurn(f.held) /\ f.ok
      BY <1>1 DEF Undelayed, Waiting
    <2> QED
      BY <2>1, <2>2, <2>3, FlightTypes
  <1>4. rows \in Seq(Rows) /\ InTurn(rows)
    BY <1>2, <1>3
  <1> HIDE DEF rows
  <1>5. plan \in Seq(Seq(Rows)) /\ RunsInTurn(plan)
    BY <1>4, Planned, PlannedInTurn
  <1> HIDE DEF plan
  <1>6. flight' = [flight EXCEPT !["loop"] = g]
    BY <1>1, <1>2, TwoProcesses
  <1> HIDE DEF f
  <1>7. /\ g.pc = "send" /\ g.runs = plan /\ g.remaining = f.remaining /\ g.held = f.held
        /\ g.ok = f.ok /\ g # NULL
    <2>1. g \in Flights
      BY <1>3, <1>5 DEF Flights
    <2>2. /\ g.pc = "send" /\ g.runs = plan /\ g.remaining = f.remaining /\ g.held = f.held
          /\ g.ok = f.ok
      BY <1>3 DEF Flights
    <2> HIDE DEF g
    <2> QED
      BY <2>1, <2>2, FlightTypes
  <1> HIDE DEF g
  <1>8. flight'["loop"] = g /\ flight'["cli"] = flight["cli"]
    BY <1>2, <1>6, TwoProcesses
  <1>9. LoopOnly'
    BY <1>1, <1>8 DEF Undelayed, LoopOnly
  <1>10. Waiting'
    <2>1. InTurn(made') /\ InTurn(buffer'["loop"])
      BY <1>1 DEF Undelayed, Waiting
    <2> QED
      BY <1>3, <1>5, <1>7, <1>8, <2>1 DEF Waiting, At
  <1>11. Memory("loop")' = Memory("loop")
    BY <1>1, <1>3, <1>7, <1>8 DEF Memory, HeldBy, f
  <1>12. now \in Nat /\ now <= WriterTime
    BY AllIsMemory DEF Undelayed, Timed
  <1> QED
    BY <1>1, <1>9, <1>10, <1>11, <1>12 DEF Carries

LEMMA EndCarries ==
    ASSUME MaxFaults = 0, WriterInv, Undelayed, FlushEnd("loop")
    PROVE  LoopOnly' /\ Waiting' /\ Carries
  <1>1. faults \in Nat
    BY DEF WriterInv, WriterTypeOK
  <1>2. /\ At("loop", "send") /\ flight["loop"].runs = <<>>
        /\ flight' = [flight EXCEPT !["loop"] = NULL] /\ queue' = flight["loop"].remaining
        /\ UNCHANGED <<now, made, table, heartbeat, ended, over, buffer, gone>>
    BY <1>1 DEF FlushEnd, LeaveFile, Fault, published
  <1>3. flight["loop"].remaining = <<>>
    BY <1>2 DEF Undelayed, Waiting
  <1>4. flight'["loop"] = NULL /\ flight'["cli"] = flight["cli"]
    BY <1>2, TwoProcesses DEF WriterInv, WriterTypeOK
  <1>5. LoopOnly'
    BY <1>2, <1>3, <1>4 DEF Undelayed, LoopOnly
  <1>6. Waiting'
    BY <1>2, <1>4 DEF Undelayed, Waiting, At
  <1>7. Memory("loop")' \subseteq Memory("loop")
    BY <1>2, <1>4 DEF Memory, HeldBy
  <1>8. now \in Nat /\ now <= WriterTime
    BY AllIsMemory DEF Undelayed, Timed
  <1> QED
    BY <1>2, <1>5, <1>6, <1>7, <1>8 DEF Carries

LEMMA RunCarries ==
    ASSUME MaxFaults = 0, ~LockGivesUp, WriterInv, WriterInv', Undelayed, FlushRun("loop")
    PROVE  LoopOnly' /\ Waiting' /\ Carries
  <1> DEFINE f == flight["loop"]
             run == Head(f.runs)
             rest == Tail(f.runs)
  <1>1. /\ At("loop", "send") /\ f \in Flights /\ f # NULL /\ f.runs # <<>> /\ NextRun("loop") = run
        /\ faults \in Nat
    BY TwoProcesses DEF FlushRun, At, NextRun, WriterInv, WriterTypeOK
  <1>2. f.ok /\ f.remaining = <<>> /\ RunsInTurn(f.runs)
    BY <1>1 DEF Undelayed, Waiting
  <1>3. Landed(run) /\ Onward("loop", <<>>, f.ok)
        /\ UNCHANGED <<now, made, over, buffer, queue, gone>>
    <2>1. ~Outage("loop") /\ ~HeldBack("loop")
      BY <1>1, <1>2 DEF Outage, Fault, HeldBack
    <2> QED
      BY <1>1, <2>1 DEF FlushRun
  <1>4. /\ buffer["loop"] = <<>> /\ Sound("loop") /\ f.runs \in Seq(Seq(Rows))
        /\ WriterTypeOK
    BY <1>1, FlightTypes, TwoProcesses DEF WriterInv, Ordered, Sending
  <1>5. /\ run = f.runs[1] /\ 1 \in DOMAIN f.runs /\ run \in Seq(Rows) /\ rest \in Seq(Seq(Rows))
        /\ \A k \in DOMAIN rest : k \in Nat /\ k + 1 \in DOMAIN f.runs /\ rest[k] = f.runs[k + 1]
        /\ InRuns(f.runs) = ToSet(run) \cup InRuns(rest)
    BY <1>1, <1>4, HeadAndTail
  <1>6. /\ flight'["loop"].runs = rest /\ flight'["loop"].remaining = <<>>
        /\ flight'["loop"].ok = f.ok /\ flight'["loop"].pc = f.pc /\ flight'["loop"].held = f.held
        /\ flight'["loop"] \in Flights /\ flight'["cli"] = flight["cli"]
    <2> DEFINE none == <<>>
    <2>1. none \in Seq(Rows) /\ f.ok \in BOOLEAN /\ f.remaining \o none = none
      BY <1>1, <1>2, FlightTypes
    <2>2. Onward("loop", none, f.ok)
      BY <1>3
    <2> DEFINE ok == f.ok
    <2>3. "loop" \in Processes /\ flight["loop"] \in Flights /\ flight["loop"].runs # <<>>
      BY <1>1, TwoProcesses
    <2>4. ok \in BOOLEAN /\ Onward("loop", none, ok)
      BY <2>1, <2>2
    <2> HIDE DEF none, ok
    <2>5. /\ flight'["loop"] \in Flights
          /\ \A q \in Processes \ {"loop"} : flight'[q] = flight[q]
          /\ flight'["loop"].runs = Tail(flight["loop"].runs)
          /\ flight'["loop"].remaining = flight["loop"].remaining \o none
          /\ flight'["loop"].ok = ok /\ flight'["loop"].pc = flight["loop"].pc
          /\ flight'["loop"].held = flight["loop"].held
      BY <1>4, <2>1, <2>3, <2>4, OnwardDoes
    <2>6. "cli" \in Processes \ {"loop"}
      BY TwoProcesses
    <2> QED
      BY <2>1, <2>5, <2>6 DEF none, ok
  <1> HIDE DEF run, rest
  <1>7. flight'["loop"] # NULL
    BY <1>6, FlightTypes
  <1>8. LoopOnly'
    BY <1>3, <1>6 DEF Undelayed, LoopOnly
  <1>9. Waiting'
    <2>1. RunsInTurn(rest)
      <3> SUFFICES ASSUME NEW k \in DOMAIN rest, NEW l \in DOMAIN rest, k < l
                   PROVE  Before(ToSet(rest[k]), ToSet(rest[l]))
        BY DEF RunsInTurn
      <3>1. k + 1 \in DOMAIN f.runs /\ l + 1 \in DOMAIN f.runs /\ k + 1 < l + 1
        BY <1>5
      <3>2. Before(ToSet(f.runs[k + 1]), ToSet(f.runs[l + 1]))
        BY <1>2, <3>1 DEF RunsInTurn
      <3> QED
        BY <1>5, <3>2
    <2>2. InTurn(made') /\ InTurn(buffer'["loop"])
      BY <1>3 DEF Undelayed, Waiting
    <2>3. f.pc = "send"
      BY <1>1 DEF At
    <2> QED
      BY <1>2, <1>6, <2>1, <2>2, <2>3 DEF Waiting, At
  <1>10. /\ Memory("loop")' = Memory("loop") /\ Memory("loop") = HeldBy("loop")
    BY <1>1, <1>3, <1>4, <1>6, <1>7 DEF Memory, HeldBy, ToSet
  <1>11. ToSet(run) \subseteq Memory("loop")
    BY <1>1, <1>2, <1>4, <1>5, <1>10, AllIsMemory, Locked, TwoProcesses DEF Unsent
  <1>12. /\ ToSet(table') = ToSet(table) \cup {r \in ToSet(run) : r.op = "event"}
         /\ heartbeat' = heartbeat \/ \E r \in ToSet(run) : IsStats(r) /\ heartbeat' = r.ts
    BY <1>3, <1>4, <1>5, LandedDoes
  <1>13. ended' = ended \/ \E r \in ToSet(run) : ~IsStats(r) /\ ended' = r.ts
    <2>1. ended' = IF \E i \in DOMAIN run : run[i].op = "session"
                   THEN (CHOOSE r \in ToSet(run) : r.op = "session").ts ELSE ended
      BY <1>3 DEF Landed
    <2>2. ASSUME NEW i \in DOMAIN run, run[i].op = "session"
          PROVE  \E r \in ToSet(run) : ~IsStats(r) /\ ended' = r.ts
      <3>1. run[i] \in ToSet(run)
        BY DEF ToSet
      <3> DEFINE c == CHOOSE r \in ToSet(run) : r.op = "session"
      <3>2. c \in ToSet(run) /\ c.op = "session"
        BY <2>2, <3>1
      <3> QED
        BY <2>1, <2>2, <3>2 DEF IsStats
    <2> QED
      BY <2>1, <2>2
  <1>14. ASSUME NEW s \in ToSet(run), s.op = "event", NEW r \in ToSet(made), r.ts <= s.ts
         PROVE  r \in ToSet(table')
    <2>1. Memory("loop") # {}
      BY <1>11
    <2>2. r \in ToSet(table) \cup HeldBy("loop") /\ r.op = "event"
      <3>1. ToSet(made) \subseteq Done \cup OnFile \cup Memory("loop") \cup Memory("cli")
        BY DEF WriterInv, Delivery, Kept
      <3>2. r.op = "event"
        BY RowsAreRows DEF WriterInv, Rowed
      <3> QED
        BY <1>10, <2>1, <3>1, <3>2, AllIsMemory, Locked
    <2>3. r \in ToSet(table) \cup ToSet(run) \cup InRuns(rest)
      <3>1. Over(OnFile \cup HeldBy("loop"), ToSet(table) \cup Unsent("loop"))
        BY <1>1, Locked, TwoProcesses
      <3>2. Unsent("loop") = ToSet(run) \cup InRuns(rest)
        BY <1>2, <1>5 DEF Unsent, ToSet
      <3> QED
        BY <2>2, <3>1, <3>2 DEF Over
    <2>4. ASSUME r \in InRuns(rest) PROVE FALSE
      <3>1. PICK k \in DOMAIN rest : r \in ToSet(rest[k])
        BY <2>4 DEF InRuns
      <3>2. k + 1 \in DOMAIN f.runs /\ 1 < k + 1 /\ rest[k] = f.runs[k + 1]
        BY <1>5
      <3>3. Before(ToSet(run), ToSet(rest[k]))
        BY <1>2, <1>5, <3>2 DEF RunsInTurn
      <3>4. s.ts < r.ts /\ s.ts \in Nat /\ r.ts \in Nat
        BY <1>11, <1>14, <2>2, <3>1, <3>3, AllIsMemory DEF Before
      <3> QED
        BY <1>14, <3>4
    <2> QED
      BY <1>12, <2>2, <2>3, <2>4
  <1>15. now \in Nat /\ now <= WriterTime
    BY AllIsMemory DEF Undelayed, Timed
  <1> QED
    BY <1>3, <1>8, <1>9, <1>10, <1>11, <1>12, <1>13, <1>14, <1>15 DEF Carries

\* In that order everything arrives, whenever the loop dies.
LEMMA StaysUndelayed ==
    ASSUME Undisturbed, WriterInv, Undelayed, [WriterNext]_writerVars
    PROVE  WriterInv' /\ Undelayed' /\ Carries
  <1>1. WriterInv'
    BY StepUpheld DEF Undisturbed
  <1>2. LoopOnly' /\ Waiting' /\ Carries
    <2>1. CASE \E type \in Types : RecordEvent(type)
      BY <2>1, RecordCarries
    <2>2. ~(\E type \in Types : InsertEventNow(type)) /\ ~PostEvent
      BY DEF Undisturbed, InsertEventNow, PostEvent
    <2>3. CASE Heartbeat
      BY <2>3, HeartbeatCarries
    <2>4. CASE Stop
      BY <2>4, StopCarries
    <2>5. CASE Crash
      BY <2>5, CrashCarries
    <2>6. CASE Tick \/ UNCHANGED writerVars
      BY <2>6, IdleCarries
    <2>7. ~Flush("cli")
      BY DEF Undelayed, LoopOnly, Flush, FlushStart, HasWork, FlushEnter, FlushRefused, FlushRun,
             FlushEnd, At
    <2>8. CASE Flush("loop")
      <3>1. ~FlushRefused("loop")
        BY DEF FlushRefused, Fault, Undisturbed, WriterInv, WriterTypeOK
      <3> QED
        BY <1>1, <2>8, <3>1, StartCarries, EnterCarries, RunCarries, EndCarries
           DEF Flush, Undisturbed
    <2> QED
      BY <2>1, <2>2, <2>3, <2>4, <2>5, <2>6, <2>7, <2>8, TwoProcesses DEF WriterNext
  <1>3. Prefixed' /\ Timed'
    BY <1>1, <1>2, Carried DEF Undelayed, Undisturbed
  <1> QED
    BY <1>1, <1>2, <1>3 DEF Undelayed

LEMMA StartsUndelayed == WriterInit => WriterInv /\ Undelayed
  <1> SUFFICES ASSUME WriterInit PROVE WriterInv /\ Undelayed
    OBVIOUS
  <1>1. /\ now = 0 /\ made = <<>> /\ table = <<>> /\ heartbeat = 0 /\ queue = <<>> /\ gone = {}
        /\ ended = NULL /\ over = NULL
        /\ \A p \in Processes : buffer[p] = <<>> /\ flight[p] = NULL
    BY DEF WriterInit
  <1>2. ToSet(made) = {} /\ ToSet(table) = {} /\ Memory("loop") = {}
    BY <1>1, TwoProcesses DEF ToSet, Memory, HeldBy
  <1>3. LoopOnly /\ Waiting
    BY <1>1, <1>2, TwoProcesses DEF LoopOnly, Waiting, InTurn, At
  <1>4. Prefixed /\ Timed
    BY <1>1, <1>2, WriterAssumption DEF Prefixed, Timed, WriterAssumption
  <1> QED
    BY <1>3, <1>4, StartUpheld DEF Undelayed

\* What Settlement assumes of its constants, by the writer's clock.
RoundsAssumed ==
    /\ LocksAt \in [Predictions -> 0 .. WriterTime]
    /\ ResolvesAt \in [Predictions -> 0 .. WriterTime]
    /\ \A p \in Predictions : LocksAt[p] < ResolvesAt[p]
    /\ Rules \subseteq [Predictions -> {"occurs", "survives", "outcome", "poison"}]
    /\ Pool \in [Predictions -> Nat]
    /\ IsFiniteSet(Predictions) /\ IsFiniteSet(Wallets)
    /\ NULL \notin {"yes", "no", "void"}
    /\ {Grace, MaxPerPrediction, WalletCap, MaxAborts, MaxFlips} \subseteq Nat
    /\ DailyCaps \subseteq Nat /\ IsFiniteSet(DailyCaps) /\ DailyCaps # {}

\* The same, as the proofs about Settlement name it.
RoundsGiven ==
    /\ LocksAt \in [Predictions -> 0 .. WriterTime]
    /\ ResolvesAt \in [Predictions -> 0 .. WriterTime]
    /\ \A p \in Predictions : LocksAt[p] < ResolvesAt[p]
    /\ Rules \subseteq [Predictions -> Judging!Kinds]
    /\ Pool \in [Predictions -> Nat]
    /\ Judging!IsFiniteSet(Predictions) /\ Judging!IsFiniteSet(Wallets)
    /\ NULL \notin Judging!Outcomes \cup {"void"}
CapsGiven ==
    /\ {Grace, MaxPerPrediction, WalletCap, WriterTime, MaxEvents, MaxAborts, MaxFlips} \subseteq Nat
    /\ DailyCaps \subseteq Nat /\ Judging!IsFiniteSet(DailyCaps) /\ DailyCaps # {}

LEMMA SettlementsAssumption ==
    ASSUME RoundsAssumed
    PROVE  RoundsGiven /\ CapsGiven
  <1>1. \A S : IsFiniteSet(S) <=> Judging!IsFiniteSet(S)
    BY DEF IsFiniteSet, Judging!IsFiniteSet
  <1>2. {WriterTime, MaxEvents} \subseteq Nat
    BY WriterAssumption DEF WriterAssumption
  <1> QED
    BY <1>1, <1>2 DEF RoundsAssumed, RoundsGiven, CapsGiven, Judging!Kinds, Judging!Outcomes

GateInv == WriterInv /\ Undelayed /\ Judging!SettleInv

\* What settlement sees of a list of rows.
Glimpse == [i \in DOMAIN made |-> Bare(made[i])]
Landing == {Bare(row) : row \in ToSet(table)}

\* The rows that landed are those recorded first.
LEMMA LandedFirst ==
    ASSUME WriterInv, Undelayed
    PROVE  \E n \in 0 .. Len(made) :
               \A i \in DOMAIN made : made[i] \in ToSet(table) <=> i \in 1 .. n
  <1> DEFINE late == {i \in DOMAIN made : made[i] \notin ToSet(table)}
  <1>1. made \in Seq(EventRows) /\ DOMAIN made = 1 .. Len(made) /\ Len(made) \in Nat
    BY DEF WriterInv, WriterTypeOK
  <1>2. ASSUME NEW i \in DOMAIN made, NEW j \in DOMAIN made, i < j, made[j] \in ToSet(table)
        PROVE  made[i] \in ToSet(table)
    <2>1. made[i] \in ToSet(made) /\ made[j] \in ToSet(made)
      BY DEF ToSet
    <2>2. /\ made[i].ts \in Nat /\ made[j].ts \in Nat
          /\ made[i].op = "event" /\ made[j].op = "event"
      BY <2>1, RowsAreRows DEF WriterInv, Rowed
    <2>3. made[i].ts < made[j].ts
      BY <1>2, <2>2 DEF Undelayed, Waiting, InTurn, Before
    <2> QED
      BY <1>2, <2>1, <2>2, <2>3 DEF Undelayed, Prefixed
  <1>3. CASE late = {}
    <2>1. \A i \in DOMAIN made : made[i] \in ToSet(table) <=> i \in 1 .. Len(made)
      BY <1>1, <1>3
    <2> QED
      BY <1>1, <2>1
  <1>4. CASE late # {}
    <2>1. late \in SUBSET Nat
      BY <1>1
    <2>2. PICK m \in late : \A x \in late : m <= x
      BY <1>4, <2>1, LeastOf
    <2>3. m \in DOMAIN made /\ made[m] \notin ToSet(table)
      BY <2>2
    <2>4. ASSUME NEW i \in DOMAIN made PROVE made[i] \in ToSet(table) <=> i \in 1 .. m - 1
      <3>1. CASE made[i] \in ToSet(table)
        <4>1. ~(m < i) /\ i # m
          BY <1>2, <2>3, <3>1
        <4> QED
          BY <1>1, <2>3, <3>1, <4>1
      <3>2. CASE made[i] \notin ToSet(table)
        <4>1. i \in late
          BY <3>2
        <4>2. m <= i
          BY <2>2, <4>1
        <4> QED
          BY <1>1, <2>3, <3>2, <4>2
      <3> QED
        BY <3>1, <3>2
    <2>5. m - 1 \in 0 .. Len(made)
      BY <1>1, <2>3
    <2> QED
      BY <2>4, <2>5
  <1> QED
    BY <1>3, <1>4

GlimpseFits ==
    /\ now \in 0 .. WriterTime /\ heartbeat \in 0 .. WriterTime
    /\ Glimpse \in Seq(Judging!EventRows) /\ Landing \subseteq Judging!EventRows
    /\ ended \in 1 .. WriterTime \cup {NULL} /\ over \in 0 .. WriterTime \cup {NULL}
    /\ Judging!TelemetryOK

\* Telemetry as Settlement wants it.
LEMMA GlimpseIsInOrder == WriterInv /\ Undelayed => GlimpseFits
  <1> SUFFICES ASSUME WriterInv, Undelayed PROVE GlimpseFits
    OBVIOUS
  <1>1. /\ made \in Seq(EventRows) /\ DOMAIN made = 1 .. Len(made) /\ Len(made) \in Nat
        /\ now \in Nat /\ heartbeat \in Nat /\ WriterTime \in Nat /\ now <= WriterTime
        /\ ended \in Nat \cup {NULL} /\ over \in Nat \cup {NULL} /\ NULL \notin Nat
    BY WriterAssumption DEF WriterInv, WriterTypeOK, Undelayed, Timed, WriterAssumption
  <1>2. heartbeat <= now
    BY DEF WriterInv, Delivery, Dated
  <1>3. ASSUME NEW r \in ToSet(made)
        PROVE  /\ r \in EventRows /\ r.ts \in 1 .. WriterTime /\ r.ts <= now /\ r.op = "event"
               /\ r.type \in Types /\ Bare(r) \in Judging!EventRows /\ Bare(r).ts = r.ts
               /\ over # NULL => r.ts <= over
               /\ r.ts <= heartbeat => r \in ToSet(table)
    <2>1. r \in EventRows /\ r.ts \in Nat /\ r.op = "event"
      BY RowsAreRows DEF WriterInv, Rowed
    <2>2. r.ts <= now
      BY AllIsMemory
    <2>3. 1 <= r.ts /\ (over # NULL => r.ts <= over)
      BY <2>1 DEF Undelayed, Timed, IsStats
    <2>4. r.ts <= heartbeat => r \in ToSet(table)
      BY DEF Undelayed, Prefixed
    <2>5. r.type \in Types
      BY <2>1 DEF EventRows
    <2>6. r.ts \in 1 .. WriterTime
      BY <1>1, <2>1, <2>2, <2>3
    <2> QED
      BY <2>1, <2>2, <2>3, <2>4, <2>5, <2>6 DEF Bare, Judging!EventRows, Judging!Types, Types
  <1>4. ToSet(table) \subseteq ToSet(made)
    <2>1. ToSet(table) \subseteq EventRows
      BY DEF WriterInv, WriterTypeOK, ToSet
    <2>2. \A r \in ToSet(table) : r.op = "event"
      BY <2>1 DEF EventRows
    <2> QED
      BY <2>2 DEF Undelayed, Prefixed
  <1>5. \A i \in DOMAIN made : made[i] \in ToSet(made)
    BY DEF ToSet
  <1>6. /\ DOMAIN Glimpse = 1 .. Len(made) /\ Len(Glimpse) = Len(made)
        /\ Glimpse \in Seq(Judging!EventRows)
        /\ \A i \in 1 .. Len(made) : Glimpse[i] = Bare(made[i])
    <2>1. /\ Glimpse = [i \in 1 .. Len(made) |-> Bare(made[i])]
          /\ \A i \in 1 .. Len(made) : Bare(made[i]) \in Judging!EventRows
      BY <1>1, <1>3, <1>5 DEF Glimpse
    <2> QED
      BY <1>1, <2>1
  <1>7. Landing \subseteq Judging!EventRows
    BY <1>3, <1>4 DEF Landing
  <1>8. /\ heartbeat \in 0 .. WriterTime /\ now \in 0 .. WriterTime
        /\ ended \in 1 .. WriterTime \cup {NULL} /\ over \in 0 .. WriterTime \cup {NULL}
    BY <1>1, <1>2 DEF Undelayed, Timed
  <1>9. ASSUME NEW i \in 1 .. Len(made)
        PROVE  /\ Glimpse[i].ts <= now
               /\ \A j \in 1 .. Len(made) : i < j => Glimpse[i].ts < Glimpse[j].ts
               /\ Glimpse[i].ts <= heartbeat => Glimpse[i] \in Landing
               /\ over # NULL => Glimpse[i].ts <= over
    <2>1. Glimpse[i].ts = made[i].ts /\ made[i] \in ToSet(made) /\ Glimpse[i] = Bare(made[i])
      BY <1>1, <1>3, <1>5, <1>6
    <2>2. ASSUME NEW j \in 1 .. Len(made), i < j PROVE Glimpse[i].ts < Glimpse[j].ts
      <3>1. Before({made[i]}, {made[j]})
        BY <1>1, <2>2 DEF Undelayed, Waiting, InTurn
      <3>2. Glimpse[j].ts = made[j].ts /\ made[i].op = "event" /\ made[j].op = "event"
        BY <1>1, <1>3, <1>5, <1>6
      <3> QED
        BY <2>1, <3>1, <3>2 DEF Before
    <2> QED
      BY <1>3, <2>1, <2>2 DEF Landing
  <1>10. \E n \in 0 .. Len(made) : Landing = {Glimpse[i] : i \in 1 .. n}
    <2>1. PICK n \in 0 .. Len(made) :
              \A i \in DOMAIN made : made[i] \in ToSet(table) <=> i \in 1 .. n
      BY LandedFirst
    <2>2. ASSUME NEW r \in ToSet(table) PROVE \E i \in 1 .. n : Bare(r) = Glimpse[i]
      <3>1. PICK i \in DOMAIN made : made[i] = r
        BY <1>4 DEF ToSet
      <3> QED
        BY <1>1, <1>6, <2>1, <3>1
    <2>3. ASSUME NEW i \in 1 .. n PROVE Glimpse[i] \in Landing
      <3>1. i \in DOMAIN made
        BY <1>1
      <3> QED
        BY <1>1, <1>6, <2>1, <3>1 DEF Landing
    <2>4. Landing = {Glimpse[i] : i \in 1 .. n}
      BY <2>2, <2>3 DEF Landing
    <2> QED
      BY <2>4
  <1>11. Judging!TelemetryOK
    <2>1. over # NULL => heartbeat <= over
      BY DEF Undelayed, Timed
    <2> QED
      BY <1>2, <1>6, <1>9, <1>10, <2>1 DEF Judging!TelemetryOK, Glimpse, Landing
  <1> QED
    BY <1>6, <1>7, <1>8, <1>11 DEF GlimpseFits

LEMMA AppendAt ==
    ASSUME NEW S, NEW list \in Seq(S), NEW e \in S
    PROVE  /\ Append(list, e) = [i \in 1 .. Len(list) + 1 |-> Append(list, e)[i]]
           /\ Append(list, e)[Len(list) + 1] = e
           /\ \A i \in 1 .. Len(list) : Append(list, e)[i] = list[i]
  <1>1. Append(list, e)[Len(list) + 1] = e
    OBVIOUS
  <1>2. ASSUME NEW i \in 1 .. Len(list) PROVE Append(list, e)[i] = list[i]
    OBVIOUS
  <1>3. Append(list, e) = [i \in 1 .. Len(list) + 1 |-> Append(list, e)[i]]
    <2>1. Append(list, e) \in Seq(S) /\ Len(Append(list, e)) = Len(list) + 1
      OBVIOUS
    <2>2. \A s \in Seq(S) : s = [i \in 1 .. Len(s) |-> s[i]]
      OBVIOUS
    <2> QED
      BY <2>1, <2>2, Zenon
  <1> QED
    BY <1>1, <1>2, <1>3

\* The writer only ever adds to it.
LEMMA GlimpseMoves ==
    ASSUME WriterInv, Undelayed, WriterInv', Undelayed', Carries
    PROVE  Judging!Moves
  <1>1. /\ now' \in Nat /\ now <= now' /\ over \in Nat \cup {NULL}
        /\ over' = over \/ (over = NULL /\ over' = now')
    BY DEF Carries, WriterInv, WriterTypeOK
  <1>2. Landing \subseteq Landing'
    BY DEF Carries, Landing
  <1>3. \/ Glimpse' = Glimpse
        \/ \E e \in Judging!EventRows : e.ts > now /\ Glimpse' = Append(Glimpse, e)
    <2>1. CASE made' = made
      BY <2>1 DEF Glimpse
    <2>2. CASE Recorded
      <3>1. PICK row \in EventRows : made' = Append(made, row) /\ row.ts = now' /\ now' = now + 1
        BY <2>2 DEF Recorded
      <3>2. made \in Seq(EventRows) /\ now \in Nat /\ now' <= WriterTime /\ WriterTime \in Nat
        BY WriterAssumption DEF WriterInv, WriterTypeOK, Carries, WriterAssumption
      <3>3. Bare(row) \in Judging!EventRows /\ Bare(row).ts > now
        <4>1. row.type \in Types /\ row.ts \in 1 .. WriterTime
          BY <3>1, <3>2 DEF EventRows
        <4> QED
          BY <3>1, <3>2, <4>1 DEF Bare, Judging!EventRows, Judging!Types, Types
      <3>4. Glimpse' = Append(Glimpse, Bare(row))
        <4> DEFINE n == Len(made)
        <4>1. /\ n \in Nat /\ DOMAIN made = 1 .. n /\ DOMAIN made' = 1 .. n + 1
              /\ made'[n + 1] = row /\ \A i \in 1 .. n : made'[i] = made[i]
          BY <3>1, <3>2
        <4>2. Glimpse = [i \in 1 .. n |-> Bare(made[i])]
              /\ Glimpse' = [i \in 1 .. n + 1 |-> Bare(made'[i])]
          BY <4>1 DEF Glimpse
        <4>3. Glimpse \in Seq(Judging!EventRows) /\ Len(Glimpse) = n
          BY <4>1, <4>2, GlimpseIsInOrder DEF GlimpseFits
        <4> HIDE DEF n
        <4> HIDE DEF Glimpse
        <4> DEFINE new == Append(Glimpse, Bare(row))
        <4>4. /\ new = [i \in 1 .. n + 1 |-> new[i]] /\ new[n + 1] = Bare(row)
              /\ \A i \in 1 .. n : new[i] = Glimpse[i]
          BY <4>3, <3>3, AppendAt
        <4>5. \A i \in 1 .. n + 1 : new[i] = Bare(made'[i])
          <5>1. ASSUME NEW i \in 1 .. n PROVE new[i] = Bare(made'[i])
            BY <4>1, <4>2, <4>4
          <5>2. new[n + 1] = Bare(made'[n + 1])
            BY <4>1, <4>4
          <5>3. \A i \in 1 .. n + 1 : i \in 1 .. n \/ i = n + 1
            BY <4>1
          <5> QED
            BY <5>1, <5>2, <5>3, Zenon
        <4> HIDE DEF new
        <4>6. new = [i \in 1 .. n + 1 |-> Bare(made'[i])]
          BY <4>4, <4>5
        <4> QED
          BY <4>2, <4>6 DEF new
      <3> QED
        BY <3>3, <3>4
    <2> QED
      BY <2>1, <2>2 DEF Carries
  <1> QED
    BY <1>1, <1>2, <1>3 DEF Judging!Moves, Glimpse, Landing

LEMMA OneTickAtMost ==
    ASSUME [WriterNext]_writerVars
    PROVE  now' = now \/ now' = now + 1
  BY DEF WriterNext, writerVars, RecordEvent, InsertEventNow, Make, Heartbeat, Stop, Crash, PostEvent,
         Tick, Flush, FlushStart, FlushEnter, FlushRefused, FlushRun, FlushEnd

\* What the writer publishes leaves every settlement sound.
LEMMA PublishStep ==
    ASSUME Undisturbed, RoundsAssumed, GateInv,
           [WriterNext]_writerVars, now' # now => Judge!ClockFree, UNCHANGED roundVars
    PROVE  GateInv'
  <1>1. WriterInv /\ Undelayed /\ Judging!SettleInv /\ [WriterNext]_writerVars
    BY DEF GateInv
  <1>2. WriterInv' /\ Undelayed' /\ Carries
    BY <1>1, StaysUndelayed
  <1>3. Judging!Moves
    BY <1>1, <1>2, GlimpseMoves
  <1>4. UNCHANGED Judging!Rest
    BY DEF roundVars, Judging!Rest, Judging!rounds, Judging!policy
  <1>5. GlimpseFits'
    BY <1>2, GlimpseIsInOrder, PTL
  <1>6. CapsGiven /\ RoundsGiven
    BY SettlementsAssumption
  <1>7. Judging!TelemetryOK'
    BY <1>5 DEF GlimpseFits
  <1>8. Judging!TypeOK'
    <2>1. Judging!TypeOK
      BY <1>1 DEF Judging!SettleInv
    <2> QED
      BY <1>4, <1>5, <1>6, <2>1, Judging!RestType
         DEF GlimpseFits, Glimpse, Landing, Judging!CapAssumption, Judging!RoundAssumption,
             CapsGiven, RoundsGiven
  <1>9. Judging!PendingOK'
    <2>1. Judging!PendingOK
      BY <1>1 DEF Judging!SettleInv
    <2>2. pending' = pending /\ entries' = entries
      BY DEF roundVars
    <2>3. \A e \in pending : now' < ResolvesAt[e.p]
      <3>1. CASE now' = now
        BY <2>1, <3>1 DEF Judging!PendingOK
      <3>2. CASE now' # now
        BY <1>1, <3>2, OneTickAtMost DEF Judge!ClockFree
      <3> QED
        BY <3>1, <3>2
    <2> QED
      BY <2>1, <2>2, <2>3 DEF Judging!PendingOK
  <1>10. Judging!SettleInv'
    BY <1>1, <1>3, <1>4, <1>6, <1>7, <1>8, <1>9, Judging!TelemetryStep
       DEF CapsGiven, RoundsGiven, Judging!CapAssumption, Judging!RoundAssumption
  <1> QED
    BY <1>2, <1>10 DEF GateInv

\* The settlement of Telemetry is the one of the proofs.
LEMMA SameVerdicts ==
    ASSUME NEW p, NEW evs
    PROVE  /\ Judge!Verdict(p, evs) = Judging!Verdict(p, evs)
           /\ Judge!BridgeOverlap(p, evs) = Judging!BridgeOverlap(p, evs)
  BY DEF Judge!Verdict, Judging!Verdict, Judge!BridgeOverlap, Judging!BridgeOverlap,
         Judge!Window, Judging!Window, Judge!Deciding, Judging!Deciding,
         Judge!FirstHits, Judging!FirstHits, Judge!Hit, Judging!Hit, Judge!Answer, Judging!Answer

LEMMA SameHand ==
    ASSUME NEW c
    PROVE  /\ Judge!AtHand(c) = Judging!AtHand(c)
           /\ \A pc : Judge!Working(c, pc) <=> Judging!Working(c, pc)
           /\ \A t : Judge!Put(c, t) <=> Judging!Put(c, t)
           /\ \A t : Judge!Leave(c, t) <=> Judging!Leave(c, t)
           /\ Judge!LeaveVoid(c) <=> Judging!LeaveVoid(c)
  <1>1. Judge!AtHand(c) = Judging!AtHand(c)
    BY DEF Judge!AtHand, Judging!AtHand
  <1>2. \A pc : Judge!Working(c, pc) <=> Judging!Working(c, pc)
    BY DEF Judge!Working, Judging!Working
  <1>3. \A t : Judge!Put(c, t) <=> Judging!Put(c, t)
    BY DEF Judge!Put, Judging!Put
  <1>4. \A t : Judge!Leave(c, t) <=> Judging!Leave(c, t)
    BY <1>1, <1>3 DEF Judge!Leave, Judging!Leave
  <1>5. Judge!LeaveVoid(c) <=> Judging!LeaveVoid(c)
    BY <1>1, <1>4 DEF Judge!LeaveVoid, Judging!LeaveVoid
  <1> QED
    BY <1>1, <1>2, <1>3, <1>4, <1>5

LEMMA SameSteps ==
    ASSUME NEW c
    PROVE  Judge!SettleStep(c) => Judging!SettleStep(c)
  <1>1. Judge!SettleBegin(c) => Judging!SettleBegin(c)
    BY DEF Judge!SettleBegin, Judging!SettleBegin, Judge!AdvisoryFree, Judging!AdvisoryFree,
           Judge!Due, Judging!Due, Judge!RowFree, Judging!RowFree, Judge!Nobody, Judging!Nobody,
           Judge!telemetry, Judging!telemetry, Judge!rounds, Judging!rounds,
           Judge!policy, Judging!policy
  <1>2. Judge!SettleGate(c) => Judging!SettleGate(c)
    BY SameHand
       DEF Judge!SettleGate, Judging!SettleGate, Judge!Entered, Judging!Entered,
           Judge!Ready, Judging!Ready,
           Judge!telemetry, Judging!telemetry, Judge!rounds, Judging!rounds,
           Judge!policy, Judging!policy
  <1>3. Judge!SettleJudge(c) => Judging!SettleJudge(c)
    BY DEF Judge!SettleJudge, Judging!SettleJudge, Judge!Working, Judging!Working,
           Judge!Put, Judging!Put, Judge!Leave, Judging!Leave, Judge!LeaveVoid,
           Judging!LeaveVoid, Judge!AtHand, Judging!AtHand, Judge!Entered,
           Judging!Entered, Judge!Correct, Judging!Correct, Judge!Base, Judging!Base,
           Judge!Verdict, Judging!Verdict, Judge!BridgeOverlap, Judging!BridgeOverlap,
           Judge!Window, Judging!Window, Judge!Deciding, Judging!Deciding,
           Judge!FirstHits, Judging!FirstHits, Judge!Hit, Judging!Hit, Judge!Answer,
           Judging!Answer, Judge!Cardinality, Judging!Cardinality, Judge!telemetry,
           Judging!telemetry, Judge!rounds, Judging!rounds, Judge!policy, Judging!policy
  <1>4. ASSUME NEW w PROVE Judge!SettleCredit(c, w) => Judging!SettleCredit(c, w)
    BY DEF Judge!SettleCredit, Judging!SettleCredit, Judge!Working, Judging!Working,
           Judge!Put, Judging!Put, Judge!Leave, Judging!Leave, Judge!AtHand, Judging!AtHand,
           Judge!CreditOf, Judging!CreditOf, Judge!Clamp, Judging!Clamp, Judge!Spent,
           Judging!Spent, Judge!PerPrediction, Judging!PerPrediction, Judge!MapThenSumSet,
           Judging!MapThenSumSet, Judge!MapThenFoldSet, Judging!MapThenFoldSet,
           Judge!telemetry, Judging!telemetry, Judge!rounds, Judging!rounds, Judge!policy,
           Judging!policy
  <1>5. Judge!SettleCommit(c) => Judging!SettleCommit(c)
    BY DEF Judge!SettleCommit, Judging!SettleCommit,
           Judge!telemetry, Judging!telemetry, Judge!policy, Judging!policy
  <1> QED
    BY <1>1, <1>2, <1>3, <1>4, <1>5 DEF Judge!SettleStep, Judging!SettleStep

LEMMA SameDecisions == Judge!SettlementNext => Judging!SettlementNext
  <1>1. \A p, w, o : Judge!EnterBegin(p, w, o) => Judging!EnterBegin(p, w, o)
    BY DEF Judge!EnterBegin, Judging!EnterBegin,
           Judge!telemetry, Judging!telemetry, Judge!rounds, Judging!rounds,
           Judge!policy, Judging!policy
  <1>2. \A e : Judge!EnterFinish(e) => Judging!EnterFinish(e)
    BY DEF Judge!EnterFinish, Judging!EnterFinish, Judge!RowFree, Judging!RowFree,
           Judge!telemetry, Judging!telemetry, Judge!policy, Judging!policy
  <1>3. /\ \A w : Judge!Block(w) => Judging!Block(w)
        /\ Judge!SwitchRewards => Judging!SwitchRewards
        /\ \A cap : Judge!SetDailyCap(cap) => Judging!SetDailyCap(cap)
    BY DEF Judge!Block, Judging!Block, Judge!SwitchRewards, Judging!SwitchRewards,
           Judge!SetDailyCap, Judging!SetDailyCap, Judge!Flip, Judging!Flip,
           Judge!telemetry, Judging!telemetry, Judge!rounds, Judging!rounds
  <1>4. Judge!LockDue => Judging!LockDue
    BY DEF Judge!LockDue, Judging!LockDue, Judge!telemetry, Judging!telemetry,
           Judge!policy, Judging!policy
  <1>5. \A c : Judge!SettleAbort(c) => Judging!SettleAbort(c)
    BY DEF Judge!SettleAbort, Judging!SettleAbort, Judge!telemetry, Judging!telemetry,
           Judge!rounds, Judging!rounds, Judge!policy, Judging!policy
  <1> QED
    BY <1>1, <1>2, <1>3, <1>4, <1>5, SameSteps
       DEF Judge!SettlementNext, Judging!SettlementNext, Judge!Outcomes, Judging!Outcomes

\* What settlement does leaves the writer alone, and its own invariant upheld.
LEMMA DecideStep ==
    ASSUME Undisturbed, RoundsAssumed, GateInv, Settle
    PROVE  GateInv'
  <1>1. WriterInv /\ Undelayed /\ Judging!SettleInv /\ UNCHANGED writerVars
    BY DEF GateInv, Settle
  <1>2. WriterInv' /\ Undelayed'
    BY <1>1, StaysUndelayed
  <1>3. Judging!SettlementNext
    BY SameDecisions DEF Settle
  <1>4. Judging!SettleInv'
    <2>1. [Judging!Next]_(Judging!vars)
      BY <1>3 DEF Judging!Next
    <2>2. CapsGiven /\ RoundsGiven
      BY SettlementsAssumption
    <2> QED
      BY <1>1, <2>1, <2>2, Judging!NextSettle
         DEF CapsGiven, RoundsGiven, Judging!CapAssumption, Judging!RoundAssumption
  <1> QED
    BY <1>2, <1>4 DEF GateInv

LEMMA GateStarts ==
    ASSUME Undisturbed, RoundsAssumed, Init
    PROVE  GateInv
  <1>1. WriterInit /\ Judge!RoundsInit
    BY DEF Init
  <1>2. WriterInv /\ Undelayed
    BY <1>1, StartsUndelayed
  <1>3. Judging!SettleInv
    <2>1. Judging!RoundsInit
      BY <1>1 DEF Judge!RoundsInit, Judging!RoundsInit, Judge!Nobody, Judging!Nobody,
                  Judge!Max, Judging!Max
    <2>2. Judging!TelemetryInit
      BY <1>1 DEF WriterInit, Judging!TelemetryInit, ToSet
    <2>3. CapsGiven /\ RoundsGiven
      BY SettlementsAssumption
    <2> QED
      BY <2>1, <2>2, <2>3, Judging!InitSettle
         DEF CapsGiven, RoundsGiven, Judging!CapAssumption, Judging!RoundAssumption, Judging!Init
  <1> QED
    BY <1>2, <1>3 DEF GateInv

LEMMA GateIsTrue ==
    ASSUME RoundsAssumed, GateInv
    PROVE  GateIsEvidence
  <1>1. Judging!SettledOnWholeWindow
    <2>1. CapsGiven /\ RoundsGiven
      BY SettlementsAssumption
    <2> QED
      BY <2>1, Judging!TrueRounds
         DEF GateInv, CapsGiven, RoundsGiven, Judging!CapAssumption, Judging!RoundAssumption
  <1> QED
    BY <1>1, SameVerdicts DEF GateIsEvidence, Judge!SettledOnWholeWindow,
       Judging!SettledOnWholeWindow, Judge!Happened, Judging!Happened

\* Over a writer that nothing disturbs the gate is evidence: a settled round
\* was decided on everything that happened in its window, whenever the loop dies
\* and whatever the drivers do (settle_due_predictions over SupabaseWriter).
THEOREM GateIsSound == Undisturbed /\ RoundsAssumed => (Spec => []GateIsEvidence)
  <1> SUFFICES ASSUME Undisturbed, RoundsAssumed PROVE Spec => []GateIsEvidence
    OBVIOUS
  <1>1. Init => GateInv
    BY GateStarts
  <1>2. GateInv /\ [Next]_<<writerVars, roundVars>> => GateInv'
    <2> SUFFICES ASSUME GateInv, [Next]_<<writerVars, roundVars>> PROVE GateInv'
      OBVIOUS
    <2>1. CASE UNCHANGED <<writerVars, roundVars>>
      <3>1. [WriterNext]_writerVars /\ UNCHANGED now /\ UNCHANGED roundVars
        BY <2>1 DEF writerVars
      <3> QED
        BY <3>1, PublishStep
    <2> QED
      BY <2>1, PublishStep, DecideStep DEF Next, Publish
  <1>3. GateInv => GateIsEvidence
    BY GateIsTrue
  <1> QED
    BY <1>1, <1>2, <1>3, PTL DEF Spec
=============================================================================
