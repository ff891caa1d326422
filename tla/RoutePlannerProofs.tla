-------------------------- MODULE RoutePlannerProofs ---------------------------
(***************************************************************************)
(* What the route planner promises of its route, for any orders, distances *)
(* and capacity.  The argument has three layers: what the recursive        *)
(* functions and the library's sum compute; what a route looks like that   *)
(* pairs the stops of a set of orders, and that an insertion makes such a  *)
(* route of one order more; and the invariant of the planner.              *)
(***************************************************************************)
EXTENDS RoutePlanner, FiniteSetTheorems, SequenceTheorems, TLAPS

(***************************************************************************)
(* Numbers, sets and sequences.  A set of numbers that has 0, and with a   *)
(* number the next, has them all: this is how what a recursive definition  *)
(* computes is reasoned about below.                                       *)
(***************************************************************************)
LEMMA CountingUp ==
  ASSUME NEW S \in SUBSET Nat, 0 \in S, \A n \in S : n + 1 \in S
  PROVE  S = Nat
<1> SUFFICES ASSUME NEW m \in Nat, m \notin S PROVE FALSE
  OBVIOUS
<1> DEFINE T == {0..n : n \in Nat \ S}
           F == FiniteSubsetsOf(Nat)
           R == StrictSubsetOrdering(Nat)
<1>1. T # {}
  OBVIOUS
<1>2. T \subseteq F
  <2>1. ASSUME NEW n \in Nat
        PROVE  0..n \in F
    <3>1. 0..n \in SUBSET Nat /\ 0 \in Int /\ n \in Int
      OBVIOUS
    <3>2. IsFiniteSet(0..n)
      BY <3>1, FS_Interval
    <3>3. QED  BY <3>1, <3>2 DEF FiniteSubsetsOf
  <2>2. QED  BY <2>1
<1>3. IsWellFoundedOn(R, F)
  BY FS_StrictSubsetOrderingWellFounded
<1> HIDE DEF F, R
<1>4. PICK x \in T : \A y \in T : ~ (<<y, x>> \in R)
  <2> HIDE DEF T
  <2>1. QED  BY <1>1, <1>2, <1>3, WFMin
<1>5. PICK n \in Nat \ S : x = 0..n
  OBVIOUS
<1>6. n - 1 \in Nat \ S
  <2>1. n - 1 \in Nat /\ (n - 1) + 1 = n
    OBVIOUS
  <2>2. QED  BY <2>1
<1>7. 0..(n - 1) \in T
  BY <1>6
<1>8. <<0..(n - 1), 0..n>> \in R
  <2>1. 0..(n - 1) \subseteq 0..n /\ n \in 0..n /\ n \notin 0..(n - 1)
    OBVIOUS
  <2>2. 0..(n - 1) \in SUBSET Nat /\ 0..n \in SUBSET Nat
    BY <1>6
  <2>3. QED  BY <2>1, <2>2 DEF R, StrictSubsetOrdering
<1>9. QED  BY <1>4, <1>5, <1>7, <1>8

LEMMA LeastNumber ==
  ASSUME NEW S \in SUBSET Nat, S # {}
  PROVE  \E m \in S : \A n \in S : m <= n
<1> SUFFICES ASSUME \A m \in S : \E n \in S : n < m
             PROVE  FALSE
  OBVIOUS
<1> DEFINE T == {n \in Nat : \A s \in S : n < s}
<1>1. 0 \in T
  OBVIOUS
<1>2. \A n \in T : n + 1 \in T
  OBVIOUS
<1>3. T = Nat
  <2> HIDE DEF T
  <2>1. T \in SUBSET Nat
    BY DEF T
  <2>2. QED  BY <1>1, <1>2, <2>1, CountingUp
<1>4. PICK m : m \in S
  OBVIOUS
<1>5. m \in T
  <2> HIDE DEF T
  <2>1. QED  BY <1>3, <1>4
<1>6. m < m
  BY <1>4, <1>5
<1>7. QED  BY <1>4, <1>6

(***************************************************************************)
(* Sums over finite sets.  The table of the sums over all subsets does not *)
(* depend on the order in which the library adds them up.                  *)
(***************************************************************************)
IsSumOf(f, S, g) ==
  /\ g[{}] = 0
  /\ \A T \in SUBSET S : \A x \in T : g[T] = f[x] + g[T \ {x}]

LEMMA SumTablesExist ==
  ASSUME NEW I, NEW f \in [I -> Nat], NEW S \in SUBSET I, IsFiniteSet(S)
  PROVE  \E g \in [SUBSET S -> Nat] : IsSumOf(f, S, g)
<1> DEFINE N == {n \in Nat : \A T \in SUBSET S :
                   Cardinality(T) = n => \E g \in [SUBSET T -> Nat] : IsSumOf(f, T, g)}
<1>1. \A T \in SUBSET S : IsFiniteSet(T) /\ Cardinality(T) \in Nat
  BY FS_Subset, FS_CardinalityType
<1>2. 0 \in N
  <2> SUFFICES ASSUME NEW T \in SUBSET S, Cardinality(T) = 0
               PROVE  \E g \in [SUBSET T -> Nat] : IsSumOf(f, T, g)
    OBVIOUS
  <2>1. T = {}
    BY <1>1, FS_EmptySet
  <2>2. [U \in SUBSET T |-> 0] \in [SUBSET T -> Nat] /\ IsSumOf(f, T, [U \in SUBSET T |-> 0])
    BY <2>1 DEF IsSumOf
  <2>3. QED  BY <2>2
<1>3. ASSUME NEW n \in N
      PROVE  n + 1 \in N
  <2>11. n \in Nat /\ n + 1 \in Nat /\ n + 1 # 0
    OBVIOUS
  <2> SUFFICES ASSUME NEW T \in SUBSET S, Cardinality(T) = n + 1
               PROVE  \E h \in [SUBSET T -> Nat] : IsSumOf(f, T, h)
    BY <2>11
  <2>1. PICK x : x \in T
    <3>1. T # {}
      BY <2>11, FS_EmptySet
    <3>2. QED  BY <3>1
  <2>2. Cardinality(T \ {x}) = n /\ T \ {x} \in SUBSET S
    BY <1>1, <2>1, <2>11, FS_RemoveElement
  <2>3. PICK g \in [SUBSET (T \ {x}) -> Nat] : IsSumOf(f, T \ {x}, g)
    BY <2>2
  <2> DEFINE h == [U \in SUBSET T |-> IF x \in U THEN f[x] + g[U \ {x}] ELSE g[U]]
  <2>4. \A U \in SUBSET T : U \ {x} \in SUBSET (T \ {x}) /\ (x \notin U => U \in SUBSET (T \ {x}))
    OBVIOUS
  <2>5. f[x] \in Nat
    BY <2>1
  <2>6. h \in [SUBSET T -> Nat]
    BY <2>3, <2>4, <2>5
  <2>7. h[{}] = 0
    BY <2>3 DEF IsSumOf
  <2>8. ASSUME NEW U \in SUBSET T, NEW y \in U
        PROVE  h[U] = f[y] + h[U \ {y}]
    <3>1. CASE x \notin U
      <4>1. U \in SUBSET (T \ {x}) /\ h[U] = g[U] /\ h[U \ {y}] = g[U \ {y}]
        BY <3>1
      <4>2. QED  BY <2>3, <4>1 DEF IsSumOf
    <3>2. CASE y = x
      <4>1. h[U] = f[x] + g[U \ {x}] /\ h[U \ {x}] = g[U \ {x}]
        BY <3>2
      <4>2. QED  BY <3>2, <4>1
    <3>3. CASE x \in U /\ y # x
      <4>1. h[U] = f[x] + g[U \ {x}] /\ h[U \ {y}] = f[x] + g[(U \ {y}) \ {x}]
        BY <3>3
      <4>2. (U \ {y}) \ {x} = (U \ {x}) \ {y}
        OBVIOUS
      <4>3. U \ {x} \in SUBSET (T \ {x}) /\ y \in U \ {x}
        BY <3>3
      <4>4. g[U \ {x}] = f[y] + g[(U \ {x}) \ {y}]
        BY <2>3, <4>3 DEF IsSumOf
      <4>5. g[(U \ {x}) \ {y}] \in Nat /\ f[y] \in Nat
        BY <2>3, <4>3
      <4>6. h[U \ {y}] = f[x] + g[(U \ {x}) \ {y}]
        BY <4>1, <4>2
      <4> HIDE DEF h
      <4>7. QED  BY <2>5, <4>1, <4>4, <4>5, <4>6
    <3>4. x \notin U \/ y = x \/ (x \in U /\ y # x)
      OBVIOUS
    <3> HIDE DEF h
    <3>5. QED  BY <3>1, <3>2, <3>3, <3>4
  <2>9. IsSumOf(f, T, h)
    <3> HIDE DEF h
    <3>1. QED  BY <2>7, <2>8 DEF IsSumOf
  <2>10. QED  BY <2>6, <2>9
<1>4. N = Nat
  <2>1. N \in SUBSET Nat
    OBVIOUS
  <2> HIDE DEF N
  <2>2. QED  BY <1>2, <1>3, <2>1, CountingUp
<1>5. Cardinality(S) \in N /\ S \in SUBSET S
  BY <1>1, <1>4
<1>6. QED  BY <1>5

(* The library's sum is a solution of its recursive equation, and that has  *)
(* one only.                                                               *)
LEMMA SumIsInTable ==
  ASSUME NEW f, NEW S, IsFiniteSet(S), NEW g, IsSumOf(f, S, g)
  PROVE  SumFunctionOnSet(f, S) = g[S]
<1> DEFINE one(s) == CHOOSE x \in s : TRUE
<1>1. \A s \in SUBSET S : s # {} => one(s) \in s
  OBVIOUS
<1> HIDE DEF one
<1>2. \A s \in SUBSET S : g[s] = IF s = {} THEN 0 ELSE f[one(s)] + g[s \ {one(s)}]
  BY <1>1 DEF IsSumOf
<1> DEFINE e == [s \in SUBSET S |-> g[s]]
<1>3. e = [s \in SUBSET S |->
             IF s = {} THEN 0
             ELSE f[CHOOSE x \in s : TRUE] + e[s \ {CHOOSE x \in s : TRUE}]]
  <2>1. \A s \in SUBSET S : s \ {one(s)} \in SUBSET S
    OBVIOUS
  <2>2. e = [s \in SUBSET S |-> IF s = {} THEN 0 ELSE f[one(s)] + e[s \ {one(s)}]]
    BY <1>2, <2>1
  <2>3. QED  BY <2>2 DEF one
<1> HIDE DEF e
<1>4. PICK h : /\ h = [s \in SUBSET S |->
                         IF s = {} THEN 0
                         ELSE f[CHOOSE x \in s : TRUE] + h[s \ {CHOOSE x \in s : TRUE}]]
               /\ SumFunctionOnSet(f, S) = h[S]
  BY <1>3 DEF SumFunctionOnSet, FoldFunctionOnSet, MapThenFoldSet
<1> DEFINE N == {n \in Nat : \A T \in SUBSET S : Cardinality(T) = n => h[T] = g[T]}
<1>5. \A T \in SUBSET S : IsFiniteSet(T) /\ Cardinality(T) \in Nat
  BY FS_Subset, FS_CardinalityType
<1>6. \A T \in SUBSET S : h[T] = IF T = {} THEN 0 ELSE f[one(T)] + h[T \ {one(T)}]
  BY <1>4 DEF one
<1>7. 0 \in N
  <2> SUFFICES ASSUME NEW T \in SUBSET S, Cardinality(T) = 0
               PROVE  h[T] = g[T]
    OBVIOUS
  <2>1. T = {}
    BY <1>5, FS_EmptySet
  <2>2. QED  BY <1>2, <1>6, <2>1
<1>8. ASSUME NEW n \in N
      PROVE  n + 1 \in N
  <2>11. n \in Nat /\ n + 1 \in Nat /\ n + 1 # 0
    OBVIOUS
  <2> SUFFICES ASSUME NEW T \in SUBSET S, Cardinality(T) = n + 1
               PROVE  h[T] = g[T]
    BY <2>11
  <2>1. T # {}
    BY <2>11, FS_EmptySet
  <2>2. one(T) \in T
    BY <1>1, <2>1
  <2>3. Cardinality(T \ {one(T)}) = n /\ T \ {one(T)} \in SUBSET S
    <3>1. ASSUME NEW x \in T
          PROVE  Cardinality(T \ {x}) = n /\ T \ {x} \in SUBSET S
      <4>1. IsFiniteSet(T)
        BY <1>5
      <4>2. Cardinality(T \ {x}) = Cardinality(T) - 1
        BY <4>1, FS_RemoveElement
      <4>3. QED  BY <2>11, <4>2
    <3>2. QED  BY <2>2, <3>1
  <2>4. h[T \ {one(T)}] = g[T \ {one(T)}]
    BY <2>3
  <2>5. QED  BY <1>2, <1>6, <2>1, <2>4
<1>9. N = Nat
  <2>1. N \in SUBSET Nat
    OBVIOUS
  <2> HIDE DEF N
  <2>2. QED  BY <1>7, <1>8, <2>1, CountingUp
<1>10. Cardinality(S) \in N /\ S \in SUBSET S
  BY <1>5, <1>9
<1>11. QED  BY <1>4, <1>10

(* What one element adds.                                                  *)
LEMMA SumOfOneMore ==
  ASSUME NEW I, NEW f \in [I -> Nat], NEW S \in SUBSET I, IsFiniteSet(S),
         NEW x \in I, x \notin S
  PROVE  /\ SumFunctionOnSet(f, S) \in Nat
         /\ SumFunctionOnSet(f, S \cup {x}) = f[x] + SumFunctionOnSet(f, S)
<1> DEFINE T == S \cup {x}
<1>1. T \in SUBSET I /\ IsFiniteSet(T) /\ T \ {x} = S /\ x \in T
  BY FS_AddElement
<1>2. PICK g \in [SUBSET T -> Nat] : IsSumOf(f, T, g)
  <2> HIDE DEF T
  <2>1. QED  BY <1>1, SumTablesExist
<1>3. IsSumOf(f, S, g)
  <2>1. \A U \in SUBSET S : U \in SUBSET T
    OBVIOUS
  <2>2. QED  BY <1>2, <2>1 DEF IsSumOf
<1>4. SumFunctionOnSet(f, S) = g[S]
  BY <1>3, SumIsInTable
<1>5. SumFunctionOnSet(f, T) = g[T]
  BY <1>1, <1>2, SumIsInTable
<1>6. g[T] = f[x] + g[S] /\ g[S] \in Nat
  <2>1. T \in SUBSET T /\ S \in SUBSET T
    OBVIOUS
  <2>2. g[T] = f[x] + g[T \ {x}]
    <3> HIDE DEF T
    <3>1. QED  BY <1>1, <1>2, <2>1 DEF IsSumOf
  <2>3. QED  BY <1>1, <1>2, <2>1, <2>2
<1>7. QED  BY <1>4, <1>5, <1>6

LEMMA SumOfNone ==
  ASSUME NEW I, NEW f \in [I -> Nat]
  PROVE  SumFunctionOnSet(f, {}) = 0
<1>1. {} \in SUBSET I /\ IsFiniteSet({})
  BY FS_EmptySet
<1>2. PICK g \in [SUBSET {} -> Nat] : IsSumOf(f, {}, g)
  BY <1>1, SumTablesExist
<1>3. SumFunctionOnSet(f, {}) = g[{}]
  BY <1>1, <1>2, SumIsInTable
<1>4. QED  BY <1>2, <1>3 DEF IsSumOf

(***************************************************************************)
(* The recursive functions of the route planner: the load after each stop  *)
(* and the kilometres are running totals.                                  *)
(***************************************************************************)
AreTotals(g, c, n) == g[0] = 0 /\ \A k \in 1..n : g[k] = g[k - 1] + c[k]

LEMMA TotalsExist ==
  ASSUME NEW T \in SUBSET Int, 0 \in T, \A a, b \in T : a + b \in T,
         NEW n \in Nat, NEW c \in [1..n -> T]
  PROVE  \E g \in [0..n -> T] : AreTotals(g, c, n)
<1> DEFINE N == {m \in Nat : m <= n => \E g \in [0..m -> T] : AreTotals(g, c, m)}
<1>1. 0 \in N
  <2>1. [k \in 0..0 |-> 0] \in [0..0 -> T] /\ AreTotals([k \in 0..0 |-> 0], c, 0)
    BY DEF AreTotals
  <2>2. QED  BY <2>1
<1>2. ASSUME NEW m \in N
      PROVE  m + 1 \in N
  <2>1. m \in Nat /\ m + 1 \in Nat
    OBVIOUS
  <2> SUFFICES ASSUME m + 1 <= n
               PROVE  \E h \in [0..(m + 1) -> T] : AreTotals(h, c, m + 1)
    BY <2>1
  <2>2. PICK g \in [0..m -> T] : AreTotals(g, c, m)
    BY <2>1
  <2>3. m + 1 \in 1..n /\ m \in 0..m
    BY <2>1
  <2> DEFINE h == [k \in 0..(m + 1) |-> IF k = m + 1 THEN g[m] + c[m + 1] ELSE g[k]]
  <2>4. g[m] + c[m + 1] \in T
    BY <2>2, <2>3
  <2>5. \A k \in 0..(m + 1) : k # m + 1 => k \in 0..m
    BY <2>1
  <2>6. h \in [0..(m + 1) -> T]
    BY <2>2, <2>4, <2>5
  <2>7. h[0] = 0
    BY <2>1, <2>2 DEF AreTotals
  <2>8. ASSUME NEW k \in 1..(m + 1)
        PROVE  h[k] = h[k - 1] + c[k]
    <3>1. CASE k = m + 1
      <4>1. h[k] = g[m] + c[k] /\ h[k - 1] = g[m]
        BY <2>1, <3>1
      <4>2. QED  BY <4>1
    <3>2. CASE k # m + 1
      <4>1. k \in 1..m /\ k - 1 \in 0..m /\ k \in 0..m /\ k - 1 # m + 1
        BY <2>1, <3>2
      <4>2. h[k] = g[k] /\ h[k - 1] = g[k - 1]
        BY <2>5, <4>1
      <4>3. QED  BY <2>2, <4>1, <4>2 DEF AreTotals
    <3>3. QED  BY <3>1, <3>2
  <2> HIDE DEF h
  <2>9. AreTotals(h, c, m + 1)
    BY <2>7, <2>8 DEF AreTotals
  <2>10. QED  BY <2>6, <2>9
<1>3. N = Nat
  <2>1. N \in SUBSET Nat
    OBVIOUS
  <2> HIDE DEF N
  <2>2. QED  BY <1>1, <1>2, <2>1, CountingUp
<1>4. n \in N
  BY <1>3
<1>5. QED  BY <1>4

(* Totals of the same changes are the same, as far as the changes go.      *)
LEMMA SameTotals ==
  ASSUME NEW n \in Nat, NEW c, NEW d, NEW g, NEW h, AreTotals(g, c, n), AreTotals(h, d, n),
         \A k \in 1..n : c[k] = d[k]
  PROVE  \A k \in 0..n : g[k] = h[k]
<1> DEFINE N == {m \in Nat : m <= n => g[m] = h[m]}
<1>1. 0 \in N
  BY DEF AreTotals
<1>2. ASSUME NEW m \in N
      PROVE  m + 1 \in N
  <2>1. m \in Nat /\ m + 1 \in Nat
    OBVIOUS
  <2> SUFFICES ASSUME m + 1 <= n PROVE g[m + 1] = h[m + 1]
    BY <2>1
  <2>2. m + 1 \in 1..n /\ (m + 1) - 1 = m
    BY <2>1
  <2>3. g[m + 1] = g[m] + c[m + 1]
    BY <2>2 DEF AreTotals
  <2>4. h[m + 1] = h[m] + d[m + 1]
    BY <2>2 DEF AreTotals
  <2>5. g[m] = h[m] /\ c[m + 1] = d[m + 1]
    BY <2>1, <2>2
  <2>6. QED  BY <2>3, <2>4, <2>5
<1>3. N = Nat
  <2>1. N \in SUBSET Nat
    OBVIOUS
  <2> HIDE DEF N
  <2>2. QED  BY <1>1, <1>2, <2>1, CountingUp
<1>4. QED  BY <1>3

StopSet(ids) == [order : ids, type : {"PICKUP", "DROPOFF"}, demand : Nat, at : Points]

LoadChange(stop) == IF stop.type = "PICKUP" THEN stop.demand ELSE -stop.demand

LoadChanges(stops) == [k \in 1..Len(stops) |-> LoadChange(stops[k])]

LEMMA ChangesAreNumbers ==
  ASSUME NEW ids, NEW stops \in Seq(StopSet(ids))
  PROVE  /\ Len(stops) \in Nat /\ DOMAIN stops = 1..Len(stops)
         /\ \A k \in 1..Len(stops) : stops[k] \in StopSet(ids)
         /\ LoadChanges(stops) \in [1..Len(stops) -> Int]
<1>1. /\ Len(stops) \in Nat /\ DOMAIN stops = 1..Len(stops)
      /\ \A k \in 1..Len(stops) : stops[k] \in StopSet(ids)
  BY LenProperties, ElementOfSeq
<1>2. \A k \in 1..Len(stops) : LoadChange(stops[k]) \in Int
  BY <1>1 DEF StopSet, LoadChange
<1>3. QED  BY <1>1, <1>2 DEF LoadChanges

LEMMA LoadsAreTotals ==
  ASSUME NEW ids, NEW stops \in Seq(StopSet(ids))
  PROVE  /\ LoadAfter(stops) \in [0..Len(stops) -> Int]
         /\ AreTotals(LoadAfter(stops), LoadChanges(stops), Len(stops))
<1> DEFINE n == Len(stops)
<1>1. n \in Nat /\ LoadChanges(stops) \in [1..n -> Int]
  BY ChangesAreNumbers
<1>2. PICK g \in [0..n -> Int] : AreTotals(g, LoadChanges(stops), n)
  <2> HIDE DEF n
  <2>1. Int \in SUBSET Int /\ 0 \in Int /\ \A a, b \in Int : a + b \in Int
    OBVIOUS
  <2>2. QED  BY <1>1, <2>1, TotalsExist
<1>3. \A k \in 1..n : LoadChanges(stops)[k] = IF stops[k].type = "PICKUP"
                                               THEN stops[k].demand
                                               ELSE -stops[k].demand
  BY DEF LoadChanges, LoadChange
<1>4. \A k \in 0..n : k # 0 => k \in 1..n
  BY <1>1
<1>5. g = [k \in 0..n |->
             IF k = 0 THEN 0
             ELSE g[k - 1] + (IF stops[k].type = "PICKUP" THEN stops[k].demand
                                                          ELSE -stops[k].demand)]
  BY <1>2, <1>3, <1>4 DEF AreTotals
<1>6. LoadAfter(stops) =
        [k \in 0..n |->
           IF k = 0 THEN 0
           ELSE LoadAfter(stops)[k - 1] + (IF stops[k].type = "PICKUP" THEN stops[k].demand
                                                                      ELSE -stops[k].demand)]
  BY <1>5 DEF LoadAfter
<1>7. AreTotals(LoadAfter(stops), LoadChanges(stops), n)
  <2>1. \A k \in 1..n : k \in 0..n /\ k # 0
    BY <1>1
  <2>2. 0 \in 0..n
    BY <1>1
  <2> HIDE DEF n
  <2>3. QED  BY <1>3, <1>6, <2>1, <2>2 DEF AreTotals
<1>8. \A k \in 0..n : LoadAfter(stops)[k] = g[k]
  <2> HIDE DEF n
  <2>1. QED  BY <1>1, <1>2, <1>7, SameTotals
<1>9. LoadAfter(stops) \in [0..n -> Int]
  <2>1. \A k \in 0..n : LoadAfter(stops)[k] \in Int
    BY <1>2, <1>8
  <2> DEFINE e(k) == IF k = 0 THEN 0
                     ELSE LoadAfter(stops)[k - 1] + (IF stops[k].type = "PICKUP"
                                                     THEN stops[k].demand
                                                     ELSE -stops[k].demand)
  <2>2. LoadAfter(stops) = [k \in 0..n |-> e(k)]
    BY <1>6
  <2> HIDE DEF e
  <2>3. QED  BY <2>1, <2>2
<1>10. QED  BY <1>7, <1>9

Legs(origin, stops) ==
  [k \in 1..Len(stops) |-> Distance[<<PlaceBefore(origin, stops, k), stops[k].at>>]]

LEMMA DistancesAreNumbers ==
  ASSUME NEW ids, NEW stops \in Seq(StopSet(ids)), NEW origin \in Points
  PROVE  DistanceOf(origin, stops) \in Nat
<1> DEFINE n == Len(stops)
<1>1. n \in Nat /\ \A k \in 1..n : stops[k].at \in Points
  BY ChangesAreNumbers DEF StopSet
<1>2. Legs(origin, stops) \in [1..n -> Nat]
  <2>1. ASSUME NEW k \in 1..n
        PROVE  Distance[<<PlaceBefore(origin, stops, k), stops[k].at>>] \in Nat
    <3>1. PlaceBefore(origin, stops, k) \in Points
      <4>1. k # 1 => k - 1 \in 1..n
        BY <1>1
      <4>2. QED  BY <1>1, <4>1 DEF PlaceBefore
    <3>2. QED  BY <1>1, <3>1, RouteAssumption
  <2>2. QED  BY <2>1 DEF Legs
<1>3. PICK g \in [0..n -> Nat] : AreTotals(g, Legs(origin, stops), n)
  <2> HIDE DEF n
  <2>1. Nat \in SUBSET Int /\ 0 \in Nat /\ \A a, b \in Nat : a + b \in Nat
    OBVIOUS
  <2>2. QED  BY <1>1, <1>2, <2>1, TotalsExist
<1>4. \A k \in 1..n : Legs(origin, stops)[k] =
                        Distance[<<PlaceBefore(origin, stops, k), stops[k].at>>]
  BY DEF Legs
<1>5. \A k \in 0..n : k # 0 => k \in 1..n
  BY <1>1
<1>6. g = [k \in 0..n |->
             IF k = 0 THEN 0
             ELSE g[k - 1] + Distance[<<PlaceBefore(origin, stops, k), stops[k].at>>]]
  BY <1>3, <1>4, <1>5 DEF AreTotals
<1>7. PICK km :
        /\ km = [k \in 0..n |->
                   IF k = 0 THEN 0
                   ELSE km[k - 1] + Distance[<<PlaceBefore(origin, stops, k), stops[k].at>>]]
        /\ DistanceOf(origin, stops) = km[n]
  BY <1>6 DEF DistanceOf
<1>8. AreTotals(km, Legs(origin, stops), n)
  <2>1. \A k \in 1..n : k \in 0..n /\ k # 0
    BY <1>1
  <2>2. 0 \in 0..n
    BY <1>1
  <2> HIDE DEF n
  <2>3. QED  BY <1>4, <1>7, <2>1, <2>2 DEF AreTotals
<1>9. \A k \in 0..n : km[k] = g[k]
  <2> HIDE DEF n
  <2>1. QED  BY <1>1, <1>3, <1>8, SameTotals
<1>10. n \in 0..n
  BY <1>1
<1>11. QED  BY <1>3, <1>7, <1>9, <1>10

(***************************************************************************)
(* Insertion.                                                              *)
(***************************************************************************)
IsInsertion(r, s, i, e) ==
  /\ Len(r) = Len(s) + 1
  /\ \A n \in 1..(Len(s) + 1) : r[n] = IF n < i THEN s[n] ELSE IF n = i THEN e ELSE s[n - 1]

LEMMA InsertedOne ==
  ASSUME NEW T, NEW s \in Seq(T), NEW e \in T, NEW i \in 1..(Len(s) + 1)
  PROVE  InsertAt(s, i, e) \in Seq(T) /\ IsInsertion(InsertAt(s, i, e), s, i, e)
<1> DEFINE a == SubSeq(s, 1, i - 1)
           b == SubSeq(s, i, Len(s))
<1>1. Len(s) \in Nat /\ i \in Nat \ {0} /\ i - 1 <= Len(s) /\ DOMAIN s = 1..Len(s)
      /\ \A k \in 1..Len(s) : s[k] \in T
  BY LenProperties, ElementOfSeq
<1>2. a \in Seq(T) /\ Len(a) = i - 1 /\ \A k \in 1..(i - 1) : a[k] = s[k]
  <2>1. 1 \in Int /\ i - 1 \in Int /\ \A k \in 1..(i - 1) : s[k] \in T
    BY <1>1
  <2>2. /\ a \in Seq(T) /\ Len(a) = IF 1 <= i - 1 THEN (i - 1) - 1 + 1 ELSE 0
        /\ \A k \in 1..((i - 1) - 1 + 1) : a[k] = s[1 + k - 1]
    BY <2>1, SubSeqProperties
  <2> HIDE DEF a
  <2>3. QED  BY <1>1, <2>2
<1>3. b \in Seq(T) /\ Len(b) = Len(s) - i + 1 /\ \A k \in 1..(Len(s) - i + 1) : b[k] = s[i + k - 1]
  <2>1. i \in Int /\ Len(s) \in Int /\ \A k \in i..Len(s) : s[k] \in T
    BY <1>1
  <2>2. /\ b \in Seq(T) /\ Len(b) = IF i <= Len(s) THEN Len(s) - i + 1 ELSE 0
        /\ \A k \in 1..(Len(s) - i + 1) : b[k] = s[i + k - 1]
    BY <2>1, SubSeqProperties
  <2> HIDE DEF b
  <2>3. QED  BY <1>1, <2>2
<1>4. <<e>> \in Seq(T) /\ Len(<<e>>) = 1 /\ <<e>>[1] = e
  OBVIOUS
<1> HIDE DEF a, b
<1> DEFINE c == a \o <<e>>
<1>5. /\ c \in Seq(T) /\ Len(c) = i
      /\ \A k \in 1..i : c[k] = IF k <= i - 1 THEN a[k] ELSE <<e>>[k - (i - 1)]
  <2>1. /\ c \in Seq(T) /\ Len(c) = Len(a) + Len(<<e>>)
        /\ \A k \in 1..(Len(a) + Len(<<e>>)) :
             c[k] = IF k <= Len(a) THEN a[k] ELSE <<e>>[k - Len(a)]
    BY <1>2, <1>4, ConcatProperties
  <2>2. Len(a) + Len(<<e>>) = i
    BY <1>1, <1>2, <1>4
  <2> HIDE DEF c
  <2>3. QED  BY <1>2, <2>1, <2>2
<1>6. c[i] = e /\ \A k \in 1..i : k < i => c[k] = s[k]
  <2> HIDE DEF c
  <2>1. ASSUME NEW k \in 1..i, k < i
        PROVE  c[k] = s[k]
    <3>1. k <= i - 1 /\ k \in 1..(i - 1)
      BY <1>1, <2>1
    <3>2. c[k] = a[k] /\ a[k] = s[k]
      BY <1>2, <1>5, <3>1
    <3>3. QED  BY <3>2
  <2>2. c[i] = e
    <3>1. ~ (i <= i - 1) /\ i - (i - 1) = 1 /\ i \in 1..i
      BY <1>1
    <3>2. c[i] = <<e>>[i - (i - 1)]
      BY <1>5, <3>1
    <3>3. QED  BY <1>4, <3>1, <3>2
  <2>3. QED  BY <2>1, <2>2
<1>7. /\ c \o b \in Seq(T) /\ Len(c \o b) = Len(s) + 1
      /\ \A k \in 1..(Len(s) + 1) : (c \o b)[k] = IF k <= i THEN c[k] ELSE b[k - i]
  <2> HIDE DEF c
  <2>1. c \in Seq(T) /\ Len(c) = i
    BY <1>5
  <2>2. /\ c \o b \in Seq(T) /\ Len(c \o b) = Len(c) + Len(b)
        /\ \A k \in 1..(Len(c) + Len(b)) : (c \o b)[k] = IF k <= Len(c) THEN c[k] ELSE b[k - Len(c)]
    BY <1>3, <2>1, ConcatProperties
  <2>3. Len(c) + Len(b) = Len(s) + 1
    BY <1>1, <1>3, <2>1
  <2>4. QED  BY <2>1, <2>2, <2>3
<1> DEFINE d == c \o b
<1>8. ASSUME NEW n \in 1..(Len(s) + 1)
      PROVE  d[n] = IF n < i THEN s[n] ELSE IF n = i THEN e ELSE s[n - 1]
  <2>0. d[n] = IF n <= i THEN c[n] ELSE b[n - i]
    BY <1>7
  <2> HIDE DEF c, d
  <2>1. CASE n < i
    <3>1. n \in 1..i /\ n <= i
      BY <1>1, <2>1
    <3>2. c[n] = s[n]
      BY <1>6, <2>1, <3>1
    <3>3. QED  BY <2>0, <2>1, <3>1, <3>2
  <2>2. CASE n = i
    <3>1. n <= i /\ ~ (n < i)
      BY <1>1, <2>2
    <3>2. QED  BY <1>6, <2>0, <2>2, <3>1
  <2>3. CASE n > i
    <3>1. n - i \in 1..(Len(s) - i + 1) /\ i + (n - i) - 1 = n - 1 /\ ~ (n <= i)
          /\ ~ (n < i) /\ n # i
      BY <1>1, <2>3
    <3>2. b[n - i] = s[n - 1]
      BY <1>3, <3>1
    <3>3. QED  BY <2>0, <3>1, <3>2
  <2>4. QED  BY <1>1, <2>1, <2>2, <2>3
<1>9. InsertAt(s, i, e) = d
  BY DEF InsertAt, a, b
<1>11. d \in Seq(T) /\ Len(d) = Len(s) + 1
  BY <1>7
<1> HIDE DEF c, d
<1>10. QED  BY <1>8, <1>9, <1>11 DEF IsInsertion

(* Where stop n of the route is after a pair has been put at p.            *)
Shift(n, p) == IF n < p[1] THEN n ELSE IF n + 1 < p[2] THEN n + 1 ELSE n + 2

HasPair(r, stops, o, p) ==
  /\ Len(r) = Len(stops) + 2
  /\ p[1] \in 1..(Len(stops) + 2) /\ p[2] \in 1..(Len(stops) + 2) /\ p[1] < p[2]
  /\ r[p[1]] = Stop(o, "PICKUP")
  /\ r[p[2]] = Stop(o, "DROPOFF")
  /\ \A n \in 1..Len(stops) : Shift(n, p) \in 1..(Len(stops) + 2) /\ r[Shift(n, p)] = stops[n]
  /\ \A m \in 1..(Len(stops) + 2) :
       m = p[1] \/ m = p[2] \/ \E n \in 1..Len(stops) : m = Shift(n, p)

LEMMA InsertedPair ==
  ASSUME NEW T, NEW stops \in Seq(T), NEW o, Stop(o, "PICKUP") \in T, Stop(o, "DROPOFF") \in T,
         NEW p \in Positions(stops)
  PROVE  /\ Inserted(stops, o, p) \in Seq(T)
         /\ HasPair(Inserted(stops, o, p), stops, o, p)
<1> DEFINE L == Len(stops)
           x == Stop(o, "PICKUP")
           y == Stop(o, "DROPOFF")
           q == InsertAt(stops, p[1], x)
           r == InsertAt(q, p[2], y)
           i == p[1]
           j == p[2]
<1>1. L \in Nat /\ i \in 1..(L + 1) /\ j \in 2..(L + 2) /\ i < j
  BY LenProperties DEF Positions
<1>2. /\ q \in Seq(T) /\ Len(q) = L + 1
      /\ \A n \in 1..(L + 1) : q[n] = IF n < i THEN stops[n] ELSE IF n = i THEN x ELSE stops[n - 1]
  <2>1. i \in 1..(Len(stops) + 1)
    BY <1>1
  <2>2. q \in Seq(T) /\ IsInsertion(q, stops, i, x)
    BY <2>1, InsertedOne
  <2> HIDE DEF x, i, q
  <2>3. QED  BY <2>2 DEF IsInsertion
<1>3. /\ r \in Seq(T) /\ Len(r) = L + 2
      /\ \A n \in 1..(L + 2) : r[n] = IF n < j THEN q[n] ELSE IF n = j THEN y ELSE q[n - 1]
  <2>1. j \in 1..(Len(q) + 1) /\ Len(q) + 1 = L + 2
    <3> HIDE DEF q, L
    <3>1. QED  BY <1>1, <1>2
  <2>2. r \in Seq(T) /\ IsInsertion(r, q, j, y)
    <3> HIDE DEF q, L
    <3>1. QED  BY <1>2, <2>1, InsertedOne
  <2> HIDE DEF q, y, j, r, L
  <2>3. QED  BY <2>1, <2>2 DEF IsInsertion
<1>4. Inserted(stops, o, p) = r
  BY DEF Inserted
<1> HIDE DEF q, r, x, y, i, j, L
<1>5. r[i] = x
  <2>1. i \in 1..(L + 2) /\ i \in 1..(L + 1)
    BY <1>1
  <2>2. r[i] = q[i] /\ q[i] = x
    BY <1>1, <1>2, <1>3, <2>1
  <2>3. QED  BY <2>2
<1>6. r[j] = y
  <2>1. j \in 1..(L + 2) /\ ~ (j < j)
    BY <1>1
  <2>2. QED  BY <1>3, <2>1
<1>7. ASSUME NEW n \in 1..L
      PROVE  Shift(n, p) \in 1..(L + 2) /\ r[Shift(n, p)] = stops[n]
  <2>1. Shift(n, p) = IF n < i THEN n ELSE IF n + 1 < j THEN n + 1 ELSE n + 2
    BY DEF Shift, i, j
  <2>2. CASE n < i
    <3>1. n \in 1..(L + 2) /\ n < j /\ n \in 1..(L + 1)
      BY <1>1, <2>2
    <3>2. r[n] = q[n] /\ q[n] = stops[n]
      BY <1>2, <1>3, <2>2, <3>1
    <3>3. QED  BY <2>1, <2>2, <3>1, <3>2
  <2>3. CASE ~ (n < i) /\ n + 1 < j
    <3>1. /\ n + 1 \in 1..(L + 2) /\ n + 1 \in 1..(L + 1) /\ (n + 1) - 1 = n
          /\ ~ (n + 1 < i) /\ n + 1 # i
      BY <1>1, <2>3
    <3>2. r[n + 1] = q[n + 1] /\ q[n + 1] = stops[n]
      BY <1>2, <1>3, <2>3, <3>1
    <3>3. QED  BY <2>1, <2>3, <3>1, <3>2
  <2>4. CASE ~ (n < i) /\ ~ (n + 1 < j)
    <3>1. /\ n + 2 \in 1..(L + 2) /\ n + 1 \in 1..(L + 1) /\ (n + 1) - 1 = n /\ (n + 2) - 1 = n + 1
          /\ ~ (n + 1 < i) /\ n + 1 # i /\ ~ (n + 2 < j) /\ n + 2 # j
      BY <1>1, <2>4
    <3>2. r[n + 2] = q[n + 1]
      BY <1>3, <3>1
    <3>4. q[n + 1] = stops[n]
      BY <1>2, <3>1
    <3>3. QED  BY <2>1, <2>4, <3>1, <3>2, <3>4
  <2>5. QED  BY <2>2, <2>3, <2>4
<1>8. ASSUME NEW m \in 1..(L + 2), m # i, m # j
      PROVE  \E n \in 1..L : m = Shift(n, p)
  <2>1. \A n \in 1..L : Shift(n, p) = IF n < i THEN n ELSE IF n + 1 < j THEN n + 1 ELSE n + 2
    BY DEF Shift, i, j
  <2>2. CASE m < i
    <3>1. m \in 1..L
      BY <1>1, <2>2
    <3>2. QED  BY <2>1, <2>2, <3>1
  <2>3. CASE i < m /\ m < j
    <3>1. m - 1 \in 1..L /\ ~ (m - 1 < i) /\ (m - 1) + 1 = m
      BY <1>1, <2>3
    <3>2. QED  BY <2>1, <2>3, <3>1
  <2>4. CASE j < m
    <3>1. m - 2 \in 1..L /\ ~ (m - 2 < i) /\ ~ ((m - 2) + 1 < j) /\ (m - 2) + 2 = m
      BY <1>1, <2>4
    <3>2. QED  BY <2>1, <3>1
  <2>5. QED  BY <1>1, <1>8, <2>2, <2>3, <2>4
<1>9. i \in 1..(L + 2) /\ j \in 1..(L + 2)
  BY <1>1
<1>10. QED
  BY <1>1, <1>3, <1>4, <1>5, <1>6, <1>7, <1>8, <1>9 DEF HasPair, i, j, x, y, L

(* Shifting keeps the order, and leaves room for the pair.                 *)
LEMMA ShiftKeepsOrder ==
  ASSUME NEW stops, Len(stops) \in Nat, NEW p \in Positions(stops),
         NEW n \in 1..Len(stops)
  PROVE  /\ Shift(n, p) # p[1] /\ Shift(n, p) # p[2]
         /\ \A m \in 1..Len(stops) : n < m => Shift(n, p) < Shift(m, p)
         /\ \A m \in 1..Len(stops) : Shift(n, p) = Shift(m, p) => n = m
BY DEF Shift, Positions

(***************************************************************************)
(* What a route visits.                                                    *)
(***************************************************************************)
Ids(orders) == {orders[i].id : i \in DOMAIN orders}

StopTypes == {"PICKUP", "DROPOFF"}

OrdersAreValid(orders) ==
  /\ orders \in Seq(ToSet(orders))
  /\ \A i \in DOMAIN orders : /\ orders[i].demand \in Nat
                              /\ {orders[i].pickup, orders[i].dropoff} \subseteq Points
  /\ IsInjective([i \in DOMAIN orders |-> orders[i].id])

(* The route visits the orders of A, each at a pick-up and a later         *)
(* drop-off, and nobody else.                                              *)
Serves(stops, orders, A) ==
  /\ A \in SUBSET DOMAIN orders
  /\ stops \in Seq(StopSet(Ids(orders)))
  /\ \A k \in 1..Len(stops) :
       \E i \in A, type \in StopTypes : stops[k] = Stop(orders[i], type)
  /\ \A i \in A : PickupBeforeDropoff(stops, orders[i])
  /\ Len(stops) = 2 * Cardinality(A)

LEMMA StopsAreTold ==
  ASSUME NEW orders, OrdersAreValid(orders), NEW i \in DOMAIN orders, NEW type \in StopTypes
  PROVE  /\ Stop(orders[i], type) \in StopSet(Ids(orders))
         /\ Stop(orders[i], type).order = orders[i].id
         /\ Stop(orders[i], type).type = type
         /\ Stop(orders[i], type).demand = orders[i].demand
         /\ \A j \in DOMAIN orders : orders[i].id = orders[j].id => i = j
         /\ \A j \in DOMAIN orders, t \in StopTypes :
              Stop(orders[i], type) = Stop(orders[j], t) => i = j /\ type = t
<1>1. \A j \in DOMAIN orders : orders[i].id = orders[j].id => i = j
  <2> DEFINE ids == [j \in DOMAIN orders |-> orders[j].id]
  <2>1. \A j \in DOMAIN orders : ids[i] = ids[j] => i = j
    BY DEF OrdersAreValid, IsInjective
  <2>2. QED  BY <2>1
<1>2. /\ Stop(orders[i], type).order = orders[i].id
      /\ Stop(orders[i], type).type = type
      /\ Stop(orders[i], type).demand = orders[i].demand
  BY DEF Stop
<1>3. Stop(orders[i], type) \in StopSet(Ids(orders))
  <2>1. orders[i].pickup \in Points /\ orders[i].dropoff \in Points /\ orders[i].demand \in Nat
    BY DEF OrdersAreValid
  <2>2. orders[i].id \in Ids(orders)
    BY DEF Ids
  <2>3. (IF type = "PICKUP" THEN orders[i].pickup ELSE orders[i].dropoff) \in Points
    BY <2>1
  <2>4. QED  BY <2>1, <2>2, <2>3 DEF Stop, StopSet, StopTypes
<1>4. ASSUME NEW j \in DOMAIN orders, NEW t \in StopTypes,
             Stop(orders[i], type) = Stop(orders[j], t)
      PROVE  i = j /\ type = t
  <2>1. Stop(orders[j], t).order = orders[j].id /\ Stop(orders[j], t).type = t
    BY DEF Stop
  <2>2. QED  BY <1>1, <1>2, <1>4, <2>1
<1>5. QED  BY <1>1, <1>2, <1>3, <1>4

(* Where a route stops after a pair has been put into it.                  *)
LEMMA StopsInserted ==
  ASSUME NEW orders, OrdersAreValid(orders), NEW stops \in Seq(StopSet(Ids(orders))),
         NEW i \in DOMAIN orders, NEW p \in Positions(stops),
         StopsOf(stops, orders[i], "PICKUP") = {}, StopsOf(stops, orders[i], "DROPOFF") = {}
  PROVE  /\ StopsOf(Inserted(stops, orders[i], p), orders[i], "PICKUP") = {p[1]}
         /\ StopsOf(Inserted(stops, orders[i], p), orders[i], "DROPOFF") = {p[2]}
         /\ \A j \in DOMAIN orders, type \in StopTypes :
              j # i => StopsOf(Inserted(stops, orders[i], p), orders[j], type) =
                       {Shift(n, p) : n \in StopsOf(stops, orders[j], type)}
<1> DEFINE T == StopSet(Ids(orders))
           R == Inserted(stops, orders[i], p)
           L == Len(stops)
<1>0. "PICKUP" \in StopTypes /\ "DROPOFF" \in StopTypes
  BY DEF StopTypes
<1>1. Stop(orders[i], "PICKUP") \in T /\ Stop(orders[i], "DROPOFF") \in T
  BY <1>0, StopsAreTold
<1>2. /\ R \in Seq(T) /\ Len(R) = L + 2
      /\ p[1] \in 1..(L + 2) /\ p[2] \in 1..(L + 2) /\ p[1] < p[2]
      /\ R[p[1]] = Stop(orders[i], "PICKUP") /\ R[p[2]] = Stop(orders[i], "DROPOFF")
      /\ \A n \in 1..L : Shift(n, p) \in 1..(L + 2) /\ R[Shift(n, p)] = stops[n]
      /\ \A m \in 1..(L + 2) : m = p[1] \/ m = p[2] \/ \E n \in 1..L : m = Shift(n, p)
  <2>1. R \in Seq(T) /\ HasPair(R, stops, orders[i], p)
    <3> HIDE DEF T
    <3>1. QED  BY <1>1, InsertedPair DEF T
  <2> HIDE DEF T, R
  <2>2. QED  BY <2>1 DEF HasPair
<1>3. DOMAIN stops = 1..L /\ L \in Nat /\ DOMAIN R = 1..(L + 2)
  BY <1>2, LenProperties
<1> HIDE DEF R, L, T
<1>4. \A n \in 1..L, type \in StopTypes : stops[n] # Stop(orders[i], type)
  BY <1>3 DEF StopsOf, StopTypes
<1>5. Stop(orders[i], "PICKUP") # Stop(orders[i], "DROPOFF")
  <2>1. "PICKUP" # "DROPOFF"
    OBVIOUS
  <2>2. QED  BY <1>0, <2>1, StopsAreTold
<1>6. StopsOf(R, orders[i], "PICKUP") = {p[1]}
  BY <1>0, <1>2, <1>3, <1>4, <1>5 DEF StopsOf
<1>7. StopsOf(R, orders[i], "DROPOFF") = {p[2]}
  BY <1>0, <1>2, <1>3, <1>4, <1>5 DEF StopsOf
<1>8. ASSUME NEW j \in DOMAIN orders, NEW type \in StopTypes, j # i
      PROVE  StopsOf(R, orders[j], type) = {Shift(n, p) : n \in StopsOf(stops, orders[j], type)}
  <2>1. R[p[1]] # Stop(orders[j], type) /\ R[p[2]] # Stop(orders[j], type)
    BY <1>0, <1>2, <1>8, StopsAreTold
  <2>2. \A n \in StopsOf(stops, orders[j], type) : Shift(n, p) \in StopsOf(R, orders[j], type)
    BY <1>2, <1>3 DEF StopsOf
  <2>3. \A m \in StopsOf(R, orders[j], type) :
          \E n \in StopsOf(stops, orders[j], type) : m = Shift(n, p)
    <3>1. ASSUME NEW m \in StopsOf(R, orders[j], type)
          PROVE  \E n \in StopsOf(stops, orders[j], type) : m = Shift(n, p)
      <4>1. m \in 1..(L + 2) /\ R[m] = Stop(orders[j], type)
        BY <1>3 DEF StopsOf
      <4>2. PICK n \in 1..L : m = Shift(n, p)
        BY <1>2, <2>1, <4>1
      <4>3. n \in StopsOf(stops, orders[j], type)
        BY <1>2, <1>3, <4>1, <4>2 DEF StopsOf
      <4>4. QED  BY <4>2, <4>3
    <3>2. QED  BY <3>1
  <2>4. QED  BY <2>2, <2>3
<1>9. QED  BY <1>6, <1>7, <1>8 DEF R

LEMMA ServesInserted ==
  ASSUME NEW orders, OrdersAreValid(orders), NEW A, NEW stops, Serves(stops, orders, A),
         NEW i \in DOMAIN orders, i \notin A, NEW p \in Positions(stops)
  PROVE  Serves(Inserted(stops, orders[i], p), orders, A \cup {i})
<1> DEFINE T == StopSet(Ids(orders))
           R == Inserted(stops, orders[i], p)
           L == Len(stops)
<1>0. "PICKUP" \in StopTypes /\ "DROPOFF" \in StopTypes
  BY DEF StopTypes
<1>1. Stop(orders[i], "PICKUP") \in T /\ Stop(orders[i], "DROPOFF") \in T
  BY <1>0, StopsAreTold
<1>2. stops \in Seq(T) /\ A \in SUBSET DOMAIN orders
  BY DEF Serves
<1>3. /\ R \in Seq(T) /\ Len(R) = L + 2
      /\ p[1] \in 1..(L + 2) /\ p[2] \in 1..(L + 2) /\ p[1] < p[2]
      /\ R[p[1]] = Stop(orders[i], "PICKUP") /\ R[p[2]] = Stop(orders[i], "DROPOFF")
      /\ \A n \in 1..L : Shift(n, p) \in 1..(L + 2) /\ R[Shift(n, p)] = stops[n]
      /\ \A m \in 1..(L + 2) : m = p[1] \/ m = p[2] \/ \E n \in 1..L : m = Shift(n, p)
  <2>1. R \in Seq(T) /\ HasPair(R, stops, orders[i], p)
    <3> HIDE DEF T
    <3>1. QED  BY <1>1, <1>2, InsertedPair
  <2> HIDE DEF T, R
  <2>2. QED  BY <2>1 DEF HasPair
<1>4. DOMAIN stops = 1..L /\ L \in Nat /\ DOMAIN R = 1..(L + 2)
  BY <1>2, <1>3, LenProperties
<1>5. \A type \in StopTypes : StopsOf(stops, orders[i], type) = {}
  <2>1. ASSUME NEW type \in StopTypes, NEW n \in 1..L, stops[n] = Stop(orders[i], type)
        PROVE  FALSE
    <3>1. PICK j \in A, t \in StopTypes : stops[n] = Stop(orders[j], t)
      BY DEF Serves
    <3>2. j \in DOMAIN orders /\ Stop(orders[i], type) = Stop(orders[j], t)
      BY <1>2, <2>1, <3>1
    <3>3. i = j
      BY <3>2, StopsAreTold
    <3>4. QED  BY <3>3
  <2> HIDE DEF L
  <2>2. QED  BY <1>4, <2>1 DEF StopsOf
<1>6. /\ StopsOf(R, orders[i], "PICKUP") = {p[1]}
      /\ StopsOf(R, orders[i], "DROPOFF") = {p[2]}
      /\ \A j \in DOMAIN orders, type \in StopTypes :
           j # i => StopsOf(R, orders[j], type) = {Shift(n, p) : n \in StopsOf(stops, orders[j], type)}
  BY <1>0, <1>2, <1>5, StopsInserted
<1> HIDE DEF R, L, T
<1>7. \A m \in 1..Len(R) : \E j \in A \cup {i}, type \in StopTypes : R[m] = Stop(orders[j], type)
  <2>1. \A n \in 1..L : \E j \in A, type \in StopTypes : stops[n] = Stop(orders[j], type)
    BY DEF Serves, L
  <2>2. QED  BY <1>0, <1>3, <2>1
<1>8. PickupBeforeDropoff(R, orders[i])
  BY <1>3, <1>4, <1>6 DEF PickupBeforeDropoff
<1>9. ASSUME NEW j \in A
      PROVE  PickupBeforeDropoff(R, orders[j])
  <2>1. PICK k, l \in 1..L : /\ k < l
                             /\ StopsOf(stops, orders[j], "PICKUP") = {k}
                             /\ StopsOf(stops, orders[j], "DROPOFF") = {l}
    BY <1>4 DEF Serves, PickupBeforeDropoff
  <2>2. /\ StopsOf(R, orders[j], "PICKUP") = {Shift(k, p)}
        /\ StopsOf(R, orders[j], "DROPOFF") = {Shift(l, p)}
    BY <1>0, <1>2, <1>6, <2>1
  <2>3. Shift(k, p) < Shift(l, p)
    BY <1>4, <2>1, ShiftKeepsOrder DEF L
  <2>4. Shift(k, p) \in DOMAIN R /\ Shift(l, p) \in DOMAIN R
    BY <1>3, <1>4
  <2>5. QED  BY <2>2, <2>3, <2>4 DEF PickupBeforeDropoff
<1>10. Len(R) = 2 * Cardinality(A \cup {i})
  <2>1. IsFiniteSet(DOMAIN orders)
    <3>1. DOMAIN orders = 1..Len(orders) /\ Len(orders) \in Int /\ 1 \in Int
      BY LenProperties DEF OrdersAreValid
    <3>2. QED  BY <3>1, FS_Interval
  <2>2. IsFiniteSet(A) /\ Cardinality(A) \in Nat
    BY <1>2, <2>1, FS_Subset, FS_CardinalityType
  <2>3. Cardinality(A \cup {i}) = Cardinality(A) + 1
    BY <2>2, FS_AddElement
  <2>4. L = 2 * Cardinality(A)
    BY DEF Serves, L
  <2>5. QED  BY <1>3, <2>2, <2>3, <2>4
<1>11. QED  BY <1>2, <1>3, <1>7, <1>8, <1>9, <1>10 DEF Serves, R, T

(***************************************************************************)
(* What is in the vehicle.  The orders on board after k stops are those    *)
(* between their two stops, and the load is the sum of their demands.      *)
(***************************************************************************)
(* Order j is picked up at stop k and dropped at stop l.                   *)
Rides(stops, orders, j, k, l) ==
  /\ k \in 1..Len(stops) /\ l \in 1..Len(stops) /\ k < l
  /\ \A n \in 1..Len(stops) : /\ stops[n] = Stop(orders[j], "PICKUP") <=> n = k
                              /\ stops[n] = Stop(orders[j], "DROPOFF") <=> n = l
  /\ \A m \in Int : j \in OnBoard(stops, orders, m) <=> k <= m /\ m < l

LEMMA ServedRides ==
  ASSUME NEW orders, OrdersAreValid(orders), NEW A, NEW stops, Serves(stops, orders, A)
  PROVE  /\ \A m \in Int : OnBoard(stops, orders, m) \in SUBSET A
         /\ \A j \in A : \E k, l \in 1..Len(stops) : Rides(stops, orders, j, k, l)
<1>1. /\ stops \in Seq(StopSet(Ids(orders))) /\ A \in SUBSET DOMAIN orders
      /\ DOMAIN stops = 1..Len(stops) /\ Len(stops) \in Nat
  BY LenProperties DEF Serves
<1>2. ASSUME NEW m \in Int, NEW j \in OnBoard(stops, orders, m)
      PROVE  j \in A
  <2>1. j \in DOMAIN orders /\ \E n \in StopsOf(stops, orders[j], "PICKUP") : n <= m
    BY <1>2 DEF OnBoard
  <2>2. PICK n \in 1..Len(stops) : stops[n] = Stop(orders[j], "PICKUP")
    BY <1>1, <2>1 DEF StopsOf
  <2>3. PICK i \in A, t \in StopTypes : stops[n] = Stop(orders[i], t)
    BY DEF Serves
  <2>4. i \in DOMAIN orders /\ Stop(orders[j], "PICKUP") = Stop(orders[i], t)
        /\ "PICKUP" \in StopTypes
    BY <1>1, <2>2, <2>3 DEF StopTypes
  <2>5. j = i
    BY <2>1, <2>4, StopsAreTold
  <2>6. QED  BY <2>5
<1>3. ASSUME NEW j \in A
      PROVE  \E k, l \in 1..Len(stops) : Rides(stops, orders, j, k, l)
  <2>1. PICK k, l \in 1..Len(stops) : /\ k < l
                                      /\ StopsOf(stops, orders[j], "PICKUP") = {k}
                                      /\ StopsOf(stops, orders[j], "DROPOFF") = {l}
    BY <1>1 DEF Serves, PickupBeforeDropoff
  <2>2. \A n \in 1..Len(stops) : /\ stops[n] = Stop(orders[j], "PICKUP") <=> n = k
                                 /\ stops[n] = Stop(orders[j], "DROPOFF") <=> n = l
    BY <1>1, <2>1 DEF StopsOf
  <2>3. \A m \in Int : j \in OnBoard(stops, orders, m) <=> k <= m /\ m < l
    BY <1>1, <2>1 DEF OnBoard
  <2>4. Rides(stops, orders, j, k, l)
    BY <2>1, <2>2, <2>3 DEF Rides
  <2>5. QED  BY <2>4
<1>4. QED  BY <1>2, <1>3

LEMMA BoardChanges ==
  ASSUME NEW orders, OrdersAreValid(orders), NEW A, NEW stops, Serves(stops, orders, A),
         NEW m \in 1..Len(stops), NEW i \in A
  PROVE  /\ stops[m] = Stop(orders[i], "PICKUP") =>
              /\ i \notin OnBoard(stops, orders, m - 1)
              /\ OnBoard(stops, orders, m) = OnBoard(stops, orders, m - 1) \cup {i}
         /\ stops[m] = Stop(orders[i], "DROPOFF") =>
              /\ i \notin OnBoard(stops, orders, m)
              /\ OnBoard(stops, orders, m - 1) = OnBoard(stops, orders, m) \cup {i}
<1>1. /\ stops \in Seq(StopSet(Ids(orders))) /\ A \in SUBSET DOMAIN orders /\ Len(stops) \in Nat
  BY LenProperties DEF Serves
<1>2. /\ m \in Int /\ m - 1 \in Int
      /\ OnBoard(stops, orders, m) \in SUBSET A /\ OnBoard(stops, orders, m - 1) \in SUBSET A
  BY <1>1, ServedRides
<1>3. "PICKUP" \in StopTypes /\ "DROPOFF" \in StopTypes
  BY DEF StopTypes
<1>4. ASSUME NEW j \in A, NEW t \in StopTypes, stops[m] = Stop(orders[i], t), j # i
      PROVE  j \in OnBoard(stops, orders, m) <=> j \in OnBoard(stops, orders, m - 1)
  <2>1. PICK k, l \in 1..Len(stops) : Rides(stops, orders, j, k, l)
    BY ServedRides
  <2>2. i \in DOMAIN orders /\ j \in DOMAIN orders
    BY <1>1
  <2>3. m # k
    <3>1. SUFFICES ASSUME m = k PROVE FALSE
      OBVIOUS
    <3>2. stops[m] = Stop(orders[j], "PICKUP")
      BY <2>1, <3>1 DEF Rides
    <3>3. Stop(orders[i], t) = Stop(orders[j], "PICKUP")
      BY <1>4, <3>2
    <3>4. QED  BY <1>3, <1>4, <2>2, <3>3, StopsAreTold
  <2>4. m # l
    <3>1. SUFFICES ASSUME m = l PROVE FALSE
      OBVIOUS
    <3>2. stops[m] = Stop(orders[j], "DROPOFF")
      BY <2>1, <3>1 DEF Rides
    <3>3. Stop(orders[i], t) = Stop(orders[j], "DROPOFF")
      BY <1>4, <3>2
    <3>4. QED  BY <1>3, <1>4, <2>2, <3>3, StopsAreTold
  <2>5. /\ j \in OnBoard(stops, orders, m) <=> k <= m /\ m < l
        /\ j \in OnBoard(stops, orders, m - 1) <=> k <= m - 1 /\ m - 1 < l
    BY <1>2, <2>1 DEF Rides
  <2>6. k \in Int /\ l \in Int /\ k < l
    BY <2>1 DEF Rides
  <2>7. QED  BY <1>2, <2>3, <2>4, <2>5, <2>6
<1>5. PICK k, l \in 1..Len(stops) : Rides(stops, orders, i, k, l)
  BY ServedRides
<1>6. /\ i \in OnBoard(stops, orders, m) <=> k <= m /\ m < l
      /\ i \in OnBoard(stops, orders, m - 1) <=> k <= m - 1 /\ m - 1 < l
      /\ k < l
      /\ stops[m] = Stop(orders[i], "PICKUP") <=> m = k
      /\ stops[m] = Stop(orders[i], "DROPOFF") <=> m = l
  BY <1>2, <1>5 DEF Rides
<1>7. CASE stops[m] = Stop(orders[i], "PICKUP")
  <2>1. i \in OnBoard(stops, orders, m) /\ i \notin OnBoard(stops, orders, m - 1)
    BY <1>2, <1>6, <1>7
  <2>2. stops[m] # Stop(orders[i], "DROPOFF")
    BY <1>2, <1>6, <1>7
  <2>3. \A j \in A : j # i => (j \in OnBoard(stops, orders, m) <=>
                               j \in OnBoard(stops, orders, m - 1))
    BY <1>3, <1>4, <1>7
  <2>4. QED  BY <1>2, <2>1, <2>2, <2>3
<1>8. CASE stops[m] = Stop(orders[i], "DROPOFF")
  <2>1. i \notin OnBoard(stops, orders, m) /\ i \in OnBoard(stops, orders, m - 1)
    BY <1>2, <1>6, <1>8
  <2>2. stops[m] # Stop(orders[i], "PICKUP")
    BY <1>2, <1>6, <1>8
  <2>3. \A j \in A : j # i => (j \in OnBoard(stops, orders, m) <=>
                               j \in OnBoard(stops, orders, m - 1))
    BY <1>3, <1>4, <1>8
  <2>4. QED  BY <1>2, <2>1, <2>2, <2>3
<1>9. QED  BY <1>7, <1>8

Demands(orders) == [i \in DOMAIN orders |-> orders[i].demand]

(* The load after m stops, as the code adds it up, is what is on board.    *)
LEMMA LoadIsSum ==
  ASSUME NEW orders, OrdersAreValid(orders), NEW A, NEW stops, Serves(stops, orders, A)
  PROVE  /\ \A m \in 0..Len(stops) :
              /\ LoadAfter(stops)[m] =
                   SumFunctionOnSet(Demands(orders), OnBoard(stops, orders, m))
              /\ LoadAfter(stops)[m] \in Nat
         /\ LoadAfter(stops)[Len(stops)] = 0
<1> DEFINE L == Len(stops)
           Board(m) == OnBoard(stops, orders, m)
           Sum(S) == SumFunctionOnSet(Demands(orders), S)
           N == {m \in Nat : m <= L => LoadAfter(stops)[m] = Sum(Board(m))}
<1>1. /\ stops \in Seq(StopSet(Ids(orders))) /\ A \in SUBSET DOMAIN orders /\ L \in Nat
  BY LenProperties DEF Serves
<1>2. Demands(orders) \in [DOMAIN orders -> Nat]
  BY DEF Demands, OrdersAreValid
<1>3. \A m \in Int : Board(m) \in SUBSET DOMAIN orders /\ IsFiniteSet(Board(m))
  <2>1. IsFiniteSet(DOMAIN orders)
    <3>1. DOMAIN orders = 1..Len(orders) /\ Len(orders) \in Int /\ 1 \in Int
      BY LenProperties DEF OrdersAreValid
    <3>2. QED  BY <3>1, FS_Interval
  <2>2. \A m \in Int : Board(m) \in SUBSET DOMAIN orders
    BY DEF OnBoard
  <2>3. QED  BY <2>1, <2>2, FS_Subset
<1>4. AreTotals(LoadAfter(stops), LoadChanges(stops), L)
  BY <1>1, LoadsAreTotals
<1>5. ASSUME NEW m \in Int, Board(m) = {}
      PROVE  Sum(Board(m)) = 0
  BY <1>2, <1>5, SumOfNone
<1>6. Board(0) = {}
  <2>1. ASSUME NEW j \in Board(0) PROVE FALSE
    <3>1. j \in A
      BY ServedRides
    <3>2. PICK k, l \in 1..L : Rides(stops, orders, j, k, l)
      BY <3>1, ServedRides
    <3>3. k <= 0
      BY <2>1, <3>2 DEF Rides
    <3>4. QED  BY <3>3
  <2>2. QED  BY <2>1
<1>7. Board(L) = {}
  <2>1. ASSUME NEW j \in Board(L) PROVE FALSE
    <3>1. j \in A
      BY <1>1, ServedRides
    <3>2. PICK k, l \in 1..L : Rides(stops, orders, j, k, l)
      BY <3>1, ServedRides
    <3>3. L < l
      BY <1>1, <2>1, <3>2 DEF Rides
    <3>4. QED  BY <1>1, <3>3
  <2>2. QED  BY <2>1
<1>8. 0 \in N
  BY <1>4, <1>5, <1>6 DEF AreTotals
<1>9. ASSUME NEW n \in N
      PROVE  n + 1 \in N
  <2>1. n \in Nat /\ n + 1 \in Nat /\ (n <= L => LoadAfter(stops)[n] = Sum(Board(n)))
    OBVIOUS
  <2> SUFFICES ASSUME n + 1 <= L PROVE LoadAfter(stops)[n + 1] = Sum(Board(n + 1))
    BY <2>1
  <2>2. n + 1 \in 1..L /\ n \in Int /\ n + 1 \in Int /\ (n + 1) - 1 = n /\ n <= L
    BY <1>1, <2>1
  <2>3. PICK i \in A, type \in StopTypes : stops[n + 1] = Stop(orders[i], type)
    BY <2>2 DEF Serves
  <2>4. i \in DOMAIN orders /\ orders[i].demand \in Nat /\ Demands(orders)[i] = orders[i].demand
    BY <1>1 DEF OrdersAreValid, Demands
  <2>5. LoadAfter(stops)[n + 1] = LoadAfter(stops)[n] + LoadChanges(stops)[n + 1]
    BY <1>4, <2>2 DEF AreTotals
  <2>6. stops[n + 1].type = type /\ stops[n + 1].demand = orders[i].demand
    BY <2>3, <2>4, StopsAreTold
  <2>7. LoadChanges(stops)[n + 1] = IF type = "PICKUP" THEN orders[i].demand ELSE -orders[i].demand
    BY <2>2, <2>6 DEF LoadChanges, LoadChange
  <2>8. LoadAfter(stops)[n] = Sum(Board(n))
    BY <2>1, <2>2
  <2> HIDE DEF N
  <2>9. CASE type = "PICKUP"
    <3>1. i \notin Board(n) /\ Board(n + 1) = Board(n) \cup {i}
      BY <2>2, <2>3, <2>9, BoardChanges
    <3>2. Board(n) \in SUBSET DOMAIN orders /\ IsFiniteSet(Board(n))
      BY <1>3, <2>2
    <3> HIDE DEF Board
    <3>3. Sum(Board(n)) \in Nat
          /\ Sum(Board(n) \cup {i}) = Demands(orders)[i] + Sum(Board(n))
      BY <1>2, <2>4, <3>1, <3>2, SumOfOneMore
    <3> HIDE DEF Sum
    <3>4. LoadChanges(stops)[n + 1] = orders[i].demand
      BY <2>7, <2>9
    <3>5. Sum(Board(n + 1)) = Sum(Board(n) \cup {i})
      BY <3>1
    <3>6. QED  BY <2>4, <2>5, <2>8, <3>3, <3>4, <3>5
  <2>10. CASE type = "DROPOFF"
    <3>1. i \notin Board(n + 1) /\ Board(n) = Board(n + 1) \cup {i}
      BY <2>2, <2>3, <2>10, BoardChanges
    <3>2. Board(n + 1) \in SUBSET DOMAIN orders /\ IsFiniteSet(Board(n + 1))
      BY <1>3, <2>2
    <3> HIDE DEF Board
    <3>3. Sum(Board(n + 1)) \in Nat
          /\ Sum(Board(n + 1) \cup {i}) = Demands(orders)[i] + Sum(Board(n + 1))
      BY <1>2, <2>4, <3>1, <3>2, SumOfOneMore
    <3> HIDE DEF Sum
    <3>4. LoadChanges(stops)[n + 1] = -orders[i].demand
      BY <2>7, <2>10
    <3>5. QED  BY <2>4, <2>5, <2>8, <3>1, <3>3, <3>4
  <2>11. QED  BY <2>9, <2>10 DEF StopTypes
<1>10. N = Nat
  <2>1. N \in SUBSET Nat
    OBVIOUS
  <2> HIDE DEF N
  <2>2. QED  BY <1>8, <1>9, <2>1, CountingUp
<1>11. \A m \in 0..L : LoadAfter(stops)[m] = Sum(Board(m))
  <2> HIDE DEF Sum, Board, L
  <2>1. QED  BY <1>1, <1>10
<1>12. ASSUME NEW m \in 0..L
       PROVE  Sum(Board(m)) \in Nat
  <2>1. m \in Int
    BY <1>1
  <2>2. CASE Board(m) = {}
    <3>1. Sum(Board(m)) = 0
      BY <1>5, <2>1, <2>2
    <3>2. QED  BY <3>1
  <2>3. CASE Board(m) # {}
    <3>1. PICK x : x \in Board(m)
      BY <2>3
    <3>2. Board(m) \in SUBSET DOMAIN orders /\ IsFiniteSet(Board(m))
      BY <1>3, <2>1
    <3> HIDE DEF Board
    <3> DEFINE S == Board(m) \ {x}
    <3>3. S \in SUBSET DOMAIN orders /\ IsFiniteSet(S) /\ x \in DOMAIN orders /\ x \notin S
          /\ Board(m) = S \cup {x}
      BY <3>1, <3>2, FS_RemoveElement
    <3> HIDE DEF S
    <3>4. Sum(S) \in Nat /\ Sum(S \cup {x}) = Demands(orders)[x] + Sum(S)
      BY <1>2, <3>3, SumOfOneMore
    <3>5. Demands(orders)[x] \in Nat
      BY <1>2, <3>3
    <3> HIDE DEF Sum
    <3>6. QED  BY <3>3, <3>4, <3>5
  <2>4. QED  BY <2>2, <2>3
<1>13. LoadAfter(stops)[L] = 0
  <2>1. L \in 0..L /\ L \in Int
    BY <1>1
  <2>2. LoadAfter(stops)[L] = Sum(Board(L))
    <3> HIDE DEF L, Board, Sum
    <3>1. QED  BY <1>11, <2>1
  <2>3. Sum(Board(L)) = 0
    <3> HIDE DEF L, Board, Sum
    <3>1. QED  BY <1>5, <1>7, <2>1
  <2>4. QED  BY <2>2, <2>3
<1>14. QED  BY <1>11, <1>12, <1>13

(* The route is feasible just when what is on board always fits: the pair  *)
(* is in order by construction, and the vehicle is empty in the end.       *)
LEMMA FeasibleIffItFits ==
  ASSUME NEW orders, OrdersAreValid(orders), NEW A, NEW stops, Serves(stops, orders, A),
         NEW capacity \in Nat
  PROVE  IsCapacityFeasible(stops, capacity) <=>
           \A k \in 1..Len(stops) :
             SumFunctionOnSet(Demands(orders), OnBoard(stops, orders, k)) <= capacity
<1> DEFINE Sum(k) == SumFunctionOnSet(Demands(orders), OnBoard(stops, orders, k))
           L == Len(stops)
<1>1. /\ A \in SUBSET DOMAIN orders /\ DOMAIN stops = 1..L /\ L \in Nat
  BY LenProperties DEF Serves
<1>2. ASSUME NEW k \in 1..L
      PROVE  (stops[k].type = "PICKUP") # PickedBefore(stops, k)
  <2>1. PICK i \in A, type \in StopTypes : stops[k] = Stop(orders[i], type)
    BY DEF Serves
  <2>2. i \in DOMAIN orders /\ stops[k].order = orders[i].id /\ stops[k].type = type
    BY <1>1, <2>1, StopsAreTold
  <2>3. PICK m, l \in 1..L : Rides(stops, orders, i, m, l)
    BY ServedRides
  <2>4. PickedBefore(stops, k) <=> m < k
    <3>1. ASSUME NEW n \in 1..(k - 1), stops[n].order = stops[k].order, stops[n].type = "PICKUP"
          PROVE  n = m
      <4>1. n \in 1..L
        BY <1>1
      <4>2. PICK j \in A, t \in StopTypes : stops[n] = Stop(orders[j], t)
        BY <4>1 DEF Serves
      <4>3. j \in DOMAIN orders /\ stops[n].order = orders[j].id /\ stops[n].type = t
        BY <1>1, <4>2, StopsAreTold
      <4>4. i = j
        BY <2>1, <2>2, <3>1, <4>3, StopsAreTold
      <4>5. stops[n] = Stop(orders[i], "PICKUP")
        BY <3>1, <4>2, <4>3, <4>4
      <4>6. QED  BY <2>3, <4>1, <4>5 DEF Rides
    <3>2. ASSUME m < k
          PROVE  m \in 1..(k - 1) /\ stops[m].order = stops[k].order /\ stops[m].type = "PICKUP"
      <4>1. stops[m] = Stop(orders[i], "PICKUP")
        BY <2>3 DEF Rides
      <4>2. "PICKUP" \in StopTypes
        BY DEF StopTypes
      <4>3. stops[m].order = orders[i].id /\ stops[m].type = "PICKUP"
        BY <2>2, <4>1, <4>2, StopsAreTold
      <4>4. QED  BY <1>1, <2>2, <3>2, <4>3
    <3>3. \A n \in 1..(k - 1) : n < k
      BY <1>1
    <3>4. QED  BY <3>1, <3>2, <3>3 DEF PickedBefore
  <2>8. PickedBefore(stops, k) \in BOOLEAN
    BY DEF PickedBefore
  <2>5. CASE type = "PICKUP"
    <3>1. k = m
      BY <2>1, <2>3, <2>5 DEF Rides
    <3>2. QED  BY <1>1, <2>2, <2>4, <2>5, <2>8, <3>1
  <2>6. CASE type = "DROPOFF"
    <3>1. k = l /\ m < l
      BY <2>1, <2>3, <2>6 DEF Rides
    <3>2. QED  BY <1>1, <2>2, <2>4, <2>6, <2>8, <3>1
  <2>7. QED  BY <2>5, <2>6 DEF StopTypes
<1>3. /\ \A k \in 1..L : LoadAfter(stops)[k] = Sum(k) /\ LoadAfter(stops)[k] \in Nat
      /\ LoadAfter(stops)[L] = 0
  <2>1. \A k \in 1..L : k \in 0..L
    BY <1>1
  <2>2. QED  BY <2>1, LoadIsSum
<1> HIDE DEF Sum, L
<1>4. \A k \in 1..L : LoadAfter(stops)[k] \in 0..capacity <=> Sum(k) <= capacity
  BY <1>3
<1>5. IsCapacityFeasible(stops, capacity) <=> \A k \in 1..L : Sum(k) <= capacity
  BY <1>1, <1>2, <1>3, <1>4 DEF IsCapacityFeasible, L
<1>6. QED  BY <1>5 DEF Sum, L

(***************************************************************************)
(* The two choices of the planner.                                         *)
(***************************************************************************)
(* A pair that fits into the empty vehicle can be put at the end.          *)
LEMMA FitsAtTheEnd ==
  ASSUME NEW orders, OrdersAreValid(orders), NEW A, NEW stops, Serves(stops, orders, A),
         NEW capacity \in Nat, IsCapacityFeasible(stops, capacity),
         NEW i \in DOMAIN orders, i \notin A, orders[i].demand \in 1..capacity
  PROVE  \E p \in Positions(stops) :
           IsCapacityFeasible(Inserted(stops, orders[i], p), capacity)
<1> DEFINE L == Len(stops)
           p == <<L + 1, L + 2>>
           R == Inserted(stops, orders[i], p)
           Sum(S) == SumFunctionOnSet(Demands(orders), S)
<1>1. /\ A \in SUBSET DOMAIN orders /\ stops \in Seq(StopSet(Ids(orders)))
      /\ DOMAIN stops = 1..L /\ L \in Nat
  BY LenProperties DEF Serves
<1>2. p \in Positions(stops) /\ p[1] = L + 1 /\ p[2] = L + 2
  BY <1>1 DEF Positions
<1> HIDE DEF p
<1>3. Serves(R, orders, A \cup {i})
  BY <1>2, ServesInserted
<1>4. /\ R \in Seq(StopSet(Ids(orders))) /\ HasPair(R, stops, orders[i], p)
  <2>1. "PICKUP" \in StopTypes /\ "DROPOFF" \in StopTypes
    BY DEF StopTypes
  <2>2. /\ Stop(orders[i], "PICKUP") \in StopSet(Ids(orders))
        /\ Stop(orders[i], "DROPOFF") \in StopSet(Ids(orders))
    BY <2>1, StopsAreTold
  <2>3. QED  BY <1>1, <1>2, <2>2, InsertedPair
<1>5. Len(R) = L + 2
  BY <1>4 DEF HasPair
<1> HIDE DEF R
<1>6. \A n \in 1..L : Shift(n, p) = n /\ R[n] = stops[n]
  <2>1. \A n \in 1..L : Shift(n, p) = n
    BY <1>1, <1>2 DEF Shift
  <2>2. QED  BY <1>4, <2>1 DEF HasPair
<1>7. ASSUME NEW j \in A, NEW m \in 1..(L + 2)
      PROVE  /\ m <= L => (j \in OnBoard(R, orders, m) <=> j \in OnBoard(stops, orders, m))
             /\ m > L => j \notin OnBoard(R, orders, m)
  <2>1. PICK k, l \in 1..L : Rides(stops, orders, j, k, l)
    BY ServedRides
  <2>2. PICK kk, ll \in 1..Len(R) : Rides(R, orders, j, kk, ll)
    BY <1>3, ServedRides
  <2>3. R[k] = Stop(orders[j], "PICKUP") /\ R[l] = Stop(orders[j], "DROPOFF")
    BY <1>6, <2>1 DEF Rides
  <2>4. k \in 1..Len(R) /\ l \in 1..Len(R)
    BY <1>1, <1>5
  <2>5. k = kk /\ l = ll
    BY <2>2, <2>3, <2>4 DEF Rides
  <2>6. m \in Int
    BY <1>1
  <2>7. /\ j \in OnBoard(R, orders, m) <=> k <= m /\ m < l
        /\ j \in OnBoard(stops, orders, m) <=> k <= m /\ m < l
    BY <2>1, <2>2, <2>5, <2>6 DEF Rides
  <2>8. QED  BY <1>1, <2>6, <2>7
<1>8. ASSUME NEW m \in 1..(L + 2)
      PROVE  i \in OnBoard(R, orders, m) <=> m = L + 1
  <2>1. PICK k, l \in 1..Len(R) : Rides(R, orders, i, k, l)
    <3> DEFINE B == A \cup {i}
    <3>1. i \in B /\ Serves(R, orders, B)
      BY <1>3
    <3> HIDE DEF B
    <3>2. QED  BY <3>1, ServedRides
  <2>2. R[L + 1] = Stop(orders[i], "PICKUP") /\ R[L + 2] = Stop(orders[i], "DROPOFF")
    BY <1>2, <1>4 DEF HasPair
  <2>3. L + 1 \in 1..Len(R) /\ L + 2 \in 1..Len(R)
    BY <1>1, <1>5
  <2>4. k = L + 1 /\ l = L + 2
    BY <2>1, <2>2, <2>3 DEF Rides
  <2>5. m \in Int
    BY <1>1
  <2>6. i \in OnBoard(R, orders, m) <=> k <= m /\ m < l
    BY <2>1, <2>5 DEF Rides
  <2>7. QED  BY <1>1, <2>4, <2>5, <2>6
<1>9. \A m \in 1..(L + 2) : OnBoard(R, orders, m) \in SUBSET (A \cup {i})
  <2>1. \A m \in 1..(L + 2) : m \in Int
    BY <1>1
  <2>2. QED  BY <1>3, <2>1, ServedRides
<1>10. \A m \in 1..L : OnBoard(stops, orders, m) \in SUBSET A
  <2>1. \A m \in 1..L : m \in Int
    BY <1>1
  <2>2. QED  BY <2>1, ServedRides
<1>11. Demands(orders) \in [DOMAIN orders -> Nat] /\ Demands(orders)[i] = orders[i].demand
  BY DEF Demands, OrdersAreValid
<1>12. ASSUME NEW m \in 1..(L + 2)
       PROVE  Sum(OnBoard(R, orders, m)) <= capacity
  <2>1. CASE m <= L
    <3>1. m \in 1..L /\ m # L + 1
      BY <1>1, <2>1
    <3>2. OnBoard(R, orders, m) = OnBoard(stops, orders, m)
      <4>1. \A j \in A : j \in OnBoard(R, orders, m) <=> j \in OnBoard(stops, orders, m)
        BY <1>7, <2>1
      <4>2. i \notin OnBoard(R, orders, m)
        BY <1>8, <3>1
      <4>3. QED  BY <1>9, <1>10, <3>1, <4>1, <4>2
    <3>3. Sum(OnBoard(stops, orders, m)) <= capacity
      BY <3>1, FeasibleIffItFits
    <3>4. QED  BY <3>2, <3>3
  <2>2. CASE m = L + 1
    <3>1. OnBoard(R, orders, m) = {i}
      <4>1. \A j \in A : j \notin OnBoard(R, orders, m)
        BY <1>1, <1>7, <2>2
      <4>2. i \in OnBoard(R, orders, m)
        BY <1>8, <2>2
      <4>3. QED  BY <1>9, <4>1, <4>2
    <3> DEFINE none == {}
    <3>2. none \in SUBSET DOMAIN orders /\ IsFiniteSet(none) /\ i \notin none
      BY FS_EmptySet
    <3>4. Sum(none) = 0
      BY <1>11, SumOfNone
    <3>5. none \cup {i} = {i}
      OBVIOUS
    <3> HIDE DEF none
    <3>3. Sum(none \cup {i}) = Demands(orders)[i] + Sum(none)
      BY <1>11, <3>2, SumOfOneMore
    <3>6. Sum(OnBoard(R, orders, m)) = Sum(none \cup {i})
      BY <3>1, <3>5
    <3> HIDE DEF Sum
    <3>7. Sum(OnBoard(R, orders, m)) = orders[i].demand
      BY <1>11, <3>3, <3>4, <3>6
    <3>8. QED  BY <3>7
  <2>3. CASE m = L + 2
    <3>1. OnBoard(R, orders, m) = {}
      <4>1. \A j \in A : j \notin OnBoard(R, orders, m)
        BY <1>1, <1>7, <2>3
      <4>2. i \notin OnBoard(R, orders, m)
        BY <1>1, <1>8, <2>3
      <4>3. QED  BY <1>9, <4>1, <4>2
    <3>2. Sum({}) = 0
      BY <1>11, SumOfNone
    <3>3. QED  BY <3>1, <3>2
  <2>4. QED  BY <1>1, <2>1, <2>2, <2>3
<1>13. IsCapacityFeasible(R, capacity)
  BY <1>3, <1>5, <1>12, FeasibleIffItFits
<1>14. QED  BY <1>2, <1>13 DEF R

(* The insertion that is made is a feasible one, and no feasible one is    *)
(* shorter.                                                                *)
LEMMA BestIsShortest ==
  ASSUME NEW in, NEW stops, NEW o, Len(stops) \in Nat,
         FeasiblePositions(in, stops, o) # {},
         \A p \in FeasiblePositions(in, stops, o) :
           DistanceOf(in.origin, Inserted(stops, o, p)) \in Nat
  PROVE  \E p \in FeasiblePositions(in, stops, o) :
           /\ BestInsertion(in, stops, o) = Inserted(stops, o, p)
           /\ \A q \in FeasiblePositions(in, stops, o) :
                DistanceOf(in.origin, Inserted(stops, o, p)) <=
                  DistanceOf(in.origin, Inserted(stops, o, q))
<1> DEFINE F == FeasiblePositions(in, stops, o)
           km == [p \in F |-> DistanceOf(in.origin, Inserted(stops, o, p))]
           shortest == {p \in F : \A q \in F : km[p] <= km[q]}
           First(p) == \A q \in shortest : p[1] < q[1] \/ (p[1] = q[1] /\ p[2] <= q[2])
<1>1. \A p \in F : p[1] \in Nat /\ p[2] \in Nat
  BY DEF FeasiblePositions, Positions
<1>2. \A p \in F : km[p] \in Nat
  OBVIOUS
<1>3. BestInsertion(in, stops, o) = Inserted(stops, o, CHOOSE p \in shortest : First(p))
  BY DEF BestInsertion
<1>4. F # {}
  OBVIOUS
<1>5. \A p \in F : km[p] = DistanceOf(in.origin, Inserted(stops, o, p))
  OBVIOUS
<1> HIDE DEF F, km
<1>6. PICK a : a \in shortest
  <2> DEFINE K == {km[p] : p \in F}
  <2>1. K \in SUBSET Nat /\ K # {}
    BY <1>2, <1>4
  <2>2. PICK m \in K : \A n \in K : m <= n
    <3> HIDE DEF K
    <3>1. QED  BY <2>1, LeastNumber
  <2>3. PICK p \in F : m = km[p]
    OBVIOUS
  <2>4. p \in shortest
    BY <2>2, <2>3
  <2>5. QED  BY <2>4
<1>7. \A p \in shortest : p \in F
  OBVIOUS
<1> HIDE DEF shortest
<1>8. \E p \in shortest : First(p)
  <2> DEFINE K == {p[1] : p \in shortest}
  <2>1. K \in SUBSET Nat /\ K # {}
    BY <1>1, <1>6, <1>7
  <2>2. PICK m \in K : \A n \in K : m <= n
    <3> HIDE DEF K
    <3>1. QED  BY <2>1, LeastNumber
  <2> DEFINE M == {p[2] : p \in {q \in shortest : q[1] = m}}
  <2>3. M \in SUBSET Nat /\ M # {}
    BY <1>1, <1>7
  <2>4. PICK n \in M : \A l \in M : n <= l
    <3> HIDE DEF M
    <3>1. QED  BY <2>3, LeastNumber
  <2>5. PICK p \in shortest : p[1] = m /\ p[2] = n
    OBVIOUS
  <2>6. ASSUME NEW q \in shortest
        PROVE  p[1] < q[1] \/ (p[1] = q[1] /\ p[2] <= q[2])
    <3>1. p[1] <= q[1]
      BY <2>2, <2>5
    <3>2. p[1] = q[1] => p[2] <= q[2]
      BY <2>4, <2>5
    <3>3. p[1] \in Nat /\ q[1] \in Nat
      BY <1>1, <1>7
    <3>4. QED  BY <3>1, <3>2, <3>3
  <2>7. QED  BY <2>5, <2>6
<1> DEFINE best == CHOOSE p \in shortest : First(p)
<1>9. best \in shortest
  <2> HIDE DEF First
  <2>1. QED  BY <1>8
<1>10. best \in F /\ \A q \in F : km[best] <= km[q]
  <2> HIDE DEF best
  <2>1. QED  BY <1>9 DEF shortest
<1>11. BestInsertion(in, stops, o) = Inserted(stops, o, best)
  BY <1>3
<1> HIDE DEF best
<1>12. QED  BY <1>5, <1>10, <1>11 DEF F

-------------------------------------------------------------------------------
(***************************************************************************)
(* The inductive invariant of the planner.  That the vehicle is never      *)
(* overloaded is not inductive by itself: the route has to be one that     *)
(* pairs the stops of just the accepted orders, and the load that the code *)
(* adds up along it has to be feasible at every stop.                      *)
(***************************************************************************)
RouteInv ==
  /\ input \in Inputs
  /\ planning \in {"checking", "inserting", "done", "refused"}
  /\ considered \in 0..Len(input.orders)
  /\ planning \in {"inserting", "done"} => IsValid(input)
  /\ planning \in {"checking", "refused"} => considered = 0
  /\ rejected \subseteq {input.orders[i].id : i \in 1..considered}
  /\ OnlyImpossibleRejected
  /\ Serves(route, input.orders, Accepted)
  /\ IsCapacityFeasible(route, input.vehicleCapacity)

(* What is known of the input of a call.                                   *)
LEMMA InputIsKnown ==
  ASSUME NEW in \in Inputs
  PROVE  /\ in.origin \in Points /\ in.vehicleCapacity \in Nat
         /\ in.orders \in Seq(ToSet(in.orders))
         /\ Len(in.orders) \in Nat /\ DOMAIN in.orders = 1..Len(in.orders)
         /\ IsValid(in) => OrdersAreValid(in.orders)
<1>1. /\ in.origin \in Points /\ in.vehicleCapacity \in Nat
      /\ in.orders \in Seq(ToSet(in.orders))
      /\ \A i \in DOMAIN in.orders : /\ in.orders[i].demand \in Nat
                                     /\ {in.orders[i].pickup, in.orders[i].dropoff} \subseteq Points
  BY RouteAssumption
<1>2. Len(in.orders) \in Nat /\ DOMAIN in.orders = 1..Len(in.orders)
  BY <1>1, LenProperties
<1>3. IsValid(in) => OrdersAreValid(in.orders)
  BY <1>1 DEF IsValid, OrdersAreValid
<1>4. QED  BY <1>1, <1>2, <1>3

(* A route of no orders, and of no stops.                                  *)
LEMMA EmptyRoute ==
  ASSUME NEW orders, NEW capacity \in Nat
  PROVE  Serves(<<>>, orders, {}) /\ IsCapacityFeasible(<<>>, capacity)
<1> DEFINE T == StopSet(Ids(orders))
<1>1. <<>> \in Seq(T) /\ Len(<<>>) = 0 /\ DOMAIN <<>> = {} /\ 1..0 = {}
  <2> HIDE DEF T
  <2>1. QED  OBVIOUS
<1>2. Cardinality({}) = 0
  BY FS_EmptySet
<1>3. Serves(<<>>, orders, {})
  BY <1>1, <1>2 DEF Serves
<1>4. LoadAfter(<<>>)[Len(<<>>)] = 0
  <2>1. AreTotals(LoadAfter(<<>>), LoadChanges(<<>>), Len(<<>>))
    BY <1>1, LoadsAreTotals
  <2>2. QED  BY <1>1, <2>1 DEF AreTotals
<1>5. QED  BY <1>1, <1>3, <1>4 DEF IsCapacityFeasible

LEMMA RouteInvInit == RouteInit => RouteInv
<1> SUFFICES ASSUME RouteInit PROVE RouteInv
  OBVIOUS
<1> USE DEF RouteInit
<1>1. /\ input.vehicleCapacity \in Nat /\ Len(input.orders) \in Nat
  BY InputIsKnown
<1>2. Accepted = {} /\ OnlyImpossibleRejected
  BY DEF Accepted, OnlyImpossibleRejected
<1>3. Serves(route, input.orders, Accepted) /\ IsCapacityFeasible(route, input.vehicleCapacity)
  BY <1>1, <1>2, EmptyRoute
<1>4. QED  BY <1>1, <1>2, <1>3 DEF RouteInv

(* The order that is considered: nobody has decided on it yet.             *)
LEMMA OrderIsNew ==
  ASSUME RouteInv, planning = "inserting", considered < Len(input.orders)
  PROVE  /\ OrdersAreValid(input.orders)
         /\ considered + 1 \in DOMAIN input.orders /\ considered + 1 \notin Accepted
         /\ considered + 1 \in Nat \ {0}
         /\ Order.id \notin rejected
         /\ \A i \in 1..considered : i \in DOMAIN input.orders /\ input.orders[i].id # Order.id
         /\ 1..(considered + 1) = (1..considered) \cup {considered + 1}
<1>1. /\ OrdersAreValid(input.orders)
      /\ DOMAIN input.orders = 1..Len(input.orders) /\ Len(input.orders) \in Nat
  BY InputIsKnown DEF RouteInv
<1>2. considered \in Nat /\ considered \in 0..Len(input.orders)
  BY <1>1 DEF RouteInv
<1>3. /\ considered + 1 \in DOMAIN input.orders
      /\ 1..(considered + 1) = (1..considered) \cup {considered + 1}
  BY <1>1, <1>2
<1>4. ASSUME NEW i \in 1..considered
      PROVE  i \in DOMAIN input.orders /\ input.orders[i].id # Order.id
  <2>1. i \in DOMAIN input.orders /\ i # considered + 1
    BY <1>1, <1>2
  <2>2. "PICKUP" \in StopTypes
    BY DEF StopTypes
  <2>3. QED  BY <1>1, <1>3, <2>1, <2>2, StopsAreTold DEF Order
<1>5. Order.id \notin rejected
  BY <1>4 DEF RouteInv
<1>6. considered + 1 \notin Accepted
  BY <1>2 DEF Accepted
<1>7. QED  BY <1>1, <1>2, <1>3, <1>4, <1>5, <1>6

(* The insertion of the order considered, when there is room for it.      *)
LEMMA InsertionIsBest ==
  ASSUME RouteInv, planning = "inserting", considered < Len(input.orders),
         FeasiblePositions(input, route, Order) # {}
  PROVE  \E p \in FeasiblePositions(input, route, Order) :
           /\ BestInsertion(input, route, Order) = Inserted(route, Order, p)
           /\ \A q \in FeasiblePositions(input, route, Order) :
                DistanceOf(input.origin, Inserted(route, Order, p)) <=
                  DistanceOf(input.origin, Inserted(route, Order, q))
<1>1. /\ OrdersAreValid(input.orders) /\ considered + 1 \in DOMAIN input.orders
      /\ considered + 1 \notin Accepted /\ Order = input.orders[considered + 1]
  BY OrderIsNew DEF Order
<1>2. input.origin \in Points
  BY InputIsKnown DEF RouteInv
<1>3. Serves(route, input.orders, Accepted)
  BY DEF RouteInv
<1>4. Len(route) \in Nat
  BY <1>3, LenProperties DEF Serves
<1>5. ASSUME NEW p \in FeasiblePositions(input, route, Order)
      PROVE  DistanceOf(input.origin, Inserted(route, Order, p)) \in Nat
  <2>1. p \in Positions(route)
    BY DEF FeasiblePositions
  <2>2. Serves(Inserted(route, Order, p), input.orders, Accepted \cup {considered + 1})
    BY <1>1, <1>3, <2>1, ServesInserted
  <2>3. Inserted(route, Order, p) \in Seq(StopSet(Ids(input.orders)))
    BY <2>2 DEF Serves
  <2>4. QED  BY <1>2, <2>3, DistancesAreNumbers
<1>6. QED  BY <1>4, <1>5, BestIsShortest

LEMMA InsertInv == RouteInv /\ Insert => RouteInv'
<1> SUFFICES ASSUME RouteInv, Insert PROVE RouteInv'
  OBVIOUS
<1> DEFINE n == considered + 1
<1>1. /\ planning = "inserting" /\ considered < Len(input.orders) /\ DemandFits(Order)
      /\ route' = BestInsertion(input, route, Order)
      /\ FeasiblePositions(input, route, Order) # {}
      /\ considered' = n /\ input' = input /\ planning' = planning /\ rejected' = rejected
  BY DEF Insert
<1>2. /\ OrdersAreValid(input.orders) /\ n \in DOMAIN input.orders /\ n \notin Accepted
      /\ Order.id \notin rejected /\ 1..n = (1..considered) \cup {n}
      /\ \A i \in 1..considered : i \in DOMAIN input.orders /\ input.orders[i].id # Order.id
  BY <1>1, OrderIsNew
<1>3. Order = input.orders[n]
  BY DEF Order
<1>4. /\ input.vehicleCapacity \in Nat /\ input.origin \in Points
      /\ DOMAIN input.orders = 1..Len(input.orders) /\ Len(input.orders) \in Nat
  BY InputIsKnown DEF RouteInv
<1>5. PICK p \in FeasiblePositions(input, route, Order) : route' = Inserted(route, Order, p)
  BY <1>1, <1>2, <1>3, InsertionIsBest
<1>6. /\ p \in Positions(route)
      /\ IsCapacityFeasible(Inserted(route, Order, p), input.vehicleCapacity)
  BY DEF FeasiblePositions
<1>7. Serves(route', input.orders, Accepted \cup {n})
  BY <1>2, <1>3, <1>5, <1>6, ServesInserted DEF RouteInv
<1>8. Accepted' = Accepted \cup {n}
  BY <1>1, <1>2, <1>3 DEF Accepted
<1>9. OnlyImpossibleRejected'
  <2>1. input.orders[n].demand \in 1..input.vehicleCapacity
    BY <1>1, <1>3 DEF DemandFits
  <2>2. {j \in 1..n : input.orders[j].demand \notin 1..input.vehicleCapacity} =
        {j \in 1..considered : input.orders[j].demand \notin 1..input.vehicleCapacity}
    BY <1>2, <2>1
  <2>3. QED  BY <1>1, <2>2 DEF RouteInv, OnlyImpossibleRejected
<1>10. rejected' \subseteq {input.orders[i].id : i \in 1..n}
  BY <1>1, <1>2 DEF RouteInv
<1>11. n \in 0..Len(input.orders)
  BY <1>2, <1>4
<1>12. (IsCapacityFeasible(route, input.vehicleCapacity))'
  BY <1>1, <1>5, <1>6
<1>13. (Serves(route, input.orders, Accepted))'
  BY <1>1, <1>7, <1>8
<1> HIDE DEF n
<1>14. QED
  BY <1>1, <1>9, <1>10, <1>11, <1>12, <1>13 DEF RouteInv

LEMMA RejectInv == RouteInv /\ Reject => RouteInv'
<1> SUFFICES ASSUME RouteInv, Reject PROVE RouteInv'
  OBVIOUS
<1> DEFINE n == considered + 1
<1>1. /\ planning = "inserting" /\ considered < Len(input.orders)
      /\ ~ (DemandFits(Order) /\ FeasiblePositions(input, route, Order) # {})
      /\ rejected' = rejected \cup {Order.id}
      /\ considered' = n /\ input' = input /\ planning' = planning /\ route' = route
  BY DEF Reject
<1>2. /\ OrdersAreValid(input.orders) /\ n \in DOMAIN input.orders /\ n \notin Accepted
      /\ Order.id \notin rejected /\ 1..n = (1..considered) \cup {n}
      /\ \A i \in 1..considered : i \in DOMAIN input.orders /\ input.orders[i].id # Order.id
  BY <1>1, OrderIsNew
<1>3. Order = input.orders[n]
  BY DEF Order
<1>4. /\ input.vehicleCapacity \in Nat
      /\ DOMAIN input.orders = 1..Len(input.orders) /\ Len(input.orders) \in Nat
  BY InputIsKnown DEF RouteInv
<1>5. input.orders[n].demand \notin 1..input.vehicleCapacity
  <2>1. SUFFICES ASSUME input.orders[n].demand \in 1..input.vehicleCapacity PROVE FALSE
    OBVIOUS
  <2>2. DemandFits(Order)
    BY <1>3, <2>1 DEF DemandFits
  <2>3. PICK p \in Positions(route) :
          IsCapacityFeasible(Inserted(route, input.orders[n], p), input.vehicleCapacity)
    BY <1>2, <1>4, <2>1, FitsAtTheEnd DEF RouteInv
  <2>4. p \in FeasiblePositions(input, route, Order)
    BY <1>3, <2>3 DEF FeasiblePositions
  <2>5. QED  BY <1>1, <2>2, <2>4
<1>6. Accepted' = Accepted
  BY <1>1, <1>2, <1>3 DEF Accepted
<1>7. OnlyImpossibleRejected'
  <2>1. {j \in 1..n : input.orders[j].demand \notin 1..input.vehicleCapacity} =
        {j \in 1..considered : input.orders[j].demand \notin 1..input.vehicleCapacity} \cup {n}
    BY <1>2, <1>5
  <2>2. {input.orders[i].id :
           i \in {j \in 1..considered : input.orders[j].demand \notin 1..input.vehicleCapacity}
                 \cup {n}} = rejected \cup {Order.id}
    BY <1>3 DEF RouteInv, OnlyImpossibleRejected
  <2>3. QED  BY <1>1, <2>1, <2>2 DEF OnlyImpossibleRejected
<1>8. rejected' \subseteq {input.orders[i].id : i \in 1..n}
  BY <1>1, <1>2, <1>3 DEF RouteInv
<1>9. n \in 0..Len(input.orders)
  BY <1>2, <1>4
<1>10. /\ (IsCapacityFeasible(route, input.vehicleCapacity))'
       /\ (Serves(route, input.orders, Accepted))'
  BY <1>1, <1>6 DEF RouteInv
<1> HIDE DEF n
<1>11. QED
  BY <1>1, <1>7, <1>8, <1>9, <1>10 DEF RouteInv

LEMMA RouteInvNext == RouteInv /\ [RouteNext]_routeVars => RouteInv'
<1> SUFFICES ASSUME RouteInv, [RouteNext]_routeVars PROVE RouteInv'
  OBVIOUS
<1>1. CASE UNCHANGED <<input, considered, route, rejected>> /\
           (planning' = planning \/
            (planning = "checking" /\
             planning' = IF IsValid(input) THEN "inserting" ELSE "refused") \/
            (planning = "inserting" /\ planning' = "done"))
  <2>1. Accepted' = Accepted /\ OnlyImpossibleRejected'
    BY <1>1 DEF Accepted, RouteInv, OnlyImpossibleRejected
  <2>2. (IsValid(input))' = IsValid(input)
    BY <1>1
  <2>3. /\ (IsCapacityFeasible(route, input.vehicleCapacity))'
        /\ (Serves(route, input.orders, Accepted))'
    BY <1>1, <2>1 DEF RouteInv
  <2>4. QED  BY <1>1, <2>1, <2>2, <2>3 DEF RouteInv
<1>2. CASE Check \/ Return \/ UNCHANGED routeVars
  BY <1>1, <1>2 DEF Check, Return, routeVars
<1>3. QED  BY <1>2, InsertInv, RejectInv DEF RouteNext

-------------------------------------------------------------------------------
(* The invariant of the planner, for any orders, distances and capacity.   *)
THEOREM RouteInvariance == RouteSpec => []RouteInv
<1>1. QED  BY RouteInvInit, RouteInvNext, PTL DEF RouteSpec

(* The state of a plan keeps its types.                                    *)
LEMMA RouteInvTypes == RouteInv => RouteTypeOK
<1> SUFFICES ASSUME RouteInv PROVE RouteTypeOK
  OBVIOUS
<1>1. route \in Seq(StopSet(Ids(input.orders)))
  BY DEF RouteInv, Serves
<1>2. QED  BY <1>1 DEF RouteInv, RouteTypeOK, StopSet, Ids

THEOREM RouteTypes == RouteSpec => []RouteTypeOK
<1>1. QED  BY RouteInvTypes, RouteInvariance, PTL

(* The route picks each accepted order up once and drops it once after     *)
(* that, and visits nobody else (bestInsertion over all the orders).       *)
THEOREM AcceptedAreServed == RouteSpec => []RouteServesAccepted
<1>1. RouteInv => RouteServesAccepted
  BY DEF RouteInv, Serves, RouteServesAccepted
<1>2. QED  BY <1>1, RouteInvariance, PTL

(* What is in the vehicle after any stop of the route fits into it, though *)
(* the code only keeps a running load and inserts pairs around each other. *)
THEOREM VehicleHasRoom == RouteSpec => []VehicleNeverOverloaded
<1>1. RouteInv => VehicleNeverOverloaded
  <2> SUFFICES ASSUME RouteInv PROVE VehicleNeverOverloaded
    OBVIOUS
  <2>1. Serves(route, input.orders, Accepted) /\ IsCapacityFeasible(route, input.vehicleCapacity)
    BY DEF RouteInv
  <2>2. DOMAIN route = 1..Len(route)
    BY <2>1, LenProperties DEF Serves
  <2>3. CASE planning \in {"inserting", "done"}
    <3>1. OrdersAreValid(input.orders) /\ input.vehicleCapacity \in Nat
      BY <2>3, InputIsKnown DEF RouteInv
    <3>2. \A k \in 1..Len(route) :
            SumFunctionOnSet(Demands(input.orders), OnBoard(route, input.orders, k)) <=
              input.vehicleCapacity
      BY <2>1, <3>1, FeasibleIffItFits
    <3>3. QED  BY <2>2, <3>2 DEF VehicleNeverOverloaded, NeverOverloaded, Demands
  <2>4. CASE planning \in {"checking", "refused"}
    <3>1. Accepted = {}
      BY <2>4 DEF RouteInv, Accepted
    <3>2. Len(route) = 0
      BY <2>1, <3>1, FS_EmptySet DEF Serves
    <3>3. QED  BY <2>2, <3>2 DEF VehicleNeverOverloaded, NeverOverloaded
  <2>5. QED  BY <2>3, <2>4 DEF RouteInv
<1>2. QED  BY <1>1, RouteInvariance, PTL

(* An order is rejected only if it would not fit into the empty vehicle:   *)
(* an order that does can always go to the end of the route.               *)
THEOREM OnlyTooLargeRejected == RouteSpec => []OnlyImpossibleRejected
<1>1. RouteInv => OnlyImpossibleRejected
  BY DEF RouteInv
<1>2. QED  BY <1>1, RouteInvariance, PTL

(* Two ways to say where the pair goes.                                    *)
LEMMA MergedIsInserted ==
  ASSUME NEW T, NEW stops \in Seq(T), NEW o, Stop(o, "PICKUP") \in T, Stop(o, "DROPOFF") \in T,
         NEW p \in Positions(stops)
  PROVE  Merged(stops, p[1], p[2], Stop(o, "PICKUP"), Stop(o, "DROPOFF")) = Inserted(stops, o, p)
<1> DEFINE L == Len(stops)
           R == Inserted(stops, o, p)
           x == Stop(o, "PICKUP")
           y == Stop(o, "DROPOFF")
           Before(n) == {m \in {p[1], p[2]} : m < n}
           M == Merged(stops, p[1], p[2], x, y)
<1>1. /\ R \in Seq(T) /\ HasPair(R, stops, o, p) /\ L \in Nat
      /\ p[1] \in 1..(L + 1) /\ p[2] \in 2..(L + 2) /\ p[1] < p[2]
  BY InsertedPair, LenProperties DEF Positions
<1>2. /\ Len(R) = L + 2 /\ R[p[1]] = x /\ R[p[2]] = y
      /\ \A n \in 1..L : R[Shift(n, p)] = stops[n]
      /\ \A m \in 1..(L + 2) : m = p[1] \/ m = p[2] \/ \E n \in 1..L : m = Shift(n, p)
  BY <1>1 DEF HasPair
<1>3. M = [n \in 1..(L + 2) |->
             CASE n = p[1] -> x [] n = p[2] -> y
               [] OTHER -> stops[n - Cardinality(Before(n))]]
  BY DEF Merged
<1>4. R = [n \in 1..(L + 2) |-> R[n]]
  <2>1. DOMAIN R = 1..(L + 2) /\ R = [n \in DOMAIN R |-> R[n]]
    <3> HIDE DEF R, L
    <3>1. QED  BY <1>1, <1>2, LenProperties
  <2>2. QED  BY <2>1
<1> HIDE DEF R, L, x, y, M
<1>5. ASSUME NEW n \in 1..L
      PROVE  Cardinality(Before(Shift(n, p))) = Shift(n, p) - n
  <2>1. CASE n < p[1]
    <3>1. Shift(n, p) = n /\ Before(n) = {}
      BY <1>1, <2>1 DEF Shift
    <3>2. Cardinality({}) = 0
      BY FS_EmptySet
    <3> HIDE DEF Before
    <3>3. QED  BY <1>1, <3>1, <3>2
  <2>2. CASE ~ (n < p[1]) /\ n + 1 < p[2]
    <3>1. Shift(n, p) = n + 1 /\ Before(n + 1) = {p[1]}
      BY <1>1, <2>2 DEF Shift
    <3>2. Cardinality({p[1]}) = 1
      BY FS_Singleton
    <3> HIDE DEF Before
    <3>3. Cardinality(Before(Shift(n, p))) = 1
      BY <3>1, <3>2
    <3>4. Shift(n, p) - n = 1
      BY <1>1, <3>1
    <3>5. QED  BY <3>3, <3>4
  <2>3. CASE ~ (n < p[1]) /\ ~ (n + 1 < p[2])
    <3>1. Shift(n, p) = n + 2 /\ Before(n + 2) = {p[1]} \cup {p[2]}
      BY <1>1, <2>3 DEF Shift
    <3>2. Cardinality({p[1]}) = 1 /\ IsFiniteSet({p[1]})
      BY FS_Singleton
    <3>3. p[2] \notin {p[1]}
      BY <1>1
    <3>4. Cardinality({p[1]} \cup {p[2]}) = 2
      <4> DEFINE S == {p[1]}
      <4>1. IsFiniteSet(S) /\ Cardinality(S) = 1 /\ p[2] \notin S
        BY <3>2, <3>3
      <4> HIDE DEF S
      <4>2. Cardinality(S \cup {p[2]}) = Cardinality(S) + 1
        BY <4>1, FS_AddElement
      <4>3. QED  BY <4>1, <4>2 DEF S
    <3> HIDE DEF Before
    <3>5. Cardinality(Before(Shift(n, p))) = 2
      BY <3>1, <3>4
    <3>6. Shift(n, p) - n = 2
      BY <1>1, <3>1
    <3>7. QED  BY <3>5, <3>6
  <2>4. QED  BY <2>1, <2>2, <2>3
<1>6. ASSUME NEW m \in 1..(L + 2)
      PROVE  R[m] = CASE m = p[1] -> x [] m = p[2] -> y
                      [] OTHER -> stops[m - Cardinality(Before(m))]
  <2>1. CASE m = p[1]
    BY <1>1, <1>2, <2>1
  <2>2. CASE m = p[2]
    BY <1>1, <1>2, <2>2
  <2>3. CASE m # p[1] /\ m # p[2]
    <3>1. PICK n \in 1..L : m = Shift(n, p)
      BY <1>2, <2>3
    <3>2. Cardinality(Before(m)) = m - n
      BY <1>5, <3>1
    <3> HIDE DEF Before
    <3>3. m - Cardinality(Before(m)) = n
      BY <1>1, <3>2
    <3>4. R[m] = stops[m - Cardinality(Before(m))]
      BY <1>2, <3>1, <3>3
    <3>5. QED  BY <2>3, <3>4
  <2>4. QED  BY <2>1, <2>2, <2>3
<1>7. M = R
  <2> HIDE DEF Before
  <2>1. QED  BY <1>3, <1>4, <1>6
<1>8. QED  BY <1>7 DEF M, R, x, y

(* An insertion keeps the order of the stops that are there, and of all    *)
(* ways to visit the new pair in which the vehicle is never overloaded     *)
(* none is shorter.                                                        *)
THEOREM NoInsertionIsShorter == RouteSpec => InsertionIsShortest
<1>1. ASSUME RouteInv, RouteNext, Len(route') > Len(route)
      PROVE  LET pickup == Stop(Order, "PICKUP")
                 dropoff == Stop(Order, "DROPOFF")
                 ways == {Merged(route, p[1], p[2], pickup, dropoff) :
                            p \in {q \in (1..Len(route')) \X (1..Len(route')) : q[1] < q[2]}}
             IN /\ route' \in ways
                /\ \A way \in ways :
                     NeverOverloaded(way, input) =>
                       DistanceOf(input.origin, route') <= DistanceOf(input.origin, way)
  <2> DEFINE T == StopSet(Ids(input.orders))
             Way(p) == Merged(route, p[1], p[2], Stop(Order, "PICKUP"), Stop(Order, "DROPOFF"))
             Pairs == {q \in (1..Len(route')) \X (1..Len(route')) : q[1] < q[2]}
  <2>1. Insert
    <3>1. Serves(route, input.orders, Accepted)
      BY <1>1 DEF RouteInv
    <3>2. Len(route) \in Nat
      BY <3>1, LenProperties DEF Serves
    <3>3. SUFFICES ASSUME route' = route PROVE FALSE
      BY <1>1 DEF RouteNext, Check, Reject, Return
    <3>4. QED  BY <1>1, <3>2, <3>3
  <2>2. /\ planning = "inserting" /\ considered < Len(input.orders)
        /\ FeasiblePositions(input, route, Order) # {}
        /\ route' = BestInsertion(input, route, Order)
    BY <2>1 DEF Insert
  <2>3. PICK p \in FeasiblePositions(input, route, Order) :
          /\ route' = Inserted(route, Order, p)
          /\ \A q \in FeasiblePositions(input, route, Order) :
               DistanceOf(input.origin, route') <=
                 DistanceOf(input.origin, Inserted(route, Order, q))
    BY <1>1, <2>2, InsertionIsBest
  <2>4. /\ OrdersAreValid(input.orders) /\ considered + 1 \in DOMAIN input.orders
        /\ considered + 1 \notin Accepted /\ Order = input.orders[considered + 1]
    BY <1>1, <2>2, OrderIsNew DEF Order
  <2>5. /\ Serves(route, input.orders, Accepted) /\ route \in Seq(T) /\ Len(route) \in Nat
        /\ input.vehicleCapacity \in Nat
    <3>1. Serves(route, input.orders, Accepted)
      BY <1>1 DEF RouteInv
    <3>2. QED  BY <1>1, <3>1, LenProperties, InputIsKnown DEF RouteInv, Serves
  <2>6. Stop(Order, "PICKUP") \in T /\ Stop(Order, "DROPOFF") \in T
    <3>1. "PICKUP" \in StopTypes /\ "DROPOFF" \in StopTypes
      BY DEF StopTypes
    <3>2. QED  BY <2>4, <3>1, StopsAreTold
  <2>7. \A q \in Positions(route) : Way(q) = Inserted(route, Order, q)
    BY <2>5, <2>6, MergedIsInserted
  <2>8. p \in Positions(route) /\ Len(route') = Len(route) + 2
    <3>1. p \in Positions(route)
      BY DEF FeasiblePositions
    <3>2. HasPair(Inserted(route, Order, p), route, Order, p)
      BY <2>5, <2>6, <3>1, InsertedPair
    <3>3. QED  BY <2>3, <3>1, <3>2 DEF HasPair
  <2>9. Pairs = Positions(route)
    BY <2>5, <2>8 DEF Positions
  <2>10. ASSUME NEW q \in Positions(route), NeverOverloaded(Way(q), input)
         PROVE  DistanceOf(input.origin, route') <= DistanceOf(input.origin, Way(q))
    <3>1. Serves(Inserted(route, Order, q), input.orders, Accepted \cup {considered + 1})
      BY <2>4, <2>5, ServesInserted
    <3>2. NeverOverloaded(Inserted(route, Order, q), input)
      BY <2>7, <2>10
    <3>3. DOMAIN Inserted(route, Order, q) = 1..Len(Inserted(route, Order, q))
      BY <3>1, LenProperties DEF Serves
    <3>4. IsCapacityFeasible(Inserted(route, Order, q), input.vehicleCapacity)
      BY <2>4, <2>5, <3>1, <3>2, <3>3, FeasibleIffItFits DEF NeverOverloaded, Demands
    <3>5. q \in FeasiblePositions(input, route, Order)
      BY <3>4 DEF FeasiblePositions
    <3>6. QED  BY <2>3, <2>7, <3>5
  <2>11. route' = Way(p)
    BY <2>3, <2>7, <2>8
  <2> HIDE DEF Way, Pairs
  <2>12. /\ route' \in {Way(q) : q \in Pairs}
         /\ \A way \in {Way(q) : q \in Pairs} :
              NeverOverloaded(way, input) =>
                DistanceOf(input.origin, route') <= DistanceOf(input.origin, way)
    BY <2>8, <2>9, <2>10, <2>11
  <2>13. QED  BY <2>12 DEF Way, Pairs
<1>2. RouteInv /\ [RouteNext]_routeVars =>
        [Len(route') > Len(route) =>
           LET pickup == Stop(Order, "PICKUP")
               dropoff == Stop(Order, "DROPOFF")
               ways == {Merged(route, p[1], p[2], pickup, dropoff) :
                          p \in {q \in (1..Len(route')) \X (1..Len(route')) : q[1] < q[2]}}
           IN /\ route' \in ways
              /\ \A way \in ways :
                   NeverOverloaded(way, input) =>
                     DistanceOf(input.origin, route') <= DistanceOf(input.origin, way)]_routeVars
  BY <1>1
<1>3. QED  BY <1>2, RouteInvariance, PTL DEF RouteSpec, InsertionIsShortest
===============================================================================
