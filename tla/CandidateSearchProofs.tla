------------------------- MODULE CandidateSearchProofs -------------------------
(***************************************************************************)
(* What the candidate search promises of its ranking, for any drivers,     *)
(* distances, weights and limits, and however the positions change while   *)
(* it runs.                                                                *)
(***************************************************************************)
EXTENDS CandidateSearch, FiniteSetTheorems, SequenceTheorems, TLAPS

(* Min of two numbers, which the model takes from the library.             *)
LEMMA MinOfTwo ==
  ASSUME NEW a \in Int, NEW b \in Int
  PROVE  Min({a, b}) = IF a <= b THEN a ELSE b
<1> DEFINE m == IF a <= b THEN a ELSE b
<1>1. m \in {a, b} /\ \A y \in {a, b} : m <= y
  OBVIOUS
<1>2. \A x \in {a, b} : (\A y \in {a, b} : x <= y) => x = m
  OBVIOUS
<1>3. QED  BY <1>1, <1>2 DEF Min

(* Of quotients: the greater fraction has the greater quotient.            *)
LEMMA TimesMonotone ==
  ASSUME NEW a \in Int, NEW b \in Int, NEW c \in Nat, a <= b
  PROVE  a * c <= b * c
OBVIOUS
LEMMA QuotientMonotone ==
  ASSUME NEW x \in Int, NEW y \in Nat \ {0}, NEW u \in Int, NEW v \in Nat \ {0},
         u * y <= x * v
  PROVE  u \div v <= x \div y
<1> DEFINE m == u \div v
<1>1. m \in Int /\ m * v <= u
  OBVIOUS
<1> HIDE DEF m
<1>2. (m * v) * y <= u * y
  BY <1>1
<1>3. (m * y) * v <= x * v
  BY <1>1, <1>2
<1>4. m * y <= x
  <2>1. ASSUME m * y >= x + 1 PROVE FALSE
    <3>1. (m * y) * v >= (x + 1) * v
      BY <1>1, <2>1
    <3>2. (x + 1) * v = x * v + v
      OBVIOUS
    <3>3. QED BY <1>1, <1>3, <3>1, <3>2
  <2>2. m * y \in Int
    BY <1>1
  <2>3. QED BY <2>1, <2>2
<1>5. m <= x \div y
  <2> DEFINE n == x \div y
  <2>1. n \in Int /\ x < n * y + y
    OBVIOUS
  <2> HIDE DEF n
  <2>2. ASSUME m >= n + 1 PROVE FALSE
    <3>1. m * y >= (n + 1) * y
      BY <1>1, <2>1, <2>2
    <3>2. (n + 1) * y = n * y + y
      BY <2>1
    <3>3. QED BY <1>1, <1>4, <2>1, <3>1, <3>2
  <2>3. QED BY <1>1, <2>1, <2>2 DEF n
<1>6. QED BY <1>5 DEF m

(* Of the parts of a score, brought to one denominator, none is smaller.   *)
LEMMA WeightedParts ==
  ASSUME NEW wd \in Nat, NEW ww \in Nat, NEW wf \in Nat, NEW R \in Nat \ {0}, NEW M \in Nat \ {0},
         NEW ca \in Nat \ {0}, NEW cb \in Nat \ {0}, NEW na \in Nat, NEW nb \in Nat,
         NEW ra \in Nat, NEW rb \in Nat, NEW fa \in Nat, NEW fb \in Nat,
         nb <= na, rb * ca <= ra * cb, fb <= fa
  PROVE  LET pa == wd * na * ca * M + ww * ra * R * M + wf * fa * R * ca
             pb == wd * nb * cb * M + ww * rb * R * M + wf * fb * R * cb
         IN pb * (R * ca * M) <= pa * (R * cb * M)
<1> DEFINE k1 == wd * ca * M * R * cb * M
           k2 == ww * R * M * R * M
           k3 == wf * R * ca * R * cb * M
<1>1. k1 \in Nat /\ k2 \in Nat /\ k3 \in Nat /\ rb * ca \in Int /\ ra * cb \in Int
  OBVIOUS
<1>2. /\ (wd * nb * cb * M) * (R * ca * M) = nb * k1
      /\ (wd * na * ca * M) * (R * cb * M) = na * k1
  OBVIOUS
<1>3. /\ (ww * rb * R * M) * (R * ca * M) = (rb * ca) * k2
      /\ (ww * ra * R * M) * (R * cb * M) = (ra * cb) * k2
  OBVIOUS
<1>4. /\ (wf * fb * R * cb) * (R * ca * M) = fb * k3
      /\ (wf * fa * R * ca) * (R * cb * M) = fa * k3
  OBVIOUS
<1>5. nb * k1 <= na * k1 /\ fb * k3 <= fa * k3 /\ (rb * ca) * k2 <= (ra * cb) * k2
  <2> HIDE DEF k1, k2, k3
  <2>1. nb * k1 <= na * k1  BY <1>1, TimesMonotone
  <2>2. fb * k3 <= fa * k3  BY <1>1, TimesMonotone
  <2>3. (rb * ca) * k2 <= (ra * cb) * k2  BY <1>1, TimesMonotone
  <2>4. QED  BY <2>1, <2>2, <2>3
<1> DEFINE a1 == wd * na * ca * M
           a2 == ww * ra * R * M
           a3 == wf * fa * R * ca
           b1 == wd * nb * cb * M
           b2 == ww * rb * R * M
           b3 == wf * fb * R * cb
           va == R * ca * M
           vb == R * cb * M
<1>6. {a1, a2, a3, b1, b2, b3, va, vb} \subseteq Int
  OBVIOUS
<1>7. b1 * va <= a1 * vb /\ b2 * va <= a2 * vb /\ b3 * va <= a3 * vb
  BY <1>2, <1>3, <1>4, <1>5
<1>8. (b1 + b2 + b3) * va <= (a1 + a2 + a3) * vb
  <2> HIDE DEF a1, a2, a3, b1, b2, b3, va, vb
  <2>1. (b1 + b2 + b3) * va = b1 * va + b2 * va + b3 * va
    BY <1>6
  <2>2. (a1 + a2 + a3) * vb = a1 * vb + a2 * vb + a3 * vb
    BY <1>6
  <2>3. {b1 * va, b2 * va, b3 * va, a1 * vb, a2 * vb, a3 * vb} \subseteq Int
    BY <1>6
  <2>4. QED  BY <1>7, <2>1, <2>2, <2>3
<1>9. QED  BY <1>8

(* Rounding to hundredths keeps the order.                                 *)
LEMMA RoundedFractions ==
  ASSUME NEW p \in Nat, NEW q \in Nat, NEW v \in Nat \ {0}, NEW w \in Nat \ {0},
         q * v <= p * w
  PROVE  (200 * q + w) \div (2 * w) <= (200 * p + v) \div (2 * v)
<1>1. (200 * q + w) * (2 * v) <= (200 * p + v) * (2 * w)
  <2>1. (200 * q + w) * (2 * v) = 400 * (q * v) + 2 * (v * w)
    OBVIOUS
  <2>2. (200 * p + v) * (2 * w) = 400 * (p * w) + 2 * (v * w)
    OBVIOUS
  <2>3. q * v \in Int /\ p * w \in Int /\ v * w \in Int
    OBVIOUS
  <2>4. QED  BY <2>1, <2>2, <2>3
<1> DEFINE x == 200 * p + v
           y == 2 * v
           u == 200 * q + w
           z == 2 * w
<1>2. x \in Int /\ u \in Int /\ y \in Nat \ {0} /\ z \in Nat \ {0} /\ u * y <= x * z
  BY <1>1
<1> HIDE DEF x, y, u, z
<1>3. u \div z <= x \div y
  BY <1>2, QuotientMonotone
<1>4. QED
  BY <1>3 DEF x, y, u, z

(* The head and the rest of a sequence, element by element.                *)
LEMMA HeadAndTail ==
  ASSUME NEW T, NEW s \in Seq(T), s # <<>>
  PROVE  /\ Head(s) = s[1] /\ Head(s) \in T /\ 1 \in DOMAIN s
         /\ Tail(s) \in Seq(T)
         /\ \A i \in DOMAIN Tail(s) :
              i \in Nat \ {0} /\ i + 1 \in DOMAIN s /\ Tail(s)[i] = s[i + 1]
         /\ \A i \in DOMAIN s : i = 1 \/ \E j \in DOMAIN Tail(s) : Tail(s)[j] = s[i]
<1>1. /\ Tail(s) \in Seq(T) /\ Len(Tail(s)) = Len(s) - 1
      /\ \A i \in 1..Len(Tail(s)) : Tail(s)[i] = s[i + 1]
  BY HeadTailProperties
<1>2. /\ Len(s) \in Nat \ {0} /\ DOMAIN s = 1..Len(s)
      /\ DOMAIN Tail(s) = 1..(Len(s) - 1)
  BY <1>1, EmptySeq, LenProperties
<1>3. Head(s) = s[1] /\ Head(s) \in T
  BY HeadTailProperties
<1>4. ASSUME NEW i \in DOMAIN s, i # 1
      PROVE  \E j \in DOMAIN Tail(s) : Tail(s)[j] = s[i]
  <2>1. i - 1 \in DOMAIN Tail(s) /\ (i - 1) + 1 = i
    BY <1>2, <1>4
  <2>2. QED  BY <1>1, <1>2, <2>1
<1>5. QED
  BY <1>1, <1>2, <1>3, <1>4

(* What is appended comes last.                                            *)
LEMMA AppendAtEnd ==
  ASSUME NEW T, NEW s \in Seq(T), NEW x \in T
  PROVE  /\ Append(s, x) \in Seq(T) /\ Len(Append(s, x)) = Len(s) + 1
         /\ Len(s) \in Nat /\ DOMAIN s = 1..Len(s) /\ DOMAIN Append(s, x) = 1..(Len(s) + 1)
         /\ \A i \in DOMAIN s : i # Len(s) + 1 /\ Append(s, x)[i] = s[i]
         /\ Append(s, x)[Len(s) + 1] = x
         /\ DOMAIN Append(s, x) = DOMAIN s \cup {Len(s) + 1}
BY AppendProperties, LenProperties

(***************************************************************************)
(* The candidate search.  What has been read so far of the hits agrees     *)
(* with the lists it was read from, and the hits that are left are no      *)
(* nearer than those that were kept.                                       *)
(***************************************************************************)
Searches ==
  [phase : {"idle", "locating", "reading", "ranking", "done"},
   listed : UNION {[S -> Nat] : S \in SUBSET Pool},
   indexed : UNION {[S -> 0..Radius] : S \in SUBSET Pool},
   left : Seq(Pool), found : Seq(Hits), ranked : Seq(Hits)]

SearchFields ==
  /\ load \in [Pool -> Nat]
  /\ position \in [Pool -> 0..Away]
  /\ age \in [Pool -> 0..TooOld]
  /\ search \in Searches
  /\ steady \subseteq Pool /\ lapsed \subseteq Pool

(* The listed drivers have room.                                           *)
ListedHaveRoom ==
  \A d \in DOMAIN search.listed : search.listed[d] = load[d] /\ load[d] < Capacity[d]

(* The hits that are left are entries, each once, the nearest first.       *)
Sorted(left, indexed) ==
  /\ \A i \in DOMAIN left : left[i] \in DOMAIN indexed
  /\ \A i, j \in DOMAIN left :
       i < j => left[i] # left[j] /\ indexed[left[i]] <= indexed[left[j]]

LeftIsSorted == Sorted(search.left, search.indexed)

(* What was found is listed, each driver once, at its indexed distance.    *)
FoundIsListed ==
  /\ \A i \in DOMAIN search.found :
       LET hit == search.found[i]
       IN /\ hit.driver \in DOMAIN search.listed
          /\ hit.driver \in DOMAIN search.indexed
          /\ hit.distance = search.indexed[hit.driver]
          /\ \A j \in DOMAIN search.found :
               i # j => hit.driver # search.found[j].driver
  /\ Len(search.found) <= Limit

FoundIsNearer ==
  \A i \in DOMAIN search.found, j \in DOMAIN search.left :
    /\ search.found[i].driver # search.left[j]
    /\ search.found[i].distance <= search.indexed[search.left[j]]

SteadyIsFresh == \A d \in steady : age[d] <= MaxAge

(* Who has not been fresh since the GEOSEARCH is not fresh now, and no hit *)
(* of theirs was kept.                                                     *)
LapsedIsOld == \A d \in lapsed : age[d] > MaxAge

FoundIsLive == Found(search.found) \cap lapsed = {}

(* COUNT entries that are no farther stand before that of d.               *)
Hidden(indexed, d) ==
  Cardinality({e \in DOMAIN indexed \ {d} : indexed[e] <= indexed[d]}) >= Limit * Overfetch

Crowded(s, d) ==
  /\ Len(s.found) = Limit
  /\ \A i \in DOMAIN s.found : s.found[i].distance <= s.indexed[d]

(* Who is still to be found is among the hits that are left.               *)
NobodyIsSkipped ==
  \A d \in steady \cap DOMAIN search.listed \cap DOMAIN search.indexed :
    \/ d \in Found(search.found)
    \/ Hidden(search.indexed, d)
    \/ search.phase = "reading" /\ d \in ToSet(search.left)
    \/ search.phase # "reading" /\ Crowded(search, d)

(* What is ranked in the end are the hits that were found.                 *)
RankedAreFound ==
  IF search.phase = "done"
  THEN \E p \in Bijection(DOMAIN search.found, DOMAIN search.found) :
         search.ranked = [i \in DOMAIN search.found |-> search.found[p[i]]]
  ELSE search.ranked = <<>>

NothingFoundYet ==
  search.phase \in {"idle", "locating"} =>
    search.indexed = Nobody /\ search.left = <<>> /\ search.found = <<>>

SearchInv ==
  /\ SearchFields
  /\ ListedHaveRoom
  /\ LeftIsSorted
  /\ FoundIsListed
  /\ FoundIsNearer
  /\ SteadyIsFresh
  /\ LapsedIsOld
  /\ FoundIsLive
  /\ NobodyIsSkipped
  /\ RankedAreFound
  /\ NearerIsTriedFirst
  /\ NothingFoundYet


(* Without its head a sorted list is sorted, and nothing in it is nearer   *)
(* than the head or the same driver.                                       *)
LEMMA SortedTail ==
  ASSUME NEW left \in Seq(Pool), left # <<>>, NEW indexed, Sorted(left, indexed)
  PROVE  /\ Sorted(Tail(left), indexed)
         /\ \A i \in DOMAIN Tail(left) :
              /\ Tail(left)[i] # left[1]
              /\ indexed[left[1]] <= indexed[Tail(left)[i]]
<1>1. /\ 1 \in DOMAIN left
      /\ \A i \in DOMAIN Tail(left) :
           i \in Nat \ {0} /\ i + 1 \in DOMAIN left /\ Tail(left)[i] = left[i + 1]
  BY HeadAndTail
<1>2. ASSUME NEW i \in DOMAIN Tail(left)
      PROVE  /\ Tail(left)[i] \in DOMAIN indexed
             /\ Tail(left)[i] # left[1]
             /\ indexed[left[1]] <= indexed[Tail(left)[i]]
  <2>1. i + 1 \in DOMAIN left /\ 1 < i + 1 /\ Tail(left)[i] = left[i + 1]
    BY <1>1
  <2>2. QED  BY <1>1, <2>1 DEF Sorted
<1>3. ASSUME NEW i \in DOMAIN Tail(left), NEW j \in DOMAIN Tail(left), i < j
      PROVE  /\ Tail(left)[i] # Tail(left)[j]
             /\ indexed[Tail(left)[i]] <= indexed[Tail(left)[j]]
  <2>1. /\ i + 1 \in DOMAIN left /\ j + 1 \in DOMAIN left /\ i + 1 < j + 1
        /\ Tail(left)[i] = left[i + 1] /\ Tail(left)[j] = left[j + 1]
    BY <1>1, <1>3
  <2>2. QED  BY <2>1 DEF Sorted
<1>4. QED  BY <1>2, <1>3 DEF Sorted

-------------------------------------------------------------------------------
LEMMA SearchConstants ==
  /\ Limit \in Nat \ {0} /\ Overfetch \in Nat \ {0} /\ Radius \in Nat \ {0}
  /\ MaxAge \in Nat \ {0} /\ Pool \subseteq Nat /\ Capacity \in [Pool -> Nat \ {0}]
  /\ IsFiniteSet(Pool) /\ MaxReports \in Nat /\ MaxTicks \in Nat
BY SearchAssumption

(* Before a search nothing is known, whatever the drivers do.              *)
LEMMA IdleInv ==
  ASSUME load \in [Pool -> Nat], position \in [Pool -> 0..Away], age \in [Pool -> 0..TooOld],
         search = Idle, steady = {}, lapsed = {}, budget = FullBudget
  PROVE  SearchInv
<1> USE SearchConstants DEF Idle, Nobody
<1>1. search \in Searches
  <2>1. Nobody \in [{} -> Nat] /\ Nobody \in [{} -> 0..Radius] /\ {} \in SUBSET Pool
    OBVIOUS
  <2> HIDE DEF Nobody
  <2>2. /\ Nobody \in UNION {[S -> Nat] : S \in SUBSET Pool}
        /\ Nobody \in UNION {[S -> 0..Radius] : S \in SUBSET Pool}
    BY <2>1
  <2>3. <<>> \in Seq(Pool) /\ <<>> \in Seq(Hits)
    OBVIOUS
  <2>4. QED  BY <2>2, <2>3 DEF Searches
<1>2. SearchFields  BY <1>1 DEF SearchFields
<1>3. ListedHaveRoom /\ LeftIsSorted /\ FoundIsListed /\ FoundIsNearer
  BY DEF ListedHaveRoom, LeftIsSorted, Sorted, FoundIsListed, FoundIsNearer
<1>4. SteadyIsFresh /\ NobodyIsSkipped /\ NothingFoundYet
  BY DEF SteadyIsFresh, NobodyIsSkipped, NothingFoundYet
<1>5. RankedAreFound /\ NearerIsTriedFirst
  BY DEF RankedAreFound, NearerIsTriedFirst
<1>6. LapsedIsOld /\ FoundIsLive
  BY DEF LapsedIsOld, FoundIsLive
<1>7. QED  BY <1>2, <1>3, <1>4, <1>5, <1>6 DEF SearchInv

LEMMA SearchInvInit == SearchInit => SearchInv
<1> SUFFICES ASSUME SearchInit PROVE SearchInv
  OBVIOUS
<1>1. load \in [Pool -> Nat]
  <2> DEFINE m == Max({Capacity[d] : d \in Pool})
  <2>1. load \in [Pool -> 0..m] /\ \A d \in Pool : load[d] <= Capacity[d]
    BY DEF SearchInit
  <2> HIDE DEF m
  <2>2. \A d \in Pool : load[d] \in Nat
    BY <2>1, SearchConstants
  <2>3. QED  BY <2>1, <2>2
<1>2. QED  BY <1>1, IdleInv DEF SearchInit

(* Reports and ticks move drivers and let positions age; what a search has *)
(* read stays as it was.                                                   *)
LEMMA MeanwhileInv ==
  ASSUME SearchInv,
         (\E d \in Pool, distance \in 0..Away : Report(d, distance)) \/ Tick
  PROVE  SearchInv'
<1> USE SearchConstants
<1>1. UNCHANGED <<load, search>>
  BY DEF Report, Tick
<1>2. /\ SearchFields' /\ SteadyIsFresh' /\ steady' \subseteq steady
      /\ LapsedIsOld' /\ lapsed' \subseteq lapsed
  <2>1. CASE \E d \in Pool, distance \in 0..Away : Report(d, distance)
    <3>1. PICK d \in Pool, distance \in 0..Away : Report(d, distance)
      BY <2>1
    <3>2. QED
      BY <3>1 DEF Report, SearchInv, SearchFields, SteadyIsFresh, LapsedIsOld, Away, TooOld
  <2>2. CASE Tick
    <3>1. \A d \in Pool : Min({age[d] + 1, TooOld}) \in 0..TooOld
      BY MinOfTwo DEF SearchInv, SearchFields, TooOld
    <3>2. SearchFields' /\ SteadyIsFresh' /\ steady' \subseteq steady /\ lapsed' = lapsed
      BY <2>2, <3>1 DEF Tick, SearchInv, SearchFields, SteadyIsFresh, Away, TooOld
    <3>3. \A d \in lapsed : age[d] \in Nat /\ age[d] > MaxAge /\ d \in Pool
      BY DEF SearchInv, SearchFields, LapsedIsOld, TooOld
    <3>4. \A d \in lapsed : Min({age[d] + 1, TooOld}) > MaxAge
      BY <3>3, MinOfTwo DEF TooOld
    <3>5. LapsedIsOld'
      BY <2>2, <3>2, <3>3, <3>4 DEF Tick, LapsedIsOld
    <3>6. QED  BY <3>2, <3>5
  <2>3. QED  BY <2>1, <2>2
<1>3. ListedHaveRoom' /\ LeftIsSorted' /\ FoundIsListed' /\ FoundIsNearer' /\ NothingFoundYet'
  BY <1>1 DEF SearchInv, ListedHaveRoom, LeftIsSorted, FoundIsListed, FoundIsNearer,
              NothingFoundYet
<1>4. NobodyIsSkipped'
  BY <1>1, <1>2 DEF SearchInv, NobodyIsSkipped, Crowded
<1>5. RankedAreFound' /\ NearerIsTriedFirst'
  BY <1>1, SMTT(30) DEF SearchInv, RankedAreFound, NearerIsTriedFirst
<1>6. FoundIsLive'
  BY <1>1, <1>2 DEF SearchInv, FoundIsLive
<1>7. QED  BY <1>2, <1>3, <1>4, <1>5, <1>6 DEF SearchInv

-------------------------------------------------------------------------------
(* The search, step by step.                                               *)
LEMMA ListCandidatesInv ==
  ASSUME SearchInv, ListCandidates
  PROVE  SearchInv'
<1> USE SearchConstants
<1>1. PICK S \in Listings :
        search' = [search EXCEPT !.phase = IF S = {} THEN "ranking" ELSE "locating",
                                 !.listed = [d \in S |-> load[d]]]
  BY DEF ListCandidates
<1>2. S \in SUBSET Pool /\ \A d \in S : load[d] < Capacity[d]
  BY DEF Listings, kSubset, HasRoom
<1>3. /\ search.phase = "idle"
      /\ search.indexed = Nobody /\ search.left = <<>> /\ search.found = <<>>
      /\ search.ranked = <<>>
  BY DEF ListCandidates, SearchInv, NothingFoundYet, RankedAreFound
<1>4. UNCHANGED <<load, position, age, steady, lapsed>>
  BY DEF ListCandidates
<1>5. [d \in S |-> load[d]] \in UNION {[T -> Nat] : T \in SUBSET Pool}
  BY <1>2, SMTT(30) DEF SearchInv, SearchFields
<1>6. SearchFields'
  BY <1>1, <1>4, <1>5 DEF SearchInv, SearchFields, Searches
<1>7. /\ search'.phase \in {"ranking", "locating"}
      /\ search'.listed = [d \in S |-> load[d]]
      /\ UNCHANGED <<search.indexed, search.left, search.found, search.ranked>>
  BY <1>1 DEF SearchInv, SearchFields, Searches
<1>8. ListedHaveRoom'
  BY <1>2, <1>4, <1>7 DEF ListedHaveRoom
<1>9. LeftIsSorted' /\ FoundIsListed' /\ FoundIsNearer' /\ NothingFoundYet' /\ SteadyIsFresh'
  BY <1>3, <1>4, <1>7
     DEF SearchInv, LeftIsSorted, Sorted, FoundIsListed, FoundIsNearer, NothingFoundYet, SteadyIsFresh
<1>10. NobodyIsSkipped'
  BY <1>3, <1>7 DEF NobodyIsSkipped, Nobody
<1>11. RankedAreFound' /\ NearerIsTriedFirst'
  BY <1>3, <1>7 DEF RankedAreFound, NearerIsTriedFirst
<1>12. LapsedIsOld' /\ FoundIsLive'
  BY <1>4, <1>7 DEF SearchInv, LapsedIsOld, FoundIsLive
<1>13. QED
  BY <1>6, <1>8, <1>9, <1>10, <1>11, <1>12 DEF SearchInv

(* GEOSEARCH lists entries in the radius, the nearest first, and leaves an *)
(* entry out only behind COUNT others that are no farther.                 *)
LEMMA GeoHitsAreNearest ==
  ASSUME SearchFields, NEW hits \in GeoHits
  PROVE  /\ hits \in Seq(Pool)
         /\ \A i \in DOMAIN hits : hits[i] \in InRadius
         /\ \A i, j \in DOMAIN hits :
              i < j => hits[i] # hits[j] /\ position[hits[i]] <= position[hits[j]]
         /\ \A d \in InRadius \ ToSet(hits) :
              Hidden([e \in InRadius |-> position[e]], d)
<1> USE SearchConstants
<1> DEFINE count == Min({Limit * Overfetch, Cardinality(InRadius)})
<1>1. PICK S \in SUBSET InRadius : Cardinality(S) = count /\ hits \in SetToSeqs(S)
  BY DEF GeoHits, kSubset
<1>2. /\ \A i, j \in DOMAIN hits : i < j => position[hits[i]] <= position[hits[j]]
      /\ \A i \in DOMAIN hits, e \in InRadius \ ToSet(hits) : position[hits[i]] <= position[e]
  BY DEF GeoHits
<1>3. IsFiniteSet(InRadius) /\ IsFiniteSet(S) /\ InRadius \subseteq Pool
  BY FS_Subset DEF InRadius
<1>4. /\ Cardinality(InRadius) \in Nat /\ Limit * Overfetch \in Nat
      /\ Cardinality(S) \in Nat
  BY <1>3, FS_CardinalityType
<1>5. count = IF Limit * Overfetch <= Cardinality(InRadius)
              THEN Limit * Overfetch ELSE Cardinality(InRadius)
  BY <1>4, MinOfTwo
<1> HIDE DEF count
<1>6. /\ hits \in [1..Cardinality(S) -> S]
      /\ \A i, j \in 1..Cardinality(S) : i # j => hits[i] # hits[j]
  BY <1>1 DEF SetToSeqs
<1>7. hits \in Seq(Pool) /\ DOMAIN hits = 1..Cardinality(S)
  <2>1. hits \in [1..Cardinality(S) -> Pool]
    BY <1>3, <1>6
  <2>2. QED  BY <1>4, <2>1
<1>8. ToSet(hits) = S
  <2>1. hits \in Injection(1..Cardinality(S), S)
    BY <1>6 DEF Injection, IsInjective
  <2>2. IsFiniteSet(1..Cardinality(S)) /\ Cardinality(1..Cardinality(S)) = Cardinality(S)
    BY <1>4, FS_Interval
  <2>3. hits \in Surjection(1..Cardinality(S), S)
    BY <1>3, <2>1, <2>2, FS_Injection
  <2>4. QED
    BY <1>6, <2>3 DEF Surjection, ToSet
<1>9. ASSUME NEW d \in InRadius \ ToSet(hits)
      PROVE  Hidden([e \in InRadius |-> position[e]], d)
  <2> DEFINE f == [e \in InRadius |-> position[e]]
             near == {e \in DOMAIN f \ {d} : f[e] <= f[d]}
  <2>1. S # InRadius
    BY <1>8
  <2>2. Cardinality(S) = Limit * Overfetch
    <3>1. Cardinality(S) # Cardinality(InRadius)
      BY <1>3, <2>1, FS_Subset
    <3>2. QED  BY <1>1, <1>5, <3>1
  <2>3. S \subseteq near
    BY <1>2, <1>7, <1>8 DEF ToSet
  <2>4. IsFiniteSet(near)
    BY <1>3, FS_Subset
  <2>5. Cardinality(near) \in Nat /\ Cardinality(near) >= Cardinality(S)
    BY <2>3, <2>4, FS_Subset, FS_CardinalityType, <1>4
  <2>6. QED
    BY <2>2, <2>5, <1>4 DEF Hidden
<1>10. \A i \in DOMAIN hits : hits[i] \in InRadius
  BY <1>6, <1>7
<1>11. QED
  BY <1>2, <1>6, <1>7, <1>9, <1>10

LEMMA GeoSearchInv ==
  ASSUME SearchInv, GeoSearch
  PROVE  SearchInv'
<1> USE SearchConstants
<1>1. PICK hits \in GeoHits :
        search' = [search EXCEPT !.phase = "reading",
                                 !.indexed = [d \in InRadius |-> position[d]],
                                 !.left = hits]
  BY DEF GeoSearch
<1>2. /\ search.phase = "locating" /\ search.found = <<>> /\ search.ranked = <<>>
      /\ UNCHANGED <<load, position, age>>
      /\ steady' = {d \in Pool : age[d] <= MaxAge} /\ lapsed' = Pool \ steady'
  BY DEF GeoSearch, SearchInv, NothingFoundYet, RankedAreFound
<1>3. SearchFields
  BY DEF SearchInv
<1>4. /\ hits \in Seq(Pool)
      /\ \A i \in DOMAIN hits : hits[i] \in InRadius
      /\ \A i, j \in DOMAIN hits :
           i < j => hits[i] # hits[j] /\ position[hits[i]] <= position[hits[j]]
      /\ \A d \in InRadius \ ToSet(hits) :
           Hidden([e \in InRadius |-> position[e]], d)
  BY <1>3, GeoHitsAreNearest
<1>5. InRadius \subseteq Pool
  BY DEF InRadius
<1>6. [d \in InRadius |-> position[d]] \in UNION {[S -> 0..Radius] : S \in SUBSET Pool}
  <2>1. \A d \in InRadius : position[d] \in 0..Radius
    BY <1>3 DEF InRadius, SearchFields, Away
  <2>2. [d \in InRadius |-> position[d]] \in [InRadius -> 0..Radius]
    BY <2>1, SMTT(30)
  <2>3. QED  BY <1>5, <2>2
<1>7. SearchFields'
  BY <1>1, <1>2, <1>3, <1>4, <1>6 DEF SearchFields, Searches
<1>8. /\ search'.phase = "reading"
      /\ search'.indexed = [d \in InRadius |-> position[d]]
      /\ search'.left = hits
      /\ UNCHANGED <<search.listed, search.found, search.ranked>>
  BY <1>1, <1>3 DEF SearchFields, Searches
<1>9. ListedHaveRoom' /\ FoundIsListed' /\ FoundIsNearer' /\ NothingFoundYet' /\ SteadyIsFresh'
  BY <1>2, <1>8
     DEF SearchInv, ListedHaveRoom, FoundIsListed, FoundIsNearer, NothingFoundYet, SteadyIsFresh
<1>10. LeftIsSorted'
  BY <1>4, <1>8 DEF LeftIsSorted, Sorted
<1>11. NobodyIsSkipped'
  <2>2. \A d \in DOMAIN search'.indexed :
          d \in ToSet(search'.left) \/ Hidden(search'.indexed, d)
    BY <1>4, <1>8
  <2>3. QED  BY <1>8, <2>2 DEF NobodyIsSkipped
<1>12. RankedAreFound' /\ NearerIsTriedFirst'
  BY <1>2, <1>8 DEF RankedAreFound, NearerIsTriedFirst
<1>13. LapsedIsOld' /\ FoundIsLive'
  <2>1. \A d \in Pool \ steady' : age[d] \in Nat /\ ~ (age[d] <= MaxAge)
    BY <1>2, <1>3 DEF SearchFields, TooOld
  <2>2. LapsedIsOld'  BY <1>2, <2>1 DEF LapsedIsOld
  <2>3. QED  BY <1>2, <1>8, <2>2 DEF FoundIsLive, Found
<1>14. QED
  BY <1>7, <1>9, <1>10, <1>11, <1>12, <1>13 DEF SearchInv

LEMMA KeepHitInv ==
  ASSUME SearchInv, KeepHit
  PROVE  SearchInv'
<1> USE SearchConstants
<1> DEFINE d == Head(search.left)
           hit == [driver |-> d, distance |-> search.indexed[d], age |-> age[d]]
<1>1. /\ search.phase = "reading" /\ search.left # <<>> /\ Len(search.found) < Limit
      /\ d \in DOMAIN search.listed /\ age[d] <= MaxAge
      /\ search' = [search EXCEPT !.left = Tail(search.left),
                                  !.found = Append(search.found, hit)]
      /\ UNCHANGED <<load, position, age, steady, lapsed>>
  BY DEF KeepHit, Reading, Wanted
<1>2. /\ search.left \in Seq(Pool) /\ search.found \in Seq(Hits)
      /\ age \in [Pool -> 0..TooOld]
      /\ search.indexed \in [DOMAIN search.indexed -> 0..Radius]
      /\ search.ranked = <<>>
  BY <1>1 DEF SearchInv, SearchFields, Searches, RankedAreFound
<1>3. /\ d = search.left[1] /\ d \in Pool /\ 1 \in DOMAIN search.left
      /\ Tail(search.left) \in Seq(Pool)
      /\ \A i \in DOMAIN Tail(search.left) :
           /\ i \in Nat \ {0} /\ i + 1 \in DOMAIN search.left
           /\ Tail(search.left)[i] = search.left[i + 1]
      /\ \A i \in DOMAIN search.left :
           i = 1 \/ \E j \in DOMAIN Tail(search.left) : Tail(search.left)[j] = search.left[i]
  <2> DEFINE left == search.left
  <2>1. left \in Seq(Pool) /\ left # <<>>
    BY <1>1, <1>2
  <2> HIDE DEF left
  <2>2. /\ Head(left) = left[1] /\ Head(left) \in Pool /\ 1 \in DOMAIN left
        /\ Tail(left) \in Seq(Pool)
        /\ \A i \in DOMAIN Tail(left) :
             i \in Nat \ {0} /\ i + 1 \in DOMAIN left /\ Tail(left)[i] = left[i + 1]
        /\ \A i \in DOMAIN left : i = 1 \/ \E j \in DOMAIN Tail(left) : Tail(left)[j] = left[i]
    BY <2>1, HeadAndTail
  <2>3. QED  BY <2>2 DEF left
<1>21. /\ Sorted(Tail(search.left), search.indexed)
       /\ \A i \in DOMAIN Tail(search.left) :
            /\ Tail(search.left)[i] # d
            /\ search.indexed[d] <= search.indexed[Tail(search.left)[i]]
  BY <1>1, <1>2, <1>3, SortedTail, ZenonT(40) DEF SearchInv, LeftIsSorted
<1>20. d \in DOMAIN search.indexed
  BY <1>3 DEF SearchInv, LeftIsSorted, Sorted
<1>4. hit \in Hits
  BY <1>1, <1>2, <1>3, <1>20 DEF Hits, TooOld
<1>8. hit.driver = d /\ hit.distance = search.indexed[d]
  OBVIOUS
<1> HIDE DEF hit, d
<1> DEFINE longer == Append(search.found, hit)
<1>5. /\ longer \in Seq(Hits) /\ Len(longer) = Len(search.found) + 1
      /\ Len(search.found) \in Nat
      /\ \A i \in DOMAIN search.found : i # Len(search.found) + 1 /\ longer[i] = search.found[i]
      /\ longer[Len(search.found) + 1] = hit
      /\ DOMAIN longer = DOMAIN search.found \cup {Len(search.found) + 1}
  BY <1>2, <1>4, AppendAtEnd
<1>7. /\ search'.left = Tail(search.left)
      /\ search'.found = longer
      /\ UNCHANGED <<search.phase, search.listed, search.indexed, search.ranked>>
  BY <1>1 DEF SearchInv, SearchFields, Searches
<1> HIDE DEF longer
<1>6. SearchFields'
  <2>1. search' = [search EXCEPT !.left = Tail(search.left), !.found = longer]
    BY <1>1 DEF longer
  <2>2. QED  BY <1>1, <1>3, <1>5, <2>1 DEF SearchInv, SearchFields, Searches
<1>9. ListedHaveRoom' /\ NothingFoundYet' /\ SteadyIsFresh'
  BY <1>1, <1>7 DEF SearchInv, ListedHaveRoom, NothingFoundYet, SteadyIsFresh
<1>10. LeftIsSorted'
  BY <1>7, <1>21 DEF LeftIsSorted
<1>11. FoundIsListed'
  <2>1. \A i \in DOMAIN search.found : search.found[i].driver # d
    BY <1>3 DEF SearchInv, FoundIsNearer
  <2>2. Len(longer) <= Limit
    BY <1>1, <1>5
  <2>3. ASSUME NEW i \in DOMAIN longer
        PROVE  /\ longer[i].driver \in DOMAIN search.listed
               /\ longer[i].driver \in DOMAIN search.indexed
               /\ longer[i].distance = search.indexed[longer[i].driver]
               /\ \A j \in DOMAIN longer : i # j => longer[i].driver # longer[j].driver
    <3>1. CASE i \in DOMAIN search.found
      BY <1>5, <1>8, <2>1, <3>1 DEF SearchInv, FoundIsListed
    <3>2. CASE i = Len(search.found) + 1
      BY <1>1, <1>20, <1>5, <1>8, <2>1, <3>2
    <3>3. QED  BY <1>5, <3>1, <3>2
  <2>4. QED
    BY <1>7, <2>2, <2>3 DEF FoundIsListed
<1>12. FoundIsNearer'
  <2>1. ASSUME NEW i \in DOMAIN longer, NEW j \in DOMAIN Tail(search.left)
        PROVE  /\ longer[i].driver # Tail(search.left)[j]
               /\ longer[i].distance <= search.indexed[Tail(search.left)[j]]
    <3>1. CASE i \in DOMAIN search.found
      <4>1. j + 1 \in DOMAIN search.left /\ Tail(search.left)[j] = search.left[j + 1]
        BY <1>3
      <4>2. QED  BY <1>5, <3>1, <4>1 DEF SearchInv, FoundIsNearer
    <3>2. CASE i = Len(search.found) + 1
      BY <1>5, <1>8, <1>21, <3>2
    <3>3. QED  BY <1>5, <3>1, <3>2
  <2>2. QED
    BY <1>7, <2>1 DEF FoundIsNearer
<1>13. NobodyIsSkipped'
  <2>1. \A e \in ToSet(search.left) : e = d \/ e \in ToSet(Tail(search.left))
    BY <1>3 DEF ToSet
  <2>2. Found(search.found) \cup {d} \subseteq Found(search'.found)
    BY <1>5, <1>7, <1>8 DEF Found
  <2>3. QED
    BY <1>1, <1>7, <2>1, <2>2 DEF SearchInv, NobodyIsSkipped
<1>14. RankedAreFound' /\ NearerIsTriedFirst'
  BY <1>1, <1>2, <1>7, SMTT(30) DEF RankedAreFound, NearerIsTriedFirst
<1>15. LapsedIsOld' /\ FoundIsLive'
  <2>1. d \notin lapsed
    <3>1. age \in [Pool -> 0..TooOld] /\ d \in Pool
      BY ONLY <1>2, <1>3
    <3>2. age[d] \in Int
      <4> HIDE DEF d
      <4>1. age[d] \in 0..TooOld
        BY ONLY <3>1
      <4>2. QED  BY ONLY <4>1
    <3>3. ~ (age[d] > MaxAge)
      BY <1>1, <3>2
    <3>4. QED  BY <3>3 DEF SearchInv, LapsedIsOld
  <2>2. Found(search'.found) = Found(search.found) \cup {d}
    BY <1>5, <1>7, <1>8 DEF Found
  <2>3. QED  BY <1>1, <2>1, <2>2 DEF SearchInv, LapsedIsOld, FoundIsLive
<1>16. QED
  BY <1>6, <1>9, <1>10, <1>11, <1>12, <1>13, <1>14, <1>15 DEF SearchInv

(* A hit is only dropped if it was not listed or was not fresh all along.  *)
LEMMA SkipHitInv ==
  ASSUME SearchInv, SkipHit
  PROVE  SearchInv'
<1> USE SearchConstants
<1> DEFINE d == Head(search.left)
<1>1. /\ search.phase = "reading" /\ search.left # <<>>
      /\ ~(d \in DOMAIN search.listed /\ age[d] <= MaxAge)
      /\ search' = [search EXCEPT !.left = Tail(search.left)]
      /\ UNCHANGED <<load, position, age, steady, lapsed>>
  BY DEF SkipHit, Reading, Wanted
<1>2. search.left \in Seq(Pool) /\ search.ranked = <<>>
  BY <1>1 DEF SearchInv, SearchFields, Searches, RankedAreFound
<1>3. /\ d = search.left[1] /\ d \in Pool /\ 1 \in DOMAIN search.left
      /\ Tail(search.left) \in Seq(Pool)
      /\ \A i \in DOMAIN Tail(search.left) :
           /\ i \in Nat \ {0} /\ i + 1 \in DOMAIN search.left
           /\ Tail(search.left)[i] = search.left[i + 1]
      /\ \A i \in DOMAIN search.left :
           i = 1 \/ \E j \in DOMAIN Tail(search.left) : Tail(search.left)[j] = search.left[i]
  <2> DEFINE left == search.left
  <2>1. left \in Seq(Pool) /\ left # <<>>
    BY <1>1, <1>2
  <2> HIDE DEF left
  <2>2. /\ Head(left) = left[1] /\ Head(left) \in Pool /\ 1 \in DOMAIN left
        /\ Tail(left) \in Seq(Pool)
        /\ \A i \in DOMAIN Tail(left) :
             i \in Nat \ {0} /\ i + 1 \in DOMAIN left /\ Tail(left)[i] = left[i + 1]
        /\ \A i \in DOMAIN left : i = 1 \/ \E j \in DOMAIN Tail(left) : Tail(left)[j] = left[i]
    BY <2>1, HeadAndTail
  <2>3. QED  BY <2>2 DEF left
<1>21. /\ Sorted(Tail(search.left), search.indexed)
       /\ \A i \in DOMAIN Tail(search.left) :
            /\ Tail(search.left)[i] # d
            /\ search.indexed[d] <= search.indexed[Tail(search.left)[i]]
  BY <1>1, <1>2, <1>3, SortedTail, ZenonT(40) DEF SearchInv, LeftIsSorted
<1> HIDE DEF d
<1>6. SearchFields'
  BY <1>1, <1>3 DEF SearchInv, SearchFields, Searches
<1>7. /\ search'.left = Tail(search.left)
      /\ UNCHANGED <<search.phase, search.listed, search.indexed, search.found, search.ranked>>
  BY <1>1 DEF SearchInv, SearchFields, Searches
<1>9. ListedHaveRoom' /\ NothingFoundYet' /\ SteadyIsFresh' /\ FoundIsListed'
  BY <1>1, <1>7 DEF SearchInv, ListedHaveRoom, NothingFoundYet, SteadyIsFresh, FoundIsListed
<1>10. LeftIsSorted'
  BY <1>7, <1>21 DEF LeftIsSorted
<1>11. FoundIsNearer'
  <2>1. ASSUME NEW i \in DOMAIN search.found, NEW j \in DOMAIN Tail(search.left)
        PROVE  /\ search.found[i].driver # Tail(search.left)[j]
               /\ search.found[i].distance <= search.indexed[Tail(search.left)[j]]
    <3>1. j + 1 \in DOMAIN search.left /\ Tail(search.left)[j] = search.left[j + 1]
      BY <1>3
    <3>2. QED  BY <3>1 DEF SearchInv, FoundIsNearer
  <2>2. QED
    BY <1>7, <2>1 DEF FoundIsNearer
<1>13. NobodyIsSkipped'
  <2>1. \A e \in ToSet(search.left) : e = d \/ e \in ToSet(Tail(search.left))
    BY <1>3 DEF ToSet
  <2>2. d \notin steady \cap DOMAIN search.listed
    BY <1>1 DEF SearchInv, SteadyIsFresh
  <2>3. QED
    BY <1>1, <1>7, <2>1, <2>2 DEF SearchInv, NobodyIsSkipped
<1>14. RankedAreFound' /\ NearerIsTriedFirst'
  BY <1>1, <1>2, <1>7 DEF RankedAreFound, NearerIsTriedFirst
<1>15. LapsedIsOld' /\ FoundIsLive'
  BY <1>1, <1>7 DEF SearchInv, LapsedIsOld, FoundIsLive
<1>16. QED
  BY <1>6, <1>9, <1>10, <1>11, <1>13, <1>14, <1>15 DEF SearchInv

LEMMA SearchReturnsInv ==
  ASSUME SearchInv, SearchReturns
  PROVE  SearchInv'
<1> USE SearchConstants
<1>1. /\ search.phase = "reading"
      /\ search.left = <<>> \/ Len(search.found) = Limit
      /\ search' = [search EXCEPT !.phase = "ranking", !.left = <<>>]
      /\ UNCHANGED <<load, position, age, steady, lapsed>>
  BY DEF SearchReturns
<1>2. SearchFields' /\ search.ranked = <<>>
  <2>1. <<>> \in Seq(Pool)
    OBVIOUS
  <2>2. QED
    BY <1>1, <2>1 DEF SearchInv, SearchFields, Searches, RankedAreFound
<1>3. /\ search'.phase = "ranking" /\ search'.left = <<>>
      /\ UNCHANGED <<search.listed, search.indexed, search.found, search.ranked>>
  BY <1>1 DEF SearchInv, SearchFields, Searches
<1>4. /\ ListedHaveRoom' /\ NothingFoundYet' /\ SteadyIsFresh' /\ FoundIsListed'
      /\ LeftIsSorted' /\ FoundIsNearer'
  BY <1>1, <1>3 DEF SearchInv, ListedHaveRoom, NothingFoundYet, SteadyIsFresh, FoundIsListed,
                    LeftIsSorted, Sorted, FoundIsNearer
<1>5. NobodyIsSkipped'
  <2>1. ASSUME NEW d \in ToSet(search.left)
        PROVE  Crowded(search, d)
    BY <1>1, <2>1 DEF ToSet, SearchInv, FoundIsNearer, Crowded
  <2>2. QED
    BY <1>1, <1>3, <2>1 DEF SearchInv, NobodyIsSkipped, Crowded
<1>6. RankedAreFound' /\ NearerIsTriedFirst'
  BY <1>2, <1>3 DEF RankedAreFound, NearerIsTriedFirst
<1>7. LapsedIsOld' /\ FoundIsLive'
  BY <1>1, <1>3 DEF SearchInv, LapsedIsOld, FoundIsLive
<1>8. QED
  BY <1>2, <1>4, <1>5, <1>6, <1>7 DEF SearchInv

LEMMA SearchAgainInv ==
  ASSUME SearchInv, SearchAgain
  PROVE  SearchInv'
<1> USE SearchConstants DEF SearchAgain, Idle, Nobody
<1>1. search' \in Searches
  <2>1. Nobody \in [{} -> Nat] /\ Nobody \in [{} -> 0..Radius] /\ {} \in SUBSET Pool
    OBVIOUS
  <2> HIDE DEF Nobody
  <2>2. /\ Nobody \in UNION {[S -> Nat] : S \in SUBSET Pool}
        /\ Nobody \in UNION {[S -> 0..Radius] : S \in SUBSET Pool}
    BY <2>1
  <2>3. <<>> \in Seq(Pool) /\ <<>> \in Seq(Hits)
    OBVIOUS
  <2>4. QED  BY <2>2, <2>3 DEF Searches
<1>2. SearchFields'  BY <1>1 DEF SearchInv, SearchFields
<1>3. ListedHaveRoom' /\ LeftIsSorted' /\ FoundIsListed' /\ FoundIsNearer'
  BY DEF ListedHaveRoom, LeftIsSorted, Sorted, FoundIsListed, FoundIsNearer
<1>4. SteadyIsFresh' /\ NobodyIsSkipped' /\ NothingFoundYet'
  BY DEF SteadyIsFresh, NobodyIsSkipped, NothingFoundYet
<1>5. RankedAreFound' /\ NearerIsTriedFirst'
  BY DEF RankedAreFound, NearerIsTriedFirst
<1>6. LapsedIsOld' /\ FoundIsLive'
  BY DEF LapsedIsOld, FoundIsLive
<1>7. QED  BY <1>2, <1>3, <1>4, <1>5, <1>6 DEF SearchInv

(* Whatever the weights: nearer, not older and not fuller is no worse.     *)
LEMMA NearerScores ==
  ASSUME SearchInv, NEW a \in Hits, NEW b \in Hits,
         a.driver \in DOMAIN search.listed, b.driver \in DOMAIN search.listed,
         a.distance <= b.distance, a.age <= b.age,
         search.listed[a.driver] * Capacity[b.driver]
           <= search.listed[b.driver] * Capacity[a.driver]
  PROVE  Score(a) \in Int /\ Score(b) \in Int /\ Score(b) <= Score(a)
<1> USE SearchConstants
<1> DEFINE ca == Capacity[a.driver]
           cb == Capacity[b.driver]
           la == search.listed[a.driver]
           lb == search.listed[b.driver]
           wd == Weights["distance"]
           ww == Weights["capacity"] + Weights["load"]
           wf == Weights["freshness"]
           ra == ca - la
           rb == cb - lb
           na == Nearness(a)
           nb == Nearness(b)
           fa == MaxAge - a.age
           fb == MaxAge - b.age
<1>1. a.driver \in Pool /\ b.driver \in Pool /\ ca \in Nat \ {0} /\ cb \in Nat \ {0}
  BY DEF Hits
<1>2. la \in Nat /\ lb \in Nat /\ la < ca /\ lb < cb
  BY <1>1 DEF SearchInv, SearchFields, ListedHaveRoom
<1>3. wd \in Nat /\ ww \in Nat /\ wf \in Nat
  BY SearchAssumption
<1>4. ra \in Nat /\ rb \in Nat /\ rb * ca <= ra * cb
  <2> HIDE DEF ca, cb, la, lb
  <2>1. ra \in Nat /\ rb \in Nat
    BY <1>1, <1>2
  <2>2. rb * ca = cb * ca - lb * ca /\ ra * cb = cb * ca - la * cb
    BY <1>1, <1>2
  <2>3. la * cb <= lb * ca /\ cb * ca \in Int /\ la * cb \in Int /\ lb * ca \in Int
    BY <1>1, <1>2 DEF ca, cb, la, lb
  <2>4. QED  BY <2>1, <2>2, <2>3
<1>5. na \in Nat /\ nb \in Nat /\ nb <= na /\ fa \in Nat /\ fb \in Nat /\ fb <= fa
  BY DEF Nearness, Hits
<1> DEFINE pa == wd * na * ca * MaxAge + ww * ra * Radius * MaxAge + wf * fa * Radius * ca
           pb == wd * nb * cb * MaxAge + ww * rb * Radius * MaxAge + wf * fb * Radius * cb
           va == Radius * ca * MaxAge
           vb == Radius * cb * MaxAge
<1>6. Score(a) = (200 * pa + va) \div (2 * va) /\ Score(b) = (200 * pb + vb) \div (2 * vb)
  BY DEF Score
<1> HIDE DEF ca, cb, la, lb, wd, ww, wf, ra, rb, na, nb, fa, fb
<1>7. pb * va <= pa * vb
  BY <1>1, <1>3, <1>4, <1>5, WeightedParts
<1>8. pa \in Nat /\ pb \in Nat /\ va \in Nat \ {0} /\ vb \in Nat \ {0}
  <2>1. va \in Nat \ {0} /\ vb \in Nat \ {0}
    BY <1>1
  <2>2. pa \in Nat
    BY <1>1, <1>3, <1>4, <1>5
  <2>3. pb \in Nat
    BY <1>1, <1>3, <1>4, <1>5
  <2>4. QED  BY <2>1, <2>2, <2>3
<1> HIDE DEF pa, pb, va, vb
<1>9. (200 * pb + vb) \div (2 * vb) <= (200 * pa + va) \div (2 * va)
  BY <1>7, <1>8, RoundedFractions
<1>10. Score(a) \in Int /\ Score(b) \in Int
  BY <1>6, <1>8
<1>11. QED  BY <1>6, <1>9, <1>10

LEMMA RankInv ==
  ASSUME SearchInv, Rank
  PROVE  SearchInv'
<1> USE SearchConstants
<1>1. PICK ranking \in Rankings(search.found) :
        search' = [search EXCEPT !.phase = "done", !.ranked = ranking]
  BY DEF Rank
<1>2. search.phase = "ranking" /\ UNCHANGED <<load, position, age, steady, lapsed>>
  BY DEF Rank
<1> DEFINE D == DOMAIN search.found
<1>3. PICK p \in Bijection(D, D) : ranking = [i \in D |-> search.found[p[i]]]
  BY DEF Rankings
<1>4. \A i, j \in D : i < j => RanksBefore(ranking[i], ranking[j])
  BY DEF Rankings
<1>5. search.found \in Seq(Hits) /\ D = 1..Len(search.found) /\ Len(search.found) \in Nat
  BY LenProperties DEF SearchInv, SearchFields, Searches
<1>6. \A i \in D : p[i] \in D
  BY DEF Bijection, Injection
<1>7. ranking \in Seq(Hits) /\ DOMAIN ranking = D
  <2>1. \A i \in D : search.found[i] \in Hits
    BY <1>5
  <2>2. ranking \in [D -> Hits]
    BY <1>3, <1>6, <2>1
  <2>3. ranking \in [1..Len(search.found) -> Hits]
    BY <1>5, <2>2
  <2>4. QED  BY <1>5, <2>2, <2>3
<1>8. SearchFields'
  BY <1>1, <1>2, <1>7 DEF SearchInv, SearchFields, Searches
<1>9. /\ search'.phase = "done" /\ search'.ranked = ranking
      /\ UNCHANGED <<search.listed, search.indexed, search.left, search.found>>
  BY <1>1 DEF SearchInv, SearchFields, Searches
<1>10. /\ ListedHaveRoom' /\ NothingFoundYet' /\ SteadyIsFresh' /\ FoundIsListed'
       /\ LeftIsSorted' /\ FoundIsNearer'
  BY <1>2, <1>9 DEF SearchInv, ListedHaveRoom, NothingFoundYet, SteadyIsFresh, FoundIsListed,
                    LeftIsSorted, FoundIsNearer
<1>11. NobodyIsSkipped'
  BY <1>2, <1>9 DEF SearchInv, NobodyIsSkipped, Crowded
<1>12. RankedAreFound'
  BY <1>3, <1>9 DEF RankedAreFound
<1>13. NearerIsTriedFirst'
  <2> SUFFICES ASSUME NEW i \in D, NEW j \in D,
                      ranking[i].distance < ranking[j].distance,
                      ranking[i].age <= ranking[j].age,
                      search.listed[ranking[i].driver] * Capacity[ranking[j].driver]
                        <= search.listed[ranking[j].driver] * Capacity[ranking[i].driver],
                      ~ (i < j)
               PROVE  FALSE
    BY <1>7, <1>9 DEF NearerIsTriedFirst
  <2> DEFINE a == ranking[i]
             b == ranking[j]
  <2>1. a \in Hits /\ b \in Hits
    BY <1>7
  <2>2. a.distance \in Int /\ b.distance \in Int
    BY <2>1 DEF Hits
  <2>3. j < i
    BY <1>5, <2>2
  <2>4. RanksBefore(b, a)
    BY <1>4, <2>3, SMTT(30)
  <2>5. a.driver \in DOMAIN search.listed /\ b.driver \in DOMAIN search.listed
    BY <1>3, <1>6 DEF SearchInv, FoundIsListed
  <2>6. a.distance <= b.distance
    BY <2>2
  <2>7. Score(a) \in Int /\ Score(b) \in Int /\ Score(b) <= Score(a)
    BY <2>1, <2>5, <2>6, NearerScores
  <2>8. QED
    BY <2>2, <2>4, <2>7 DEF RanksBefore
<1>14. LapsedIsOld' /\ FoundIsLive'
  BY <1>2, <1>9 DEF SearchInv, LapsedIsOld, FoundIsLive
<1>15. QED
  BY <1>8, <1>10, <1>11, <1>12, <1>13, <1>14 DEF SearchInv

-------------------------------------------------------------------------------
(* Nothing the search does or that happens meanwhile breaks it.            *)
LEMMA SearchInvNext == SearchInv /\ [SearchNext]_searchVars => SearchInv'
<1> SUFFICES ASSUME SearchInv, [SearchNext]_searchVars PROVE SearchInv'
  OBVIOUS
<1>1. CASE (\E d \in Pool, distance \in 0..Away : Report(d, distance)) \/ Tick
  BY <1>1, MeanwhileInv
<1>2. CASE ListCandidates  BY <1>2, ListCandidatesInv
<1>3. CASE GeoSearch  BY <1>3, GeoSearchInv
<1>4. CASE KeepHit  BY <1>4, KeepHitInv
<1>5. CASE SkipHit  BY <1>5, SkipHitInv
<1>6. CASE SearchReturns  BY <1>6, SearchReturnsInv
<1>7. CASE Rank  BY <1>7, RankInv
<1>8. CASE SearchAgain  BY <1>8, SearchAgainInv
<1>9. CASE UNCHANGED searchVars
  <2> USE <1>9 DEF searchVars, SearchInv
  <2>1. SearchFields' /\ ListedHaveRoom' /\ LeftIsSorted' /\ FoundIsListed' /\ FoundIsNearer'
    BY DEF SearchFields, ListedHaveRoom, LeftIsSorted, FoundIsListed, FoundIsNearer
  <2>2. SteadyIsFresh' /\ NobodyIsSkipped' /\ NothingFoundYet'
    BY DEF SteadyIsFresh, NobodyIsSkipped, NothingFoundYet, Crowded
  <2>3. RankedAreFound' /\ NearerIsTriedFirst'
    BY DEF RankedAreFound, NearerIsTriedFirst
  <2>4. LapsedIsOld' /\ FoundIsLive'
    BY DEF LapsedIsOld, FoundIsLive
  <2>5. QED  BY <2>1, <2>2, <2>3, <2>4
<1>10. QED
  BY <1>1, <1>2, <1>3, <1>4, <1>5, <1>6, <1>7, <1>8, <1>9 DEF SearchNext

(* The invariant of the search, however drivers move while it runs.        *)
THEOREM SearchInvariance == SearchSpec => []SearchInv
<1>1. QED  BY SearchInvInit, SearchInvNext, PTL DEF SearchSpec

(* The drivers that are ranked are those that were found, each once.       *)
LEMMA RankedOnce ==
  ASSUME SearchInv, search.phase = "done"
  PROVE  /\ Found(search.ranked) = Found(search.found)
         /\ Cardinality(Found(search.ranked)) = Len(search.ranked)
         /\ Len(search.ranked) = Len(search.found)
<1> DEFINE D == DOMAIN search.found
<1>1. PICK p \in Bijection(D, D) : search.ranked = [i \in D |-> search.found[p[i]]]
  BY DEF SearchInv, RankedAreFound
<1>2. /\ \A i \in D : p[i] \in D
      /\ \A i, j \in D : p[i] = p[j] => i = j
      /\ \A i \in D : \E j \in D : p[j] = i
  BY DEF Bijection, Injection, Surjection, IsInjective
<1>3. D = 1..Len(search.found) /\ Len(search.found) \in Nat
  BY LenProperties DEF SearchInv, SearchFields, Searches
<1>4. Len(search.ranked) = Len(search.found) /\ DOMAIN search.ranked = D
  <2>1. search.ranked \in Seq(Hits)
    BY DEF SearchInv, SearchFields, Searches
  <2>2. DOMAIN search.ranked = 1..Len(search.ranked) /\ Len(search.ranked) \in Nat
    BY <2>1, LenProperties
  <2>3. DOMAIN search.ranked = D
    BY <1>1
  <2>4. QED  BY <1>3, <2>2, <2>3
<1>9. \A i \in D : p[i] \in D /\ search.ranked[i] = search.found[p[i]]
  BY <1>1, <1>2
<1>5. Found(search.ranked) = Found(search.found)
  <2>1. \A i \in D : \E j \in D : search.ranked[i].driver = search.found[j].driver
    BY <1>9
  <2>2. \A i \in D : \E j \in D : search.found[i].driver = search.ranked[j].driver
    <3>1. ASSUME NEW i \in D PROVE \E j \in D : search.found[i].driver = search.ranked[j].driver
      <4>1. PICK j \in D : p[j] = i
        BY <1>2
      <4>2. search.ranked[j] = search.found[i]
        BY <1>9, <4>1
      <4>3. QED  BY <4>2
    <3>2. QED  BY <3>1
  <2>3. Found(search.ranked) = {search.ranked[i].driver : i \in D}
    BY <1>4 DEF Found
  <2>4. Found(search.found) = {search.found[i].driver : i \in D}
    BY DEF Found
  <2> HIDE DEF D
  <2>5. QED  BY <2>1, <2>2, <2>3, <2>4
<1>6. ASSUME NEW i \in D, NEW j \in D, search.ranked[i].driver = search.ranked[j].driver
      PROVE  i = j
  <2>1. search.found[p[i]].driver = search.found[p[j]].driver
    BY <1>6, <1>9
  <2>2. p[i] = p[j]
    BY <1>9, <2>1 DEF SearchInv, FoundIsListed
  <2>3. QED  BY <1>2, <2>2
<1>7. ExistsBijection(1..Len(search.ranked), Found(search.ranked))
  <2> DEFINE f == [i \in D |-> search.ranked[i].driver]
  <2>1. f \in [D -> Found(search.ranked)]
    BY <1>4 DEF Found
  <2>2. \A i, j \in D : f[i] = f[j] => i = j
    BY <1>6
  <2>3. \A d \in Found(search.ranked) : \E i \in D : f[i] = d
    BY <1>4 DEF Found
  <2>4. f \in Bijection(D, Found(search.ranked))
    BY <2>1, <2>2, <2>3 DEF Bijection, Injection, Surjection, IsInjective
  <2>5. QED  BY <1>3, <1>4, <2>4 DEF ExistsBijection
<1>8. Cardinality(Found(search.ranked)) = Len(search.ranked)
  BY <1>3, <1>4, <1>7, FS_CountingElements
<1>10. QED  BY <1>4, <1>5, <1>8

LEMMA SearchInvTypes == SearchInv => SearchTypeOK
BY DEF SearchInv, SearchFields, Searches, SearchTypeOK

(* The state of a search keeps its types.                                  *)
THEOREM SearchTypes == SearchSpec => []SearchTypeOK
<1>1. QED  BY SearchInvTypes, SearchInvariance, PTL

(* Whatever drivers report and however long the reading of the hits takes, *)
(* nobody is found who has been silent for longer than MaxAge ever since   *)
(* the search began; and who is found is sent on once, if listed, and no   *)
(* more than Limit.                                                        *)
THEOREM RankingIsLive == SearchSpec => []RankedAreLive
<1>1. SearchInv => RankedAreLive
  <2> SUFFICES ASSUME SearchInv PROVE RankedAreLive
    OBVIOUS
  <2>1. Found(search.found) \cap lapsed = {}
    BY DEF SearchInv, FoundIsLive
  <2>2. Found(search.found) \subseteq DOMAIN search.listed
    BY DEF SearchInv, FoundIsListed, Found
  <2>3. Len(search.found) <= Limit
    BY DEF SearchInv, FoundIsListed
  <2>4. QED
    BY <2>1, <2>2, <2>3, RankedOnce DEF RankedAreLive
<1>2. QED  BY <1>1, SearchInvariance, PTL

(* A near, listed driver that was fresh throughout is found, or Limit      *)
(* others no farther are, or COUNT entries stood before it.                *)
THEOREM NearbyAreFound == SearchSpec => []NobodyIsMissed
<1>1. SearchInv => NobodyIsMissed
  BY DEF SearchInv, NobodyIsSkipped, NobodyIsMissed, Hidden, Crowded
<1>2. QED  BY <1>1, SearchInvariance, PTL

(* For any weights and any rounding: nearer and otherwise no worse is      *)
(* tried first.                                                            *)
THEOREM NearerFirst == SearchSpec => []NearerIsTriedFirst
<1>1. SearchInv => NearerIsTriedFirst
  BY DEF SearchInv
<1>2. QED  BY <1>1, SearchInvariance, PTL
-------------------------------------------------------------------------------
(* A strict total order of 1..n puts its numbers in one sequence only: a   *)
(* number comes after as many others as are before it.                     *)
LEMMA OneSequence ==
  ASSUME NEW n \in Nat, NEW R,
         \A i, j \in 1..n : i # j => <<i, j>> \in R \/ <<j, i>> \in R,
         \A i, j \in 1..n : ~ (<<i, j>> \in R /\ <<j, i>> \in R),
         \A i, j, k \in 1..n : <<i, j>> \in R /\ <<j, k>> \in R => <<i, k>> \in R
  PROVE  \E p \in Bijection(1..n, 1..n) :
           /\ \A i, j \in 1..n : i < j => <<p[i], p[j]>> \in R
           /\ \A q \in Bijection(1..n, 1..n) :
                (\A i, j \in 1..n : i < j => <<q[i], q[j]>> \in R) => q = p
<1> DEFINE D == 1..n
           Below(i) == {j \in D : <<j, i>> \in R}
           pos == [i \in D |-> Cardinality(Below(i)) + 1]
           p == [k \in D |-> CHOOSE i \in D : pos[i] = k]
<1>1. IsFiniteSet(D) /\ Cardinality(D) = n
  <2>1. 1 \in Int /\ n \in Int
    OBVIOUS
  <2>2. QED  BY <2>1, FS_Interval
<1>2. \A i \in D : Below(i) \in SUBSET D /\ i \notin Below(i)
  OBVIOUS
<1> HIDE DEF D, Below, pos, p
<1>3. \A i \in D : IsFiniteSet(Below(i)) /\ Cardinality(Below(i)) \in Nat
  BY <1>1, <1>2, FS_Subset, FS_CardinalityType
<1>4. \A i \in D : pos[i] = Cardinality(Below(i)) + 1
  BY DEF pos
<1>5. ASSUME NEW i \in D
      PROVE  pos[i] \in D
  <2>1. Below(i) \in SUBSET (D \ {i})
    BY <1>2
  <2>2. IsFiniteSet(D \ {i}) /\ Cardinality(D \ {i}) = n - 1
    BY <1>1, FS_RemoveElement
  <2>3. Cardinality(Below(i)) <= n - 1
    <3> DEFINE E == D \ {i}
    <3>1. IsFiniteSet(E) /\ Below(i) \in SUBSET E /\ Cardinality(E) = n - 1
      BY <2>1, <2>2
    <3> HIDE DEF E
    <3>2. QED  BY <3>1, FS_Subset
  <2>4. QED  BY <1>3, <1>4, <2>3 DEF D
<1>6. ASSUME NEW i \in D, NEW j \in D, <<i, j>> \in R
      PROVE  pos[i] < pos[j]
  <2>1. Below(i) \in SUBSET Below(j) /\ i \in Below(j) /\ i \notin Below(i)
    BY <1>6 DEF Below, D
  <2>2. Cardinality(Below(i)) <= Cardinality(Below(j))
    BY <1>3, <2>1, FS_Subset
  <2>3. Cardinality(Below(i)) # Cardinality(Below(j))
    BY <1>3, <2>1, FS_Subset
  <2>4. QED  BY <1>3, <1>4, <2>2, <2>3
<1>7. \A i, j \in D : pos[i] = pos[j] => i = j
  <2>1. ASSUME NEW i \in D, NEW j \in D, pos[i] = pos[j], i # j
        PROVE  FALSE
    <3>1. <<i, j>> \in R \/ <<j, i>> \in R
      BY <2>1 DEF D
    <3>2. pos[i] < pos[j] \/ pos[j] < pos[i]
      BY <1>6, <3>1
    <3>3. pos[i] \in Nat /\ pos[j] \in Nat
      BY <1>5 DEF D
    <3>4. QED  BY <2>1, <3>2, <3>3
  <2>2. QED  BY <2>1
<1>8. \A k \in D : \E i \in D : pos[i] = k
  <2>1. pos \in [D -> D]
    BY <1>5 DEF pos
  <2>2. pos \in Injection(D, D)
    BY <1>7, <2>1 DEF Injection, IsInjective
  <2>3. pos \in Surjection(D, D)
    BY <1>1, <2>2, FS_Injection
  <2>4. QED  BY <2>3 DEF Surjection
<1>9. \A k \in D : p[k] \in D /\ pos[p[k]] = k
  BY <1>8 DEF p
<1>10. p \in Bijection(D, D)
  <2>1. p \in [D -> D]
    BY <1>9 DEF p
  <2>2. \A i \in D : p[pos[i]] = i
    BY <1>5, <1>7, <1>9
  <2>3. QED  BY <1>5, <1>9, <2>1, <2>2 DEF Bijection, Injection, Surjection, IsInjective
<1>11. ASSUME NEW i \in D, NEW j \in D, i < j
       PROVE  <<p[i], p[j]>> \in R
  <2>1. p[i] \in D /\ p[j] \in D /\ pos[p[i]] = i /\ pos[p[j]] = j
    BY <1>9
  <2>2. p[i] # p[j] /\ ~ (pos[p[j]] < pos[p[i]])
    BY <1>11, <2>1 DEF D
  <2>3. QED  BY <1>6, <2>1, <2>2 DEF D
<1>12. ASSUME NEW q \in Bijection(D, D), \A i, j \in D : i < j => <<q[i], q[j]>> \in R
       PROVE  q = p
  <2>1. /\ q \in [D -> D] /\ \A i, j \in D : q[i] = q[j] => i = j
        /\ \A j \in D : \E m \in D : q[m] = j
    BY DEF Bijection, Injection, Surjection, IsInjective
  <2>2. ASSUME NEW k \in D
        PROVE  q[k] = p[k]
    <3> DEFINE I == 1..(k - 1)
               f == [m \in I |-> q[m]]
    <3>1. k \in Nat /\ k - 1 \in Nat /\ \A m \in I : m \in D /\ m < k
      BY DEF D
    <3>2. \A m \in I : q[m] \in Below(q[k])
      BY <1>12, <2>1, <3>1 DEF Below
    <3>3. ASSUME NEW j \in Below(q[k])
          PROVE  \E m \in I : q[m] = j
      <4>1. PICK m \in D : q[m] = j
        BY <2>1 DEF Below
      <4>2. <<q[m], q[k]>> \in R /\ q[m] \in D /\ q[k] \in D
        BY <2>1, <4>1 DEF Below
      <4>3. m # k
        BY <4>2 DEF D
      <4>4. ~ (k < m)
        BY <1>12, <4>2 DEF D
      <4>5. m \in I
        BY <4>3, <4>4 DEF D
      <4>6. QED  BY <4>1, <4>5
    <3>4. f \in Bijection(I, Below(q[k]))
      <4> HIDE DEF I
      <4>1. f \in [I -> Below(q[k])]
        BY <3>2
      <4>2. \A a, b \in I : f[a] = f[b] => a = b
        BY <2>1, <3>1
      <4>3. \A j \in Below(q[k]) : \E m \in I : f[m] = j
        BY <3>3
      <4> HIDE DEF f
      <4>4. QED  BY <4>1, <4>2, <4>3 DEF Bijection, Injection, Surjection, IsInjective
    <3>5. Cardinality(Below(q[k])) = k - 1
      <4>1. ExistsBijection(1..(k - 1), Below(q[k]))
        BY <3>4 DEF ExistsBijection
      <4>2. QED  BY <3>1, <4>1, FS_CountingElements
    <3>6. q[k] \in D /\ pos[q[k]] = k
      <4>1. q[k] \in D
        BY <2>1
      <4>2. pos[q[k]] = (k - 1) + 1
        BY <1>4, <3>5, <4>1
      <4>3. QED  BY <3>1, <4>1, <4>2
    <3>7. QED  BY <1>7, <1>9, <3>6
  <2>3. p \in [D -> D]
    BY <1>9 DEF p
  <2>4. QED  BY <2>1, <2>2, <2>3
<1>13. QED  BY <1>10, <1>11, <1>12 DEF D

(* Of any hits there is one ranking: the comparison of sort() leaves no    *)
(* two drivers equal, so that the order in which they were found does not  *)
(* matter.                                                                 *)
THEOREM RankingIsDetermined ==
  SearchSpec => [](\E ranking : Rankings(search.found) = {ranking})
<1>1. ASSUME SearchInv
      PROVE  \E ranking : Rankings(search.found) = {ranking}
  <2> DEFINE hits == search.found
             n == Len(hits)
             s(i) == Score(hits[i])
             R == {ij \in (1..n) \X (1..n) : RanksBefore(hits[ij[1]], hits[ij[2]])}
  <2>1. n \in Nat /\ DOMAIN hits = 1..n /\ \A i \in 1..n : hits[i] \in Hits
    <3>1. hits \in Seq(Hits)
      BY <1>1 DEF SearchInv, SearchFields, Searches
    <3>2. QED  BY <3>1, LenProperties, ElementOfSeq
  <2>2. \A i \in 1..n : hits[i].driver \in Nat /\ hits[i].distance \in Int
    <3>1. ASSUME NEW h \in Hits
          PROVE  h.driver \in Nat /\ h.distance \in Int
      <4>1. h.driver \in Pool /\ h.distance \in 0..Radius
        BY DEF Hits
      <4>2. Radius \in Int /\ Pool \subseteq Nat
        BY SearchConstants
      <4>3. \A d \in 0..Radius : d \in Int
        BY <4>2
      <4> HIDE DEF hits, n
      <4>4. QED  BY <4>1, <4>2, <4>3
    <3> HIDE DEF hits, n
    <3>2. QED  BY <2>1, <3>1
  <2>3. \A i, j \in 1..n : i # j => hits[i].driver # hits[j].driver
    BY <1>1, <2>1 DEF SearchInv, FoundIsListed
  <2>4. ASSUME NEW i \in 1..n
        PROVE  s(i) \in Int
    <3> DEFINE h == hits[i]
    <3>1. h \in Hits /\ h.driver \in DOMAIN search.listed
      BY <1>1, <2>1 DEF SearchInv, FoundIsListed
    <3>2. h.distance \in Int /\ h.age \in Int /\ h.driver \in Pool
      BY <3>1 DEF Hits
    <3>3. search.listed[h.driver] * Capacity[h.driver] \in Int
      <4>1. search.listed[h.driver] \in Nat /\ Capacity[h.driver] \in Nat
        BY <1>1, <3>1, <3>2, SearchConstants DEF SearchInv, SearchFields, ListedHaveRoom
      <4>2. QED  BY <4>1
    <3> HIDE DEF h
    <3>4. Score(h) \in Int
      <4>1. /\ h.distance <= h.distance /\ h.age <= h.age
            /\ search.listed[h.driver] * Capacity[h.driver]
                 <= search.listed[h.driver] * Capacity[h.driver]
        BY <3>2, <3>3
      <4>2. QED  BY <1>1, <3>1, <4>1, NearerScores
    <3>5. QED  BY <3>4 DEF h
  <2> HIDE DEF hits, n
  <2>5. \A i, j \in 1..n : RanksBefore(hits[i], hits[j]) <=>
          \/ s(i) > s(j)
          \/ s(i) = s(j) /\ hits[i].distance < hits[j].distance
          \/ s(i) = s(j) /\ hits[i].distance = hits[j].distance /\ hits[i].driver < hits[j].driver
    BY DEF RanksBefore
  <2> HIDE DEF s
  <2>6. \A i, j \in 1..n : <<i, j>> \in R <=> RanksBefore(hits[i], hits[j])
    OBVIOUS
  <2> HIDE DEF R
  <2>7. \A i, j \in 1..n : i # j => <<i, j>> \in R \/ <<j, i>> \in R
    BY <2>2, <2>3, <2>4, <2>5, <2>6
  <2>8. ASSUME NEW i \in 1..n, NEW j \in 1..n
        PROVE  ~ (<<i, j>> \in R /\ <<j, i>> \in R)
    <3>1. /\ s(i) \in Int /\ s(j) \in Int
          /\ hits[i].distance \in Int /\ hits[j].distance \in Int
          /\ hits[i].driver \in Nat /\ hits[j].driver \in Nat
      BY <2>2, <2>4
    <3>2. ~ (RanksBefore(hits[i], hits[j]) /\ RanksBefore(hits[j], hits[i]))
      BY <2>5, <3>1
    <3>3. QED  BY <2>6, <3>2
  <2>9. \A i, j, k \in 1..n : <<i, j>> \in R /\ <<j, k>> \in R => <<i, k>> \in R
    BY <2>2, <2>4, <2>5, <2>6
  <2>10. PICK p \in Bijection(1..n, 1..n) :
           /\ \A i, j \in 1..n : i < j => <<p[i], p[j]>> \in R
           /\ \A q \in Bijection(1..n, 1..n) :
                (\A i, j \in 1..n : i < j => <<q[i], q[j]>> \in R) => q = p
    BY <2>1, <2>7, <2>8, <2>9, OneSequence
  <2> DEFINE Ranked(q) == [i \in 1..n |-> hits[q[i]]]
  <2>11. ASSUME NEW q \in Bijection(1..n, 1..n)
         PROVE  (\A i, j \in 1..n : i < j => RanksBefore(Ranked(q)[i], Ranked(q)[j])) <=>
                  \A i, j \in 1..n : i < j => <<q[i], q[j]>> \in R
    <3>1. \A i \in 1..n : q[i] \in 1..n
      BY DEF Bijection, Injection
    <3>2. QED  BY <2>6, <3>1
  <2>12. Rankings(hits) =
           {r \in {Ranked(q) : q \in Bijection(1..n, 1..n)} :
              \A i, j \in 1..n : i < j => RanksBefore(r[i], r[j])}
    BY <2>1 DEF Rankings
  <2> HIDE DEF Ranked
  <2>13. Rankings(hits) = {Ranked(p)}
    BY <2>10, <2>11, <2>12
  <2>14. QED  BY <2>13 DEF hits
<1>2. QED  BY <1>1, SearchInvariance, PTL
===============================================================================
