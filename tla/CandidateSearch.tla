---------------------------- MODULE CandidateSearch ----------------------------
(***************************************************************************)
(* How StartDispatch comes to its ranked candidates: it asks the driver    *)
(* service for drivers with room, the tracking service for those of them   *)
(* that are near, and scores what it gets.  The nearby search is itself    *)
(* one GEOSEARCH and then one HGETALL for each hit, while drivers move and *)
(* fall silent.                                                            *)
(*                                                                         *)
(* A position is its distance from the pick-up.  Its age counts from when  *)
(* it was received, whatever time the driver says it was recorded at: a    *)
(* sample that was held back is new.  Drivers are numbers, in the order of *)
(* their ids.  Loads are read once, so they do not change here: that they  *)
(* are stale by the time of the reservation is the subject of              *)
(* DriverService.                                                          *)
(***************************************************************************)
EXTENDS Integers, SequencesExt

CONSTANTS
  Pool,          \* the drivers there are
  Capacity,      \* places of each driver
  Limit,         \* DISPATCH_CANDIDATE_LIMIT
  Overfetch,     \* COUNT is Limit times this, 3 in the code
  Radius,        \* search radius
  MaxAge,        \* DISPATCH_LOCATION_MAX_AGE_SECONDS, less than the TTL of a hash
  Weights,       \* distance, capacity, load and freshness, in percent
  MaxReports,    \* bound: positions reported while a search runs
  MaxTicks       \* bound: seconds that pass while a search runs

ASSUME SearchAssumption ==
  /\ Pool \subseteq Nat /\ IsFiniteSet(Pool)
  /\ Capacity \in [Pool -> Nat \ {0}]
  /\ {Limit, Overfetch, Radius, MaxAge} \subseteq Nat \ {0}
  /\ Weights \in [{"distance", "capacity", "load", "freshness"} -> Nat]
  /\ {MaxReports, MaxTicks} \subseteq Nat

VARIABLES
  load,          \* orders each driver has
  position,      \* distance of each driver's entry in the GEO set, or Away
  age,           \* seconds since its position was received, or TooOld
  search,        \* the search in progress
  steady,        \* history: who has been fresh ever since the GEOSEARCH
  lapsed,        \* history: who has not been fresh at any time since it
  budget         \* reports and ticks that are left of the bounds

searchVars == <<load, position, age, search, steady, lapsed, budget>>

Away == Radius + 1      \* no entry, or one outside the radius
TooOld == MaxAge + 1    \* too old, or the hash has expired

Nobody == [d \in {} |-> 0]

Idle == [phase |-> "idle", listed |-> Nobody, indexed |-> Nobody,
         left |-> <<>>, found |-> <<>>, ranked |-> <<>>]

FullBudget == [reports |-> MaxReports, ticks |-> MaxTicks]

SearchInit ==
  /\ load \in {l \in [Pool -> 0..Max({Capacity[d] : d \in Pool})] :
                 \A d \in Pool : l[d] <= Capacity[d]}
  /\ position \in [Pool -> 0..Away]
  /\ age \in [Pool -> 0..TooOld]
  /\ search = Idle
  /\ steady = {}
  /\ lapsed = {}
  /\ budget = FullBudget

-------------------------------------------------------------------------------
(* Meanwhile a driver reports where it is, and time passes.                *)
Running == search.phase \notin {"idle", "done"}

(* A report that the store accepts.  One that it refuses, because a later  *)
(* one has been stored, changes neither entry nor hash.                    *)
Report(d, distance) ==
  /\ Running
  /\ budget.reports > 0
  /\ position' = [position EXCEPT ![d] = distance]
  /\ age' = [age EXCEPT ![d] = 0]
  /\ lapsed' = lapsed \ {d}
  /\ budget' = [budget EXCEPT !.reports = @ - 1]
  /\ UNCHANGED <<load, search, steady>>

Tick ==
  /\ Running
  /\ budget.ticks > 0
  /\ age' = [d \in Pool |-> Min({age[d] + 1, TooOld})]
  /\ steady' = {d \in steady : age'[d] <= MaxAge}
  /\ budget' = [budget EXCEPT !.ticks = @ - 1]
  /\ UNCHANGED <<load, position, search, lapsed>>

-------------------------------------------------------------------------------
(* findAvailableCandidates: the least loaded, of these the largest.  A     *)
(* driver that is not AVAILABLE counts as full.                            *)
HasRoom(d) == load[d] < Capacity[d]

ListedBefore(d, e) ==
  \/ load[d] * Capacity[e] < load[e] * Capacity[d]
  \/ load[d] * Capacity[e] = load[e] * Capacity[d] /\ Capacity[d] > Capacity[e]

(* The first Limit rows; ties are broken by age, which is not modelled.    *)
Listings ==
  LET rows == {d \in Pool : HasRoom(d)}
  IN {S \in kSubset(Min({Limit, Cardinality(rows)}), rows) :
        \A d \in S, e \in rows \ S : ~ListedBefore(e, d)}

ListCandidates ==
  /\ search.phase = "idle"
  /\ \E S \in Listings :
       search' = [search EXCEPT !.phase = IF S = {} THEN "ranking" ELSE "locating",
                                !.listed = [d \in S |-> load[d]]]
  /\ UNCHANGED <<load, position, age, steady, lapsed, budget>>

(* GEOSEARCH BYRADIUS ASC COUNT: the nearest entries, whoever they are.    *)
InRadius == {d \in Pool : position[d] <= Radius}

(* Mutation of GeoHits: without ASC the entries come in any order.         *)
GeoHitsUnsorted ==
  LET count == Min({Limit * Overfetch, Cardinality(InRadius)})
  IN UNION {SetToSeqs(S) : S \in kSubset(count, InRadius)}

GeoHits ==
  LET count == Min({Limit * Overfetch, Cardinality(InRadius)})
  IN {h \in UNION {SetToSeqs(S) : S \in kSubset(count, InRadius)} :
        /\ \A i, j \in DOMAIN h : i < j => position[h[i]] <= position[h[j]]
        /\ \A i \in DOMAIN h, e \in InRadius \ ToSet(h) : position[h[i]] <= position[e]}

GeoSearch ==
  /\ search.phase = "locating"
  /\ \E hits \in GeoHits :
       search' = [search EXCEPT !.phase = "reading",
                                !.indexed = [d \in InRadius |-> position[d]],
                                !.left = hits]
  /\ steady' = {d \in Pool : age[d] <= MaxAge}
  /\ lapsed' = Pool \ steady'
  /\ UNCHANGED <<load, position, age, budget>>

(* Mutation of Wanted: the hash is not looked at.                          *)
WantedAtAnyAge(d) == d \in DOMAIN search.listed

(* A hit is dropped if the driver was not listed, or if its hash is gone   *)
(* or was received too long ago.                                           *)
Wanted(d) == d \in DOMAIN search.listed /\ age[d] <= MaxAge

Reading ==
  /\ search.phase = "reading"
  /\ search.left # <<>>
  /\ Len(search.found) < Limit

KeepHit ==
  /\ Reading
  /\ LET d == Head(search.left)
     IN /\ Wanted(d)
        /\ search' = [search EXCEPT
             !.left = Tail(@),
             !.found = Append(@, [driver |-> d, distance |-> search.indexed[d],
                                  age |-> age[d]])]
  /\ UNCHANGED <<load, position, age, steady, lapsed, budget>>

SkipHit ==
  /\ Reading
  /\ ~Wanted(Head(search.left))
  /\ search' = [search EXCEPT !.left = Tail(@)]
  /\ UNCHANGED <<load, position, age, steady, lapsed, budget>>

(* The loop ends after the last hit or with Limit drivers.                 *)
SearchReturns ==
  /\ search.phase = "reading"
  /\ search.left = <<>> \/ Len(search.found) = Limit
  /\ search' = [search EXCEPT !.phase = "ranking", !.left = <<>>]
  /\ UNCHANGED <<load, position, age, steady, lapsed, budget>>

-------------------------------------------------------------------------------
(* Mutation of Nearness: the distance itself is scored.                    *)
NearnessInverted(hit) == hit.distance

(* DriverScoringService.rank.  Each component is a fraction in 0..1; they  *)
(* are brought to the denominator Radius * Capacity * MaxAge.  The score   *)
(* is kept in hundredths, rounded as toFixed(2) does; that distances were  *)
(* rounded to metres before and loads to ten-thousandths is left out.      *)
Nearness(hit) == Radius - hit.distance

Score(hit) ==
  LET d == hit.driver
      room == Capacity[d] - search.listed[d]
      whole == Radius * Capacity[d] * MaxAge
      parts == Weights["distance"] * Nearness(hit) * Capacity[d] * MaxAge
               + (Weights["capacity"] + Weights["load"]) * room * Radius * MaxAge
               + Weights["freshness"] * (MaxAge - hit.age) * Radius * Capacity[d]
  IN (200 * parts + whole) \div (2 * whole)

RanksBefore(a, b) ==
  \/ Score(a) > Score(b)
  \/ Score(a) = Score(b) /\ a.distance < b.distance
  \/ Score(a) = Score(b) /\ a.distance = b.distance /\ a.driver < b.driver

(* What sort() makes of the hits: they are in this order, and only moved.  *)
Rankings(hits) ==
  {r \in {[i \in DOMAIN hits |-> hits[p[i]]] : p \in Bijection(DOMAIN hits, DOMAIN hits)} :
     \A i, j \in DOMAIN hits : i < j => RanksBefore(r[i], r[j])}

(* rank() drops who has no place left: nobody, of those that were listed.  *)
Rank ==
  /\ search.phase = "ranking"
  /\ \E ranking \in Rankings(search.found) :
       search' = [search EXCEPT !.phase = "done", !.ranked = ranking]
  /\ UNCHANGED <<load, position, age, steady, lapsed, budget>>

(* The handler of another event; or a request has failed, the handler has  *)
(* thrown, and its event has come again.                                   *)
SearchAgain ==
  /\ search.phase # "idle"
  /\ search' = Idle
  /\ steady' = {}
  /\ lapsed' = {}
  /\ budget' = FullBudget
  /\ UNCHANGED <<load, position, age>>

SearchNext ==
  \/ \E d \in Pool, distance \in 0..Away : Report(d, distance)
  \/ Tick
  \/ ListCandidates \/ GeoSearch \/ KeepHit \/ SkipHit \/ SearchReturns \/ Rank
  \/ SearchAgain

SearchSpec == SearchInit /\ [][SearchNext]_searchVars

-------------------------------------------------------------------------------
Hits == [driver : Pool, distance : 0..Radius, age : 0..MaxAge]

(* The state of a search has these types.                                 *)
SearchTypeOK ==
  /\ load \in [Pool -> Nat]
  /\ position \in [Pool -> 0..Away]
  /\ age \in [Pool -> 0..TooOld]
  /\ search.phase \in {"idle", "locating", "reading", "ranking", "done"}
  /\ search.left \in Seq(Pool)
  /\ search.found \in Seq(Hits)
  /\ search.ranked \in Seq(Hits)
  /\ steady \subseteq Pool
  /\ lapsed \subseteq Pool

Found(hits) == {hits[i].driver : i \in DOMAIN hits}

(* Nobody is found on the word of an entry that outlives its hash: who was *)
(* silent for longer than MaxAge when the search began is found only after *)
(* reporting in the middle of it.  The driver service is sent the listed   *)
(* drivers that were found, all of them, each once, and at most Limit.     *)
RankedAreLive ==
  /\ Found(search.found) \cap lapsed = {}
  /\ search.phase = "done" =>
       /\ Found(search.ranked) = Found(search.found)
       /\ Found(search.ranked) \subseteq DOMAIN search.listed
       /\ Cardinality(Found(search.ranked)) = Len(search.ranked)
       /\ Len(search.ranked) <= Limit

(* A listed driver that was near when the search began and whose position  *)
(* stayed fresh is missed for two reasons only: Limit drivers that are no  *)
(* farther were found, or COUNT entries no farther, dead or alive, hid it. *)
NobodyIsMissed ==
  search.phase = "done" =>
    \A d \in steady \cap DOMAIN search.listed \cap DOMAIN search.indexed :
      \/ d \in Found(search.found)
      \/ /\ Len(search.found) = Limit
         /\ \A i \in DOMAIN search.found : search.found[i].distance <= search.indexed[d]
      \/ Cardinality({e \in DOMAIN search.indexed \ {d} :
                        search.indexed[e] <= search.indexed[d]}) >= Limit * Overfetch

(* A driver that is nearer and in no other respect worse is tried first,   *)
(* whatever the weights and the rounding do to the scores.                 *)
NearerIsTriedFirst ==
  \A i, j \in DOMAIN search.ranked :
    LET a == search.ranked[i]
        b == search.ranked[j]
    IN /\ a.distance < b.distance
       /\ a.age <= b.age
       /\ search.listed[a.driver] * Capacity[b.driver]
            <= search.listed[b.driver] * Capacity[a.driver]
       => i < j
===============================================================================
