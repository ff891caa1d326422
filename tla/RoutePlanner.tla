----------------------------- MODULE RoutePlanner -----------------------------
(***************************************************************************)
(* RoutePlannerService of the dispatch service: the paired-insertion route *)
(* of one vehicle.  plan() checks its input and then considers the orders  *)
(* one by one; each is inserted, pick-up and drop-off together, where the  *)
(* route stays feasible and grows least, or it is rejected.                *)
(*                                                                         *)
(* A place is a member of Points and haversineKm is Distance.  An order is *)
(* [id, demand, pickup, dropoff], a stop is [order, type, demand, at].     *)
(***************************************************************************)
EXTENDS Integers, SequencesExt

CONSTANTS
  Points,        \* the places
  Distance,      \* kilometres between two places, symmetric
  Inputs,        \* what plan() may be called with
  MaxOrders      \* orders an input may hold, 25 in the code

ASSUME RouteAssumption ==
  /\ Distance \in [Points \X Points -> Nat]
  /\ MaxOrders \in Nat
  /\ \A in \in Inputs :
       /\ in.origin \in Points
       /\ in.vehicleCapacity \in Nat
       /\ in.orders \in Seq(ToSet(in.orders))
       /\ \A i \in DOMAIN in.orders :
            /\ in.orders[i].demand \in Nat
            /\ {in.orders[i].pickup, in.orders[i].dropoff} \subseteq Points

VARIABLES
  input,         \* the input of the call
  planning,      \* "checking", "inserting", "done" or "refused"
  considered,    \* how many orders have been inserted or rejected
  route,         \* the stops so far
  rejected       \* the orders rejected so far

routeVars == <<input, planning, considered, route, rejected>>

Stop(o, type) ==
  [order |-> o.id, type |-> type, demand |-> o.demand,
   at |-> IF type = "PICKUP" THEN o.pickup ELSE o.dropoff]

-------------------------------------------------------------------------------
(* The load after k stops, and the kilometres driven by then.              *)
LoadAfter(stops) ==
  LET load[k \in 0..Len(stops)] ==
        IF k = 0 THEN 0
        ELSE load[k - 1] + (IF stops[k].type = "PICKUP" THEN stops[k].demand
                                                        ELSE -stops[k].demand)
  IN load

PlaceBefore(origin, stops, k) == IF k = 1 THEN origin ELSE stops[k - 1].at

(* Distances are numbers: that haversineKm may be NaN for two places that  *)
(* are exactly antipodal is left out.                                      *)
DistanceOf(origin, stops) ==
  LET km[k \in 0..Len(stops)] ==
        IF k = 0 THEN 0
        ELSE km[k - 1] + Distance[<<PlaceBefore(origin, stops, k), stops[k].at>>]
  IN km[Len(stops)]

PickedBefore(stops, k) ==
  \E i \in 1..(k - 1) : stops[i].order = stops[k].order /\ stops[i].type = "PICKUP"

(* Mutation of IsCapacityFeasible: the load is only looked at in the end.  *)
IsFeasibleInTheEnd(stops, capacity) ==
  /\ \A k \in DOMAIN stops : (stops[k].type = "PICKUP") # PickedBefore(stops, k)
  /\ LoadAfter(stops)[Len(stops)] \in 0..capacity

IsCapacityFeasible(stops, capacity) ==
  LET load == LoadAfter(stops)
  IN /\ \A k \in DOMAIN stops :
          /\ (stops[k].type = "PICKUP") # PickedBefore(stops, k)
          /\ load[k] \in 0..capacity
     /\ load[Len(stops)] = 0

(* The route with order o picked up at position p[1] and dropped at p[2].  *)
Inserted(stops, o, p) ==
  InsertAt(InsertAt(stops, p[1], Stop(o, "PICKUP")), p[2], Stop(o, "DROPOFF"))

(* Where the two loops of bestInsertion put the pair.                      *)
Positions(stops) ==
  {p \in (1..(Len(stops) + 1)) \X (2..(Len(stops) + 2)) : p[1] < p[2]}

FeasiblePositions(in, stops, o) ==
  {p \in Positions(stops) : IsCapacityFeasible(Inserted(stops, o, p), in.vehicleCapacity)}

(* Mutation of BestInsertion: the first feasible route is taken.           *)
FirstInsertion(in, stops, o) ==
  LET feasible == FeasiblePositions(in, stops, o)
  IN Inserted(stops, o,
       CHOOSE p \in feasible : \A q \in feasible :
         p[1] < q[1] \/ (p[1] = q[1] /\ p[2] <= q[2]))

(* Of equally short routes the loops keep the first they come to.          *)
BestInsertion(in, stops, o) ==
  LET feasible == FeasiblePositions(in, stops, o)
      km == [p \in feasible |-> DistanceOf(in.origin, Inserted(stops, o, p))]
      shortest == {p \in feasible : \A q \in feasible : km[p] <= km[q]}
  IN Inserted(stops, o,
       CHOOSE p \in shortest : \A q \in shortest :
         p[1] < q[1] \/ (p[1] = q[1] /\ p[2] <= q[2]))

-------------------------------------------------------------------------------
Order == input.orders[considered + 1]

(* Mutation of DemandFits: an order that fills the vehicle is refused.     *)
DemandFitsBelow(o) == o.demand \in 1..(input.vehicleCapacity - 1)

DemandFits(o) == o.demand \in 1..input.vehicleCapacity

(* Mutation of IsValid: the ids are not compared.                          *)
IsValidWithDuplicates(in) ==
  in.vehicleCapacity >= 1 /\ Len(in.orders) \in 1..MaxOrders

IsValid(in) ==
  /\ in.vehicleCapacity >= 1
  /\ Len(in.orders) \in 1..MaxOrders
  /\ IsInjective([i \in DOMAIN in.orders |-> in.orders[i].id])

RouteInit ==
  /\ input \in Inputs
  /\ planning = "checking"
  /\ considered = 0
  /\ route = <<>>
  /\ rejected = {}

Check ==
  /\ planning = "checking"
  /\ planning' = IF IsValid(input) THEN "inserting" ELSE "refused"
  /\ UNCHANGED <<input, considered, route, rejected>>

Insert ==
  /\ planning = "inserting"
  /\ considered < Len(input.orders)
  /\ DemandFits(Order)
  /\ FeasiblePositions(input, route, Order) # {}
  /\ route' = BestInsertion(input, route, Order)
  /\ considered' = considered + 1
  /\ UNCHANGED <<input, planning, rejected>>

Reject ==
  /\ planning = "inserting"
  /\ considered < Len(input.orders)
  /\ ~(DemandFits(Order) /\ FeasiblePositions(input, route, Order) # {})
  /\ rejected' = rejected \cup {Order.id}
  /\ considered' = considered + 1
  /\ UNCHANGED <<input, planning, route>>

Return ==
  /\ planning = "inserting"
  /\ considered = Len(input.orders)
  /\ planning' = "done"
  /\ UNCHANGED <<input, considered, route, rejected>>

RouteNext == Check \/ Insert \/ Reject \/ Return

RouteSpec == RouteInit /\ [][RouteNext]_routeVars

-------------------------------------------------------------------------------
(* The state of a plan has these types.                                   *)
RouteTypeOK ==
  /\ planning \in {"checking", "inserting", "done", "refused"}
  /\ considered \in 0..Len(input.orders)
  /\ route \in Seq([order : {input.orders[i].id : i \in DOMAIN input.orders},
                    type : {"PICKUP", "DROPOFF"}, demand : Nat, at : Points])
  /\ rejected \subseteq {input.orders[i].id : i \in 1..considered}

Accepted == {i \in 1..considered : input.orders[i].id \notin rejected}

(* The stops where order o is picked up or dropped.                        *)
StopsOf(stops, o, type) == {k \in DOMAIN stops : stops[k] = Stop(o, type)}

PickupBeforeDropoff(stops, o) ==
  \E k, l \in DOMAIN stops :
    /\ k < l
    /\ StopsOf(stops, o, "PICKUP") = {k}
    /\ StopsOf(stops, o, "DROPOFF") = {l}

(* Every accepted order is picked up once and dropped once after that, and *)
(* the route visits nobody else (bestInsertion over all the orders).       *)
RouteServesAccepted ==
  /\ \A i \in Accepted : PickupBeforeDropoff(route, input.orders[i])
  /\ Len(route) = 2 * Cardinality(Accepted)

(* The orders that are in the vehicle after k stops.                       *)
OnBoard(stops, orders, k) ==
  {i \in DOMAIN orders :
     /\ \E l \in StopsOf(stops, orders[i], "PICKUP") : l <= k
     /\ \A l \in StopsOf(stops, orders[i], "DROPOFF") : l > k}

NeverOverloaded(stops, in) ==
  \A k \in DOMAIN stops :
    SumFunctionOnSet([i \in DOMAIN in.orders |-> in.orders[i].demand],
                     OnBoard(stops, in.orders, k)) <= in.vehicleCapacity

(* What is in the vehicle after any stop fits into it, whatever the order  *)
(* in which the pairs were inserted around each other.                     *)
VehicleNeverOverloaded == NeverOverloaded(route, input)

(* plan() rejects an order only if no vehicle of this capacity could ever  *)
(* take it: no other order is in the way, for its pair fits at the end.    *)
OnlyImpossibleRejected ==
  rejected = {input.orders[i].id : i \in
                {j \in 1..considered :
                   input.orders[j].demand \notin 1..input.vehicleCapacity}}

(* stops with two more at positions k and l of the result.                 *)
Merged(stops, k, l, pickup, dropoff) ==
  [n \in 1..(Len(stops) + 2) |->
     CASE n = k -> pickup
       [] n = l -> dropoff
       [] OTHER -> stops[n - Cardinality({m \in {k, l} : m < n})]]

(* An insertion leaves the stops that are there in their order, and no     *)
(* other way to visit the new pair that respects precedence and capacity   *)
(* is shorter.                                                             *)
InsertionIsShortest ==
  [][Len(route') > Len(route) =>
       LET pickup == Stop(Order, "PICKUP")
           dropoff == Stop(Order, "DROPOFF")
           ways == {Merged(route, p[1], p[2], pickup, dropoff) :
                      p \in {q \in (1..Len(route')) \X (1..Len(route')) : q[1] < q[2]}}
       IN /\ route' \in ways
          /\ \A way \in ways :
               NeverOverloaded(way, input) =>
                 DistanceOf(input.origin, route') <= DistanceOf(input.origin, way)]_routeVars
===============================================================================
