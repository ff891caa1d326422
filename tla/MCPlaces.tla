------------------------------ MODULE MCPlaces --------------------------------
(***************************************************************************)
(* Instances for TLC of the components that deal with places: where the    *)
(* drivers are, who of them is near, in which order a driver visits its    *)
(* stops, and the line the map draws through them; and of the gateway they *)
(* are asked through.  They share no state here, so a behaviour is one of  *)
(* a single component.                                                     *)
(***************************************************************************)
EXTENDS CandidateSearch, RoutePlanner, TrackingGateway, LiveMap, GatewayCalls

VARIABLE component

placesVars == <<component, searchVars, routeVars, gatewayVars, mapVars, callVars>>

(* The places lie on a line.                                               *)
OnLine == [p \in Points \X Points |-> IF p[1] < p[2] THEN p[2] - p[1] ELSE p[1] - p[2]]

Capacities == (1 :> 2) @@ (2 :> 1) @@ (3 :> 1)

(* Being near weighs as much as having all places free and a new position. *)
EvenWeights ==
  [distance |-> 50, capacity |-> 20, load |-> 20, freshness |-> 10]

(* Three orders from any place to any place, of which the vehicle carries  *)
(* one or two at a time or one of which is too large for it; and what      *)
(* plan() refuses.                                                         *)
OrderOf(id, demand, from, to) ==
  [id |-> id, demand |-> demand, pickup |-> from, dropoff |-> to]

Call(capacity, orders) ==
  [origin |-> 0, vehicleCapacity |-> capacity, orders |-> orders]

PlanCalls ==
  {Call(2, <<OrderOf(1, d[1], a, b), OrderOf(2, d[2], c, e), OrderOf(3, d[3], f, g)>>) :
     d \in {r \in [1..3 -> 1..3] : r[1] + r[2] + r[3] <= 5}, a, b, c, e, f, g \in Points}
  \cup {Call(2, <<OrderOf(1, 1, 0, 1), OrderOf(1, 1, 1, 2)>>),
        Call(2, <<>>), Call(0, <<OrderOf(1, 1, 0, 1)>>),
        Call(1, <<OrderOf(1, 0, 0, 1)>>),
        Call(2, [i \in 1..(MaxOrders + 1) |-> OrderOf(i, 1, 0, 1)])}

PlacesInit ==
  /\ GatewayInit /\ MapInit /\ CallInit
  /\ \/ component = "search" /\ SearchInit /\ load[3] = 0
     \/ /\ component \in {"route", "gateway", "map", "calls"}
        /\ load = [d \in Pool |-> 0] /\ position = [d \in Pool |-> Away]
        /\ age = [d \in Pool |-> TooOld]
        /\ search = Idle /\ steady = {} /\ lapsed = {} /\ budget = FullBudget
  /\ \/ component = "route" /\ RouteInit
     \/ /\ component \in {"search", "gateway", "map", "calls"}
        /\ input = Call(2, <<>>) /\ planning = "refused"
        /\ considered = 0 /\ route = <<>> /\ rejected = {}

PlacesNext ==
  /\ UNCHANGED component
  /\ \/ /\ component = "search" /\ SearchNext
        /\ UNCHANGED <<routeVars, gatewayVars, mapVars, callVars>>
     \/ /\ component = "route" /\ RouteNext
        /\ UNCHANGED <<searchVars, gatewayVars, mapVars, callVars>>
     \/ /\ component = "gateway" /\ GatewayNext
        /\ UNCHANGED <<searchVars, routeVars, mapVars, callVars>>
     \/ /\ component = "map" /\ MapNext
        /\ UNCHANGED <<searchVars, routeVars, gatewayVars, callVars>>
     \/ /\ component = "calls" /\ CallNext
        /\ UNCHANGED <<searchVars, routeVars, gatewayVars, mapVars>>

PlacesSpec == PlacesInit /\ [][PlacesNext]_placesVars

(* Types of all five.                                                      *)
PlacesTypeOK ==
  /\ SearchTypeOK
  /\ RouteTypeOK
  /\ GatewayTypeOK
  /\ MapTypeOK
  /\ CallTypeOK
===============================================================================
