-------------------------------- MODULE LiveMap --------------------------------
(***************************************************************************)
(* The map of the operations console: the line it draws through the stops  *)
(* of a route.  It draws direct segments at once and asks a routing        *)
(* service for the roads; the answer replaces them, unless the stops have  *)
(* changed or five seconds are over by then.                               *)
(***************************************************************************)
EXTENDS Naturals

CONSTANTS
  Waypoints,     \* the lists of waypoints there may be
  NoRoute,       \* a list with less than two
  Fetches        \* slots for requests to the routing service

ASSUME NoRouteAssumption == NoRoute \notin Waypoints

VARIABLES
  waypoints,     \* routeWaypoints, of the stops shown last
  geometry,      \* the list that roadGeometry belongs to
  source,        \* routeSource
  roadEta,       \* the list that roadEtaMinutes belongs to, or NoRoute
  fetch          \* requests: those that matter, and those aborted

mapVars == <<waypoints, geometry, source, roadEta, fetch>>

NoFetch == [state |-> "none", route |-> NoRoute]

MapTypeOK ==
  /\ {waypoints, geometry, roadEta} \subseteq Waypoints \cup {NoRoute}
  /\ source \in {"none", "direct", "road"}
  /\ fetch \in [Fetches -> [state : {"none", "open", "aborted"},
                            route : Waypoints \cup {NoRoute}]]

MapInit ==
  /\ waypoints = NoRoute
  /\ geometry = NoRoute
  /\ source = "none"
  /\ roadEta = NoRoute
  /\ fetch = [f \in Fetches |-> NoFetch]

-------------------------------------------------------------------------------
(* Mutation of Aborted: the effect has no cleanup.                         *)
AbortedNever == fetch

(* The cleanup of the effect aborts the request it has made.               *)
Aborted ==
  [f \in Fetches |-> IF fetch[f].state = "open" THEN [fetch[f] EXCEPT !.state = "aborted"]
                     ELSE fetch[f]]

(* The stops are gone, or the map is taken off the page and put back.      *)
ClearRoute ==
  /\ waypoints' = NoRoute
  /\ geometry' = NoRoute
  /\ source' = "none"
  /\ roadEta' = NoRoute
  /\ fetch' = Aborted

(* New waypoints, or the same in a new list.  The ETA by road is kept.     *)
(* The render before the effect, which still has the old line, is part of  *)
(* the step.                                                               *)
ShowRoute(w) ==
  /\ waypoints' = w
  /\ geometry' = w
  /\ source' = "direct"
  /\ \E f \in Fetches :
       /\ fetch[f] = NoFetch
       /\ fetch' = [Aborted EXCEPT ![f] = [state |-> "open", route |-> w]]
  /\ UNCHANGED roadEta

RoadAnswered(f) ==
  /\ fetch[f].state = "open"
  /\ geometry' = fetch[f].route
  /\ source' = "road"
  /\ roadEta' \in {fetch[f].route, NoRoute}
  /\ fetch' = [fetch EXCEPT ![f] = NoFetch]
  /\ UNCHANGED waypoints

RoadFailed(f) ==
  /\ fetch[f].state = "open"
  /\ geometry' = fetch[f].route
  /\ source' = "direct"
  /\ roadEta' = NoRoute
  /\ fetch' = [fetch EXCEPT ![f] = NoFetch]
  /\ UNCHANGED waypoints

RoadTimeout(f) ==
  /\ fetch[f].state = "open"
  /\ fetch' = [fetch EXCEPT ![f].state = "aborted"]
  /\ UNCHANGED <<waypoints, geometry, source, roadEta>>

(* The promise of an aborted request is rejected, and nothing else.        *)
AbortSettled(f) ==
  /\ fetch[f].state = "aborted"
  /\ fetch' = [fetch EXCEPT ![f] = NoFetch]
  /\ UNCHANGED <<waypoints, geometry, source, roadEta>>

MapNext ==
  \/ ClearRoute
  \/ \E w \in Waypoints : ShowRoute(w)
  \/ \E f \in Fetches :
       RoadAnswered(f) \/ RoadFailed(f) \/ RoadTimeout(f) \/ AbortSettled(f)

MapSpec == MapInit /\ [][MapNext]_mapVars

-------------------------------------------------------------------------------
(* What is seen of it: the line, direct segments being dashed, and the ETA *)
(* by road or else the planner's, which is that of the stops shown.        *)
Drawn ==
  [line   |-> IF geometry # NoRoute THEN geometry ELSE waypoints,
   dashed |-> source = "direct"]

DisplayEta == IF roadEta # NoRoute THEN roadEta ELSE waypoints

(* Whatever the routing service answers and when, the line goes through    *)
(* the stops shown, and the ETA next to a line by road is that line's.     *)
(* (Next to direct segments it may be the one of another route.)           *)
RoadIsCurrent ==
  /\ Drawn.line = waypoints
  /\ ~Drawn.dashed => DisplayEta = waypoints
===============================================================================
