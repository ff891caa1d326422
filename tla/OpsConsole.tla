------------------------------- MODULE OpsConsole -------------------------------
(***************************************************************************)
(* The operations console: the lists it keeps of orders and drivers, the   *)
(* driver that is selected, and the route of that driver on the map.       *)
(*                                                                         *)
(* Every handler runs up to its next await, React commits what it has set, *)
(* and then runs the effect that plans a route by itself; the three are    *)
(* one step.  Answers arrive late and out of order, and are applied to     *)
(* whatever the console shows by then.                                     *)
(*                                                                         *)
(* An order counts here only as an active delivery of a driver, or as      *)
(* nobody's.  Lists hold every order and every driver there is.            *)
(***************************************************************************)
EXTENDS Naturals

CONSTANTS
  Fleet,             \* driver ids
  Deliveries,        \* order ids
  Nobody,            \* the empty driver id
  Refreshes,         \* slots for refreshes in flight
  Builds,            \* slots for runs of buildDriverRoute in flight
  MaxReassignments,  \* bound on the changes of assignments
  MaxClicks          \* bound on what the operator does

ASSUME NobodyAssumption == Nobody \notin Fleet

ASSUME ConsoleBoundsAssumption == {MaxReassignments, MaxClicks} \subseteq Nat

VARIABLES
  assignment,        \* in the services: whose active delivery each order is
  enrolled,          \* in the services: the drivers that exist
  reassignments,     \* changes of assignment so far
  tab,               \* overview, tracking or other
  orders,            \* the list of orders the console has
  drivers,           \* the list of drivers the console has
  locations,         \* the drivers whose position the console knows
  selected,          \* selectedDriverId
  plan,              \* driverRoutePlan
  autoRouteKey,      \* autoRouteKeyRef
  refresh,           \* the lists each refresh has read and not yet applied
  build,             \* each run of buildDriverRoute
  clicks,            \* what the operator has done so far
  chosen             \* history variable: the driver the operator selected last

screenVars == <<tab, orders, drivers, locations, selected>>
consoleVars == <<screenVars, assignment, enrolled, reassignments, plan,
                 autoRouteKey, refresh, build, clicks, chosen>>

Tabs == {"overview", "tracking", "other"}

NoPlan == [driver |-> Nobody, orders |-> {}]

NoKey == [tab |-> "none", driver |-> Nobody, orders |-> {}]

NotBuilding == [stage |-> "idle", by |-> "none", driver |-> Nobody, orders |-> {}]

Assignments == [Deliveries -> Fleet \cup {Nobody}]

ConsoleTypeOK ==
  /\ {assignment, orders} \subseteq Assignments
  /\ enrolled \cup drivers \cup locations \subseteq Fleet
  /\ reassignments \in 0..MaxReassignments
  /\ clicks \in 0..MaxClicks
  /\ tab \in Tabs
  /\ {selected, chosen} \subseteq Fleet \cup {Nobody}
  /\ plan \in [driver : Fleet \cup {Nobody}, orders : SUBSET Deliveries]
  /\ autoRouteKey \in [tab : Tabs \cup {"none"}, driver : Fleet \cup {Nobody},
                       orders : SUBSET Deliveries]
  /\ \A r \in Refreshes : \A answer \in refresh[r] :
       /\ answer.orders \subseteq Assignments
       /\ UNION answer.drivers \subseteq Fleet
  /\ build \in [Builds -> [stage : {"idle", "locating", "planning", "eta"},
                           by : {"none", "effect", "button", "dispatch"},
                           driver : Fleet \cup {Nobody}, orders : SUBSET Deliveries]]

ConsoleInit ==
  /\ assignment \in Assignments
  /\ enrolled = {d \in Fleet : \E o \in Deliveries : assignment[o] = d}
  /\ reassignments = 0
  /\ tab = "overview"
  /\ orders = [o \in Deliveries |-> Nobody]
  /\ drivers = {}
  /\ locations = {}
  /\ selected = Nobody
  /\ plan = NoPlan
  /\ autoRouteKey = NoKey
  /\ refresh = [r \in Refreshes |-> {}]
  /\ build = [b \in Builds |-> NotBuilding]
  /\ clicks = 0
  /\ chosen = Nobody

-------------------------------------------------------------------------------
(* Building a route.                                                       *)

Candidates(list, d) == {o \in Deliveries : list[o] = d}

(* buildDriverRoute up to its first await, once the screen is updated: it  *)
(* asks for a position or for a plan, or gives up.                         *)
BeginBuild(others, d, list, by) ==
  IF d \notin drivers' \/ (d \in locations' /\ list = {})
  THEN build' = others
  ELSE \E b \in Builds :
         /\ others[b] = NotBuilding
         /\ build' = [others EXCEPT ![b] =
              [stage |-> IF d \in locations' THEN "planning" ELSE "locating",
               by |-> by, driver |-> d, orders |-> list]]

(* Mutation of AutoRoute: the key of the request is not remembered.        *)
AutoRouteForgetting(key, shown, others) ==
  LET now == [tab |-> tab', driver |-> selected', orders |-> Candidates(orders', selected')]
      idle == \/ selected' = Nobody \/ tab' = "other" \/ key = now
              \/ now.orders # {} /\ tab' = "overview" /\ selected' \notin locations'
  IN
  \/ /\ idle
     /\ autoRouteKey' = key /\ plan' = shown /\ build' = others
  \/ /\ ~idle /\ now.orders = {}
     /\ autoRouteKey' = now /\ plan' = NoPlan /\ build' = others
  \/ /\ ~idle /\ now.orders # {}
     /\ autoRouteKey' = key /\ plan' = shown
     /\ BeginBuild(others, selected', now.orders, "effect")

(* The effect on [locations, orders, selectedDriverId, tab].               *)
AutoRoute(key, shown, others) ==
  LET now == [tab |-> tab', driver |-> selected', orders |-> Candidates(orders', selected')]
      idle == \/ selected' = Nobody \/ tab' = "other" \/ key = now
              \/ now.orders # {} /\ tab' = "overview" /\ selected' \notin locations'
  IN
  \/ /\ idle
     /\ autoRouteKey' = key /\ plan' = shown /\ build' = others
  \/ /\ ~idle /\ now.orders = {}
     /\ autoRouteKey' = now /\ plan' = NoPlan /\ build' = others
  \/ /\ ~idle /\ now.orders # {}
     /\ autoRouteKey' = now /\ plan' = shown
     /\ BeginBuild(others, selected', now.orders, "effect")

(* The end of a build; a row of the dispatch list then opens the map.      *)
EndBuild(b) ==
  /\ tab' = IF build[b].by = "dispatch" THEN "tracking" ELSE tab
  /\ AutoRoute(autoRouteKey, plan, [build EXCEPT ![b] = NotBuilding])

(* The position of a driver the map does not know yet.                     *)
OriginAnswered(b) ==
  /\ build[b].stage = "locating"
  /\ locations' = locations \cup {build[b].driver}
  /\ UNCHANGED <<selected, orders, drivers>>
  /\ IF build[b].orders = {}
     THEN EndBuild(b)
     ELSE UNCHANGED tab /\ AutoRoute(autoRouteKey, plan, [build EXCEPT ![b].stage = "planning"])
  /\ UNCHANGED <<assignment, enrolled, reassignments, refresh, clicks, chosen>>

(* The plan is shown, whichever driver is selected by now, and that driver *)
(* is selected.                                                            *)
PlanAnswered(b) ==
  /\ build[b].stage = "planning"
  /\ selected' = build[b].driver
  /\ UNCHANGED <<tab, orders, drivers, locations>>
  /\ AutoRoute(autoRouteKey, [driver |-> build[b].driver, orders |-> build[b].orders],
               [build EXCEPT ![b].stage = "eta"])
  /\ UNCHANGED <<assignment, enrolled, reassignments, refresh, clicks, chosen>>

(* The request for the ETA has ended, one way or the other.                *)
EtaAnswered(b) ==
  /\ build[b].stage = "eta"
  /\ UNCHANGED <<orders, drivers, locations, selected>>
  /\ EndBuild(b)
  /\ UNCHANGED <<assignment, enrolled, reassignments, refresh, clicks, chosen>>

(* The request for the position or for the plan has failed.                *)
BuildFailed(b) ==
  /\ build[b].stage \in {"locating", "planning"}
  /\ UNCHANGED <<orders, drivers, locations, selected>>
  /\ EndBuild(b)
  /\ UNCHANGED <<assignment, enrolled, reassignments, refresh, clicks, chosen>>

-------------------------------------------------------------------------------
(* What comes from the services.                                           *)

Reassign(o, d) ==
  /\ reassignments < MaxReassignments
  /\ d \in enrolled \cup {Nobody} /\ d # assignment[o]
  /\ assignment' = [assignment EXCEPT ![o] = d]
  /\ reassignments' = reassignments + 1
  /\ UNCHANGED <<screenVars, enrolled, plan, autoRouteKey, refresh, build, clicks, chosen>>

(* The requests of a refresh are served.  Each may fail by itself, and the *)
(* next refresh begins whether or not this one has ended.                  *)
ReadLists(r, ordersRead, driversRead) ==
  /\ refresh[r] = {}
  /\ refresh' = [refresh EXCEPT ![r] = {[orders |-> ordersRead, drivers |-> driversRead]}]
  /\ UNCHANGED <<screenVars, assignment, enrolled, reassignments, plan, autoRouteKey,
                 build, clicks, chosen>>

(* Mutation of Listed: a list that could not be read is shown empty.       *)
ListedOrEmpty(answered, current, none) ==
  IF answered = {} THEN none ELSE CHOOSE list \in answered : TRUE

(* What allSettled leaves of a list.                                       *)
Listed(answered, current, none) ==
  IF answered = {} THEN current ELSE CHOOSE list \in answered : TRUE

ApplyLists(r) ==
  \E answer \in refresh[r] :
    /\ orders' = Listed(answer.orders, orders, [o \in Deliveries |-> Nobody])
    /\ drivers' = Listed(answer.drivers, drivers, {})
    /\ IF selected = Nobody /\ UNION answer.drivers # {}
       THEN selected' \in UNION answer.drivers
       ELSE UNCHANGED selected
    /\ UNCHANGED <<tab, locations>>
    /\ AutoRoute(autoRouteKey, plan, build)
    /\ refresh' = [refresh EXCEPT ![r] = {}]
    /\ UNCHANGED <<assignment, enrolled, reassignments, clicks, chosen>>

(* A first position, from the socket or as the answer to a request.        *)
PositionShown(d) ==
  /\ d \in enrolled \ locations
  /\ locations' = locations \cup {d}
  /\ UNCHANGED <<tab, orders, drivers, selected>>
  /\ AutoRoute(autoRouteKey, plan, build)
  /\ UNCHANGED <<assignment, enrolled, reassignments, refresh, clicks, chosen>>

-------------------------------------------------------------------------------
(* What the operator does.                                                 *)

Click == clicks < MaxClicks /\ clicks' = clicks + 1

OpenTab(t) ==
  /\ Click
  /\ tab' = t
  /\ UNCHANGED <<orders, drivers, locations, selected>>
  /\ AutoRoute(autoRouteKey, plan, build)
  /\ UNCHANGED <<assignment, enrolled, reassignments, refresh, chosen>>

(* A driver is selected by a marker of the map or by a card.               *)
SelectDriver(d) ==
  /\ Click
  /\ d \in locations \/ (tab = "other" /\ d \in drivers)
  /\ d # selected
  /\ selected' = d /\ chosen' = d
  /\ UNCHANGED <<tab, orders, drivers, locations>>
  /\ AutoRoute(autoRouteKey, plan, build)
  /\ UNCHANGED <<assignment, enrolled, reassignments, refresh>>

(* The list of drivers beside the map; the route is asked for once more.   *)
SelectInList(d) ==
  /\ Click
  /\ tab = "tracking" /\ d \in drivers \cup {Nobody} /\ d # selected
  /\ selected' = d /\ chosen' = d
  /\ UNCHANGED <<tab, orders, drivers, locations>>
  /\ AutoRoute(NoKey, plan, build)
  /\ UNCHANGED <<assignment, enrolled, reassignments, refresh>>

(* createDriver has answered; the refresh that follows is one of many.     *)
DriverCreated(d) ==
  /\ Click
  /\ tab = "other" /\ d \notin enrolled
  /\ enrolled' = enrolled \cup {d}
  /\ selected' = d /\ chosen' = d
  /\ UNCHANGED <<tab, orders, drivers, locations>>
  /\ AutoRoute(autoRouteKey, plan, build)
  /\ UNCHANGED <<assignment, reassignments, refresh>>

BuildRoute ==
  /\ Click
  /\ tab = "tracking" /\ selected # Nobody
  /\ UNCHANGED screenVars
  /\ BeginBuild(build, selected, Candidates(orders, selected), "button")
  /\ UNCHANGED <<assignment, enrolled, reassignments, plan, autoRouteKey, refresh, chosen>>

(* The route of one dispatch; its driver will be selected with the plan.   *)
OpenDispatchRoute(o) ==
  /\ Click
  /\ tab = "other" /\ orders[o] # Nobody
  /\ UNCHANGED <<orders, drivers, locations, selected>>
  /\ IF orders[o] \in drivers
     THEN /\ UNCHANGED <<tab, plan, autoRouteKey>>
          /\ BeginBuild(build, orders[o], {o}, "dispatch")
     ELSE tab' = "tracking" /\ AutoRoute(autoRouteKey, plan, build)
  /\ chosen' = Nobody
  /\ UNCHANGED <<assignment, enrolled, reassignments, refresh>>

ClearPlan ==
  /\ Click
  /\ tab = "tracking" /\ plan # NoPlan
  /\ plan' = NoPlan
  /\ UNCHANGED <<screenVars, assignment, enrolled, reassignments, autoRouteKey,
                 refresh, build, chosen>>

-------------------------------------------------------------------------------
ConsoleStep ==
  \/ \E b \in Builds : OriginAnswered(b) \/ PlanAnswered(b) \/ EtaAnswered(b)
  \/ \E o \in Deliveries, d \in Fleet \cup {Nobody} : Reassign(o, d)
  \/ \E r \in Refreshes, os \in {{}, {assignment}}, ds \in {{}, {enrolled}} :
       ReadLists(r, os, ds)
  \/ \E r \in Refreshes : ApplyLists(r)
  \/ \E t \in Tabs : OpenTab(t)
  \/ \E d \in Fleet : PositionShown(d) \/ SelectDriver(d) \/ DriverCreated(d)
  \/ \E d \in Fleet \cup {Nobody} : SelectInList(d)
  \/ \E o \in Deliveries : OpenDispatchRoute(o)
  \/ BuildRoute
  \/ ClearPlan

ConsoleNext == ConsoleStep \/ \E b \in Builds : BuildFailed(b)

ConsoleSpec == ConsoleInit /\ [][ConsoleNext]_consoleVars

(* Of the refreshes, which go on for ever, some get all the lists they     *)
(* ask for; what has been read is applied.                                 *)
ListsFairness ==
  \A r \in Refreshes : /\ WF_consoleVars(ApplyLists(r))
                       /\ SF_consoleVars(ReadLists(r, {assignment}, {enrolled}))

(* Every request for a route is answered, and none fails.                  *)
ReliableSpec ==
  /\ ConsoleInit /\ [][ConsoleStep]_consoleVars
  /\ ListsFairness
  /\ \A b \in Builds : WF_consoleVars(OriginAnswered(b) \/ PlanAnswered(b) \/ EtaAnswered(b))

-------------------------------------------------------------------------------
(* The console asks for a route by itself once for what it shows: not      *)
(* again at each refresh, nor for each position of the driver.             *)
AutoRouteOnce ==
  [][\A b \in Builds :
       build[b].stage = "idle" /\ build'[b].by = "effect" =>
         \/ tab' # tab
         \/ selected' # selected
         \/ Candidates(orders', selected) # Candidates(orders, selected)
         \/ selected \in locations' \ locations]_consoleVars

(* Refreshes overlap, fail in part and are applied out of order, and still *)
(* the list of orders is the one of the services in the end.               *)
ListsCatchUp == <>[](orders = assignment)

(* "Selecting a driver in Live Map automatically attempts to build that    *)
(* driver's active route ... and the map displays it": it is the route of  *)
(* the driver the operator has selected last, and stays so.                *)
ChoiceStays == <>[](chosen # Nobody => selected = chosen)
===============================================================================
