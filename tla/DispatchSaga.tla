------------------------------ MODULE DispatchSaga ------------------------------
(***************************************************************************)
(* The three services together: an order is created, dispatch searches a   *)
(* driver for it, the driver service reserves one, and the order follows.  *)
(* A cancelled dispatch is compensated by a release.  No transaction spans *)
(* two services; they share nothing but the bus.                           *)
(***************************************************************************)
EXTENDS DriverService, DispatchService, OrderService

vars == <<net, dlq, driverVars, dispatchVars, orderVars>>

Init == BusInit /\ DriverInit /\ DispatchInit /\ OrderInit

Next ==
  \/ DriverNext /\ UNCHANGED <<dispatchVars, orderVars>>
  \/ DispatchNext /\ UNCHANGED <<driverVars, orderVars>>
  \/ OrderNext /\ UNCHANGED <<driverVars, dispatchVars>>

Spec == Init /\ [][Next]_vars

SagaTypeOK == BusTypeOK /\ DriverTypeOK /\ DispatchTypeOK /\ OrderTypeOK

-------------------------------------------------------------------------------
(* Fairness.  RabbitMQ delivers an unsettled event until it is settled, so *)
(* a consumer that does not die at every attempt settles it; transactions  *)
(* and use cases that have begun go on; the timer of a live worker fires.  *)

SettlesForDriver(o) ==
  /\ \E m \in net :
       /\ m.order = o
       /\ \/ HandleReservationRequested(m)
          \/ HandleReleaseRequested(m)
          \/ txn[o].event = m /\ TxnStep(o)
       /\ m \notin net'
  /\ UNCHANGED <<dispatchVars, orderVars>>

SettlesForDispatch(o) ==
  /\ \E m \in net : /\ m.order = o
                    /\ m.type \in {DriverReserved, ReservationFailed, DriverReleased}
                    /\ DispatchHandles(m)
                    /\ m \notin net'
  /\ UNCHANGED <<driverVars, orderVars>>

StartsDispatch(o) ==
  /\ \E m \in net, list \in CandidateLists : m.order = o /\ StartDispatch(m, list)
  /\ UNCHANGED <<driverVars, orderVars>>

OrderWorks(o) ==
  /\ \E w \in Workers :
       \/ \E m \in net : m.order = o /\ (LoadForEvent(w, m) \/ RefuseEvent(w, m))
       \/ DiffOrder(w) \/ SaveOrder(w)
  /\ UNCHANGED <<driverVars, dispatchVars>>

DiffsForOrder(o) ==
  /\ \E w \in Workers : DiffOrder(w) /\ work[w].order = o /\ work[w].event # {}
  /\ UNCHANGED <<driverVars, dispatchVars>>

SettlesForOrder(o) ==
  /\ \E w \in Workers :
       \/ \E m \in net : m.order = o /\ RefuseEvent(w, m) /\ m \notin net'
       \/ /\ SaveOrder(w)
          /\ \E m \in work[w].event : m.order = o /\ m \notin net'
  /\ UNCHANGED <<driverVars, dispatchVars>>

Fairness ==
  \A o \in Orders :
    /\ SF_vars(TxnStep(o) /\ UNCHANGED <<dispatchVars, orderVars>>)
    /\ SF_vars(\E m \in net : /\ m.order = o
                              /\ HandleReservationRequested(m) \/ HandleReleaseRequested(m)
                              /\ UNCHANGED <<dispatchVars, orderVars>>)
    /\ SF_vars(SettlesForDriver(o))
    /\ SF_vars(SettlesForDispatch(o))
    /\ SF_vars(StartsDispatch(o))
    /\ WF_vars((ScheduleTimeout(o) \/ LoseTimeout(o)) /\ UNCHANGED <<driverVars, orderVars>>)
    /\ WF_vars(StartCompensation(o) /\ UNCHANGED <<driverVars, orderVars>>)
    /\ WF_vars(Timeout(o) /\ UNCHANGED <<driverVars, orderVars>>)

OrderFairness ==
  \A o \in Orders :
    /\ WF_vars(OrderWorks(o))
    /\ SF_vars(DiffsForOrder(o))
    /\ SF_vars(SettlesForOrder(o))

FairSpec == Spec /\ Fairness

FairOrderSpec == FairSpec /\ OrderFairness

-------------------------------------------------------------------------------
(* Safety across the services.                                             *)

(* Dispatch never says ASSIGNED for an order whose driver has not reserved *)
(* capacity, and never says CANCELLED before the capacity is free again,   *)
(* although duplicates of every request and answer may still arrive.       *)
DispatchMatchesReservation ==
  \A o \in Orders :
    LET held == [status |-> "ACTIVE", driver |-> dispatch[o].driver]
        free == [status |-> "RELEASED", driver |-> dispatch[o].driver]
    IN /\ dispatch[o].status = "ASSIGNED" => reservation[o] = held
       /\ dispatch[o].status = "COMPENSATING" => reservation[o] \in {held, free}
       /\ dispatch[o].status = "CANCELLED" => reservation[o] = free

(* An order is only shown to the customer as ASSIGNED to the driver that   *)
(* dispatch has chosen, and once it has had a driver it is only CANCELLED  *)
(* when that driver is free again.  Use cases overlap; only an order that  *)
(* one of them has saved from a row it read before the save of another is  *)
(* excepted, and it may well have none of this.                            *)
OrderFollowsDispatch ==
  \A o \in Orders \ overwritten :
    /\ order[o].status = "ASSIGNED" =>
         /\ dispatch[o].status \in {"ASSIGNED", "COMPENSATING", "CANCELLED"}
         /\ order[o].driver = dispatch[o].driver
    /\ order[o].status = "CANCELLED" /\ order[o].driver # NoDriver =>
         dispatch[o].status = "CANCELLED" /\ reservation[o].status = "RELEASED"

(* The assignment of a dispatch is decided once; timeouts and answers that *)
(* come late never reopen it.                                              *)
DispatchOnlyMovesForward ==
  [][\A o \in Orders :
       LET old == dispatch[o].status
           new == dispatch'[o].status
       IN old # new =>
            \/ old = "NONE" /\ new = "SEARCHING_DRIVER"
            \/ old = "SEARCHING_DRIVER" /\ new \in {"ASSIGNED", "FAILED"}
            \/ old = "ASSIGNED" /\ new = "COMPENSATING"
            \/ old = "COMPENSATING" /\ new = "CANCELLED"]_vars

(* Nothing but a save from a row that was read before the cancellation     *)
(* ever reopens a cancelled order, whichever events come late or again.    *)
OnlyStaleSavesReopen ==
  [][\A o \in Orders :
       order[o].status = "CANCELLED" /\ order'[o].status # "CANCELLED" =>
         \E w \in overtaken : work[w].order = o /\ work'[w] = NoWork]_vars

(* "An order cannot transition from a terminal state back into an active   *)
(* state."                                                                 *)
CancelledIsTerminal ==
  [][\A o \in Orders : order[o].status = "CANCELLED" => order'[o].status = "CANCELLED"]_vars

-------------------------------------------------------------------------------
(* Liveness across the services.                                           *)

(* An event of the order was given up and lies in a dead-letter queue.     *)
Dead(o) == o \in dlq

(* Whoever loses the race between the answer of the driver service and the *)
(* timeout, a driver reserved for a failed dispatch gets its capacity back *)
(* unless an event of the order was dead-lettered.                         *)
LateReservationIsReleased ==
  \A o \in Orders :
    (dispatch[o].status = "FAILED" /\ reservation[o].status = "ACTIVE")
      ~> (reservation[o].status = "RELEASED" \/ Dead(o))

(* A compensation that has begun ends, with the capacity free.             *)
CompensationCompletes ==
  \A o \in Orders :
    (dispatch[o].status = "COMPENSATING") ~> (dispatch[o].status = "CANCELLED" \/ Dead(o))

(* The search for a driver ends.                                           *)
SearchEnds ==
  \A o \in Orders :
    (dispatch[o].status = "SEARCHING_DRIVER")
      ~> (dispatch[o].status # "SEARCHING_DRIVER" \/ Dead(o))

(* A failed search gives the order back, to be dispatched again.           *)
FailureReachesOrder ==
  \A o \in Orders :
    (dispatch[o].status = "FAILED") ~> (order[o].status # "DISPATCHING" \/ Dead(o))
===============================================================================
