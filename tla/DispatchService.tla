---------------------------- MODULE DispatchService ----------------------------
(***************************************************************************)
(* The dispatch service: it drives the search for a driver of one order.   *)
(*                                                                         *)
(* Every handler but the first is one transaction on the locked dispatch   *)
(* row and is one action here.  StartDispatch is not: it plans over HTTP,  *)
(* commits the dispatch, and only then puts the assignment timeout into    *)
(* Redis.  The cancel endpoint reads the status in one query and starts    *)
(* the compensation in another.                                            *)
(***************************************************************************)
EXTENDS EventBus

CONSTANTS
  CandidateLists, \* the ranked lists a plan may come to, NoList without pickup
  MaxCancels      \* bound: cancel requests in progress per dispatch

ASSUME DispatchAssumption == CandidateLists \subseteq Lists /\ MaxCancels \in Nat

VARIABLES
  dispatch,       \* the dispatches table, keyed by its unique order_id
  timer,          \* the assignment timeout of the dispatch
  starting,       \* the handler that has committed a dispatch but not its timer
  cancelling      \* cancel requests that have read the status ASSIGNED

dispatchVars == <<dispatch, timer, starting, cancelling>>

DispatchStatuses ==
  {"NONE", "SEARCHING_DRIVER", "ASSIGNED", "FAILED", "COMPENSATING", "CANCELLED"}

NoDispatch == [status |-> "NONE", driver |-> NoDriver]

NotStarting == NewEvent("none", NoDriver, NoDriver)

DispatchTypeOK ==
  /\ dispatch \in [Orders -> [status : DispatchStatuses, driver : MaybeDriver]]
  /\ timer \in [Orders -> {"none", "armed", "done"}]
  /\ starting \in [Orders -> Events \cup {NotStarting}]
  /\ cancelling \in [Orders -> 0..MaxCancels]

DispatchInit ==
  /\ dispatch = [o \in Orders |-> NoDispatch]
  /\ timer = [o \in Orders |-> "none"]
  /\ starting = [o \in Orders |-> NotStarting]
  /\ cancelling = [o \in Orders |-> 0]

SetStatus(o, status) == dispatch' = [dispatch EXCEPT ![o].status = status]

-------------------------------------------------------------------------------
(* StartDispatch, the handler of order.ready_for_dispatch.                 *)

(* The transaction of workflow.start: the dispatch and two events.         *)
StartDispatch(m, list) ==
  /\ m.type = OrderReady
  /\ dispatch[m.order].status = "NONE"
  /\ SetStatus(m.order, "SEARCHING_DRIVER")
  /\ starting' = [starting EXCEPT ![m.order] = m]
  /\ Publish({NewEvent(DispatchStarted, m.order, NoDriver),
              ReservationRequest(m.order, list)})
  /\ UNCHANGED <<timer, cancelling>>

(* The rest of the same handler: timeoutScheduler.schedule.                *)
ScheduleTimeout(o) ==
  /\ starting[o] # NotStarting
  /\ timer' = [timer EXCEPT ![o] = "armed"]
  /\ Handled(starting[o], {})
  /\ starting' = [starting EXCEPT ![o] = NotStarting]
  /\ UNCHANGED <<dispatch, cancelling>>

(* The process dies before schedule, or Redis refuses the job and the      *)
(* handler throws.  The event comes back, but the dispatch exists now.     *)
LoseTimeout(o) ==
  /\ starting[o] # NotStarting
  /\ Publish({starting[o]}) \/ Rejected(starting[o])
  /\ starting' = [starting EXCEPT ![o] = NotStarting]
  /\ UNCHANGED <<dispatch, timer, cancelling>>

(* A copy of the event finds the dispatch, and either returns, or has      *)
(* looked too early and breaks the unique index on order_id.               *)
StartAgain(m) ==
  /\ m.type = OrderReady
  /\ dispatch[m.order].status # "NONE"
  /\ Handled(m, {}) \/ Rejected(m)
  /\ UNCHANGED dispatchVars

(* The driver directory or the geo index cannot be asked.                  *)
PlanFails(m) ==
  /\ m.type = OrderReady
  /\ dispatch[m.order].status = "NONE"
  /\ Rejected(m)
  /\ UNCHANGED dispatchVars

-------------------------------------------------------------------------------
(* completeReservation, for both answers of the driver service.            *)

(* Mutation of AssignDriver: the status is not checked.                    *)
AssignDriverAnyTime(m) ==
  /\ m.type = DriverReserved
  /\ dispatch' = [dispatch EXCEPT ![m.order] =
                    [status |-> "ASSIGNED", driver |-> m.driver]]
  /\ Handled(m, {NewEvent(DispatchAssigned, m.order, m.driver)})
  /\ UNCHANGED <<timer, starting, cancelling>>

AssignDriver(m) ==
  /\ m.type = DriverReserved
  /\ dispatch[m.order].status = "SEARCHING_DRIVER"
  /\ dispatch' = [dispatch EXCEPT ![m.order] =
                    [status |-> "ASSIGNED", driver |-> m.driver]]
  /\ Handled(m, {NewEvent(DispatchAssigned, m.order, m.driver)})
  /\ UNCHANGED <<timer, starting, cancelling>>

FailSearch(m) ==
  /\ m.type = ReservationFailed
  /\ dispatch[m.order].status = "SEARCHING_DRIVER"
  /\ SetStatus(m.order, "FAILED")
  /\ Handled(m, {NewEvent(DispatchFailed, m.order, NoDriver)})
  /\ UNCHANGED <<timer, starting, cancelling>>

(* Mutation of LateAnswer: the late driver is forgotten.                   *)
LateAnswerIgnored(m) ==
  /\ m.type \in {DriverReserved, ReservationFailed}
  /\ dispatch[m.order].status # "SEARCHING_DRIVER"
  /\ Handled(m, {})
  /\ UNCHANGED dispatchVars

(* The search is over.  A driver reserved too late is released again.      *)
LateAnswer(m) ==
  /\ m.type \in {DriverReserved, ReservationFailed}
  /\ dispatch[m.order].status # "SEARCHING_DRIVER"
  /\ LET late == /\ m.type = DriverReserved
                 /\ dispatch[m.order].status \in {"FAILED", "CANCELLED"}
     IN Handled(m, IF late THEN {NewEvent(ReleaseRequested, m.order, m.driver)}
                   ELSE {})
  /\ UNCHANGED dispatchVars

-------------------------------------------------------------------------------
(* The assignment timeout.  The job of BullMQ has one attempt: if it       *)
(* throws, it is not repeated.                                             *)
Timeout(o) ==
  /\ timer[o] = "armed"
  /\ dispatch[o].status = "SEARCHING_DRIVER"
  /\ timer' = [timer EXCEPT ![o] = "done"]
  /\ SetStatus(o, "FAILED")
  /\ Publish({NewEvent(DispatchFailed, o, NoDriver)})
  /\ UNCHANGED <<starting, cancelling>>

TimeoutWithoutEffect(o) ==
  /\ timer[o] = "armed"
  /\ timer' = [timer EXCEPT ![o] = "done"]
  /\ UNCHANGED <<dispatch, starting, cancelling, net, dlq>>

-------------------------------------------------------------------------------
(* POST dispatches/:id/cancel, and the compensation it starts.             *)

RequestCancel(o) ==
  /\ dispatch[o].status = "ASSIGNED"
  /\ cancelling[o] < MaxCancels
  /\ cancelling' = [cancelling EXCEPT ![o] = @ + 1]
  /\ UNCHANGED <<dispatch, timer, starting, net, dlq>>

(* Mutation of StartCompensation: the order is told at once.               *)
StartCompensationEagerly(o) ==
  /\ cancelling[o] > 0
  /\ dispatch[o].status = "ASSIGNED"
  /\ cancelling' = [cancelling EXCEPT ![o] = @ - 1]
  /\ SetStatus(o, "COMPENSATING")
  /\ Publish({NewEvent(ReleaseRequested, o, dispatch[o].driver),
              NewEvent(DispatchCancelled, o, NoDriver)})
  /\ UNCHANGED <<timer, starting>>

StartCompensation(o) ==
  /\ cancelling[o] > 0
  /\ dispatch[o].status = "ASSIGNED"
  /\ cancelling' = [cancelling EXCEPT ![o] = @ - 1]
  /\ SetStatus(o, "COMPENSATING")
  /\ Publish({NewEvent(ReleaseRequested, o, dispatch[o].driver)})
  /\ UNCHANGED <<timer, starting>>

(* Another request was faster, or the process has died.                    *)
AbandonCancel(o) ==
  /\ cancelling[o] > 0
  /\ cancelling' = [cancelling EXCEPT ![o] = @ - 1]
  /\ UNCHANGED <<dispatch, timer, starting, net, dlq>>

CompleteCompensation(m) ==
  /\ m.type = DriverReleased
  /\ IF dispatch[m.order].status = "COMPENSATING"
     THEN /\ SetStatus(m.order, "CANCELLED")
          /\ Handled(m, {NewEvent(DispatchCancelled, m.order, NoDriver)})
     ELSE Handled(m, {}) /\ UNCHANGED dispatch
  /\ UNCHANGED <<timer, starting, cancelling>>

-------------------------------------------------------------------------------
DispatchHandles(m) ==
  \/ \E list \in CandidateLists : StartDispatch(m, list)
  \/ StartAgain(m)
  \/ PlanFails(m)
  \/ AssignDriver(m)
  \/ FailSearch(m)
  \/ LateAnswer(m)
  \/ CompleteCompensation(m)

DispatchNext ==
  \/ \E m \in net : DispatchHandles(m)
  \/ \E o \in Orders :
       \/ ScheduleTimeout(o)
       \/ LoseTimeout(o)
       \/ Timeout(o)
       \/ TimeoutWithoutEffect(o)
       \/ RequestCancel(o)
       \/ StartCompensation(o)
       \/ AbandonCancel(o)
===============================================================================
