------------------------------- MODULE EventBus -------------------------------
(***************************************************************************)
(* The asynchronous link between the services: a transactional outbox on   *)
(* the sending side, RabbitMQ in the middle, and on the receiving side the *)
(* inbox with the retry and dead-letter queues.  An event is in `net` from *)
(* the commit that writes its outbox row until a handler has settled it.   *)
(* The set is unordered: outbox back-off, several publishers, prefetch and *)
(* several consumer replicas let any event overtake any other.             *)
(*                                                                         *)
(* The link delivers at least once.  After a handler commits, the consumer *)
(* may die before its inbox row says PROCESSED, or another copy of the     *)
(* event may already run beside it; in both cases the handler runs again.  *)
(* `Unsettled` is that case.  A copy that arrives when the row does say    *)
(* PROCESSED has no effect, which is the same as having left `net`; or, if *)
(* the inbox cannot be read, it is retried and may become a dead letter,   *)
(* as one that has stayed in `net` may.                                    *)
(* Reliability.tla models the tables and queues behind this abstraction.   *)
(***************************************************************************)
EXTENDS Naturals, Sequences, FiniteSets

CONSTANTS
  Orders,      \* order ids; a dispatch is named by the one order it serves
  Drivers,     \* driver ids
  NoDriver,    \* the null driver id
  NoList,      \* a reservation request without candidateDriverIds
  MaxRetries   \* MESSAGE_MAX_RETRIES: how often a failing event is retried

ASSUME BusAssumption ==
  /\ NoDriver \notin Drivers
  /\ MaxRetries \in Nat

VARIABLES
  net,         \* the events that are published or will be, and not settled
  dlq          \* the orders of which a consumer has given up an event

busVars == <<net, dlq>>

OrderReady           == "order.ready_for_dispatch"
DispatchStarted      == "dispatch.started"
DispatchAssigned     == "dispatch.assigned"
DispatchFailed       == "dispatch.failed"
DispatchCancelled    == "dispatch.cancelled"
ReservationRequested == "driver.reservation_requested"
ReleaseRequested     == "driver.release_requested"
DriverReserved       == "driver.reserved"
ReservationFailed    == "driver.reservation_failed"
DriverReleased       == "driver.released"

EventTypes ==
  {OrderReady, DispatchStarted, DispatchAssigned, DispatchFailed,
   DispatchCancelled, ReservationRequested, ReleaseRequested,
   DriverReserved, ReservationFailed, DriverReleased}

MaybeDriver == Drivers \cup {NoDriver}

Lists == Seq(Drivers) \cup {NoList}

(* `tries` is the x-retry-count header, `list` is candidateDriverIds.      *)
Events == [type : EventTypes, order : Orders, driver : MaybeDriver,
           list : Lists, tries : 0..MaxRetries]

NewEvent(type, o, d) ==
  [type |-> type, order |-> o, driver |-> d, list |-> <<>>, tries |-> 0]

ReservationRequest(o, list) ==
  [NewEvent(ReservationRequested, o, NoDriver) EXCEPT !.list = list]

BusTypeOK == net \subseteq Events /\ dlq \subseteq Orders

BusInit == net = {} /\ dlq = {}

(* A transaction that no event has caused writes its outbox rows.          *)
Publish(out) == net' = net \cup out /\ UNCHANGED dlq

(* The operation of event m commits together with the outbox rows `out`,   *)
(* its inbox row becomes PROCESSED and the delivery is acknowledged.       *)
Settled(m, out) == net' = (net \ {m}) \cup out /\ UNCHANGED dlq

(* The operation commits, but m will be handled once more.                 *)
Unsettled(m, out) == net' = net \cup out /\ UNCHANGED dlq

Handled(m, out) == Settled(m, out) \/ Unsettled(m, out)

(* Mutation of Rejected: one retry too many.                               *)
RejectedOffByOne(m) ==
  /\ m.tries <= MaxRetries
  /\ net' = (net \ {m}) \cup {[m EXCEPT !.tries = @ + 1]}
  /\ UNCHANGED dlq

(* The operation throws and its transaction is rolled back.  A copy goes   *)
(* to the retry queue with the header incremented, or to the dead-letter   *)
(* queue; the original is acknowledged after the copy is confirmed, so     *)
(* that a crash in between leaves both.                                    *)
Rejected(m) ==
  /\ \/ /\ m.tries < MaxRetries
        /\ \E rest \in {net, net \ {m}} :
             net' = rest \cup {[m EXCEPT !.tries = @ + 1]}
        /\ UNCHANGED dlq
     \/ /\ m.tries >= MaxRetries
        /\ net' \in {net, net \ {m}}
        /\ dlq' = dlq \cup {m.order}
===============================================================================
