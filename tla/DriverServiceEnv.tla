--------------------------- MODULE DriverServiceEnv ---------------------------
(***************************************************************************)
(* The driver service against the most general dispatch service: any       *)
(* request may be published for any order at any time, in any order and    *)
(* any number of times, and answers are taken from the bus at any time.    *)
(***************************************************************************)
EXTENDS DriverService

CONSTANTS
  CandidateLists,   \* the candidate lists dispatch may send
  MaxInFlight       \* bound: how many events may be around when one is sent

ASSUME EnvAssumption == CandidateLists \subseteq Lists /\ MaxInFlight \in Nat

vars == <<net, dlq, driverVars>>

(* The driver id of a release request is only echoed in some answers.      *)
Commands ==
  {ReservationRequest(o, list) : o \in Orders, list \in CandidateLists}
    \cup {NewEvent(ReleaseRequested, o, NoDriver) : o \in Orders}

Answers == {e \in net : e.type \in {DriverReserved, ReservationFailed, DriverReleased}}

SendRequest(m) ==
  /\ Cardinality(net) + Cardinality(dlq) < MaxInFlight
  /\ Publish({m})
  /\ UNCHANGED driverVars

TakeAnswer(m) == Settled(m, {}) /\ UNCHANGED driverVars

(* Somebody looks at the dead letters and throws them away.                *)
ClearDeadLetters ==
  /\ dlq # {}
  /\ dlq' = {}
  /\ UNCHANGED <<net, driverVars>>

Init == BusInit /\ DriverInit

Next ==
  \/ DriverNext
  \/ \E m \in Commands : SendRequest(m)
  \/ \E m \in Answers : TakeAnswer(m)
  \/ ClearDeadLetters

Spec == Init /\ [][Next]_vars

(* RabbitMQ hands the request of this type for the order to a consumer.    *)
Begins(o, type) ==
  \E m \in net : /\ m.order = o /\ m.type = type
                 /\ HandleReservationRequested(m) \/ HandleReleaseRequested(m)

(* Its handling comes to its end: a commit that settles the event, or a    *)
(* rejection after which the copy with this retry count is gone.           *)
Concludes(o, type) ==
  \E m \in net : /\ m.order = o /\ m.type = type
                 /\ \/ HandleReservationRequested(m)
                    \/ HandleReleaseRequested(m)
                    \/ txn[o].event = m /\ TxnStep(o)
                 /\ m \notin net'

(* RabbitMQ hands out every event again and again until it is              *)
(* acknowledged, the lock queues of PostgreSQL are first come first        *)
(* served, and consumers do not die at every single attempt.               *)
Fairness ==
  \A o \in Orders :
    /\ WF_vars(TxnStep(o)) /\ SF_vars(LockForRelease(o))
    /\ \A type \in {ReservationRequested, ReleaseRequested} :
         SF_vars(Begins(o, type)) /\ SF_vars(Concludes(o, type))

FairSpec == Spec /\ Fairness

TypeOK == BusTypeOK /\ DriverTypeOK

(* A release request for a held driver is not starved by the transactions  *)
(* that keep locking the driver row, nor do they wait for each other in a  *)
(* circle: the reservation is released, unless the request was given up    *)
(* and dead-lettered.                                                      *)
ReleaseCompletes ==
  \A o \in Orders :
    (reservation[o].status = "ACTIVE" /\ \E m \in net : m.type = ReleaseRequested /\ m.order = o)
      ~> (reservation[o].status = "RELEASED" \/ dlq # {})
===============================================================================
