------------------------------ MODULE OrderIntake ------------------------------
(***************************************************************************)
(* How an order comes into being: a client posts it to the gateway, the    *)
(* gateway forwards it to the order service and waits three seconds at     *)
(* most, and the order service creates it, with the event that announces   *)
(* it, in one transaction.  A client that gets no answer, or a 503, posts  *)
(* once more with the same idempotency key, perhaps while the transaction  *)
(* of its last request goes on.                                            *)
(*                                                                         *)
(* Transactions are READ COMMITTED and see nothing of one another before   *)
(* they commit.  A request creates at most one order, which has its name.  *)
(***************************************************************************)
EXTENDS Naturals

CONSTANTS
  Requests,        \* the POST requests there are, retries included
  Keys,            \* idempotency keys
  Unkeyed,         \* no Idempotency-Key header, or an empty one
  Locks,           \* advisory locks
  LockOf,          \* hashtext of a key
  NoOrder          \* what an answer that is an error names

ASSUME IntakeAssumption ==
  /\ Unkeyed \notin Keys
  /\ NoOrder \notin Requests
  /\ LockOf \in [Keys -> Locks]

VARIABLES
  gate,            \* how far the gateway is with a request
  key,             \* its idempotency key
  form,            \* its body: fine, malformed, or fine but for a blank label
  status,          \* the status it was answered with, 0 before
  answer,          \* the order it was answered with
  accessLog,       \* the requests in the access log of the gateway
  work,            \* how far the order service is with it
  draft,           \* the order it has made or found
  stored,          \* rows of the orders table that are committed
  pending,         \* rows of the outbox that are PENDING
  serviceLog,      \* the requests in the access log of the order service
  announced        \* orders with an order.ready_for_dispatch event in RabbitMQ

gatewayState == <<gate, key, form, status, answer, accessLog>>
serviceState == <<work, draft, stored, pending, serviceLog, announced>>
intakeVars == <<gatewayState, serviceState>>

Forms == {"fine", "malformed", "blank"}

IntakeTypeOK ==
  /\ gate \in [Requests -> {"unsent", "forwarded", "answered"}]
  /\ key \in [Requests -> Keys \cup {Unkeyed}]
  /\ form \in [Requests -> Forms]
  /\ status \in [Requests -> {0, 201, 400, 500, 503}]
  /\ answer \in [Requests -> Requests \cup {NoOrder}]
  /\ accessLog \subseteq Requests
  /\ work \in [Requests -> {"none", "waiting", "locked", "saving", "committed",
                            "collided", "failed", "ended"}]
  /\ draft \in [Requests -> Requests \cup {NoOrder}]
  /\ stored \subseteq Requests
  /\ pending \subseteq Requests
  /\ serviceLog \subseteq Requests
  /\ announced \subseteq Requests

IntakeInit ==
  /\ gate = [r \in Requests |-> "unsent"]
  /\ key = [r \in Requests |-> Unkeyed]
  /\ form = [r \in Requests |-> "fine"]
  /\ status = [r \in Requests |-> 0]
  /\ answer = [r \in Requests |-> NoOrder]
  /\ accessLog = {}
  /\ work = [r \in Requests |-> "none"]
  /\ draft = [r \in Requests |-> NoOrder]
  /\ stored = {}
  /\ pending = {}
  /\ serviceLog = {}
  /\ announced = {}

-------------------------------------------------------------------------------
(* The gateway.                                                            *)

(* shouldWriteAccessLog: errors always, the rest by a sample.              *)
AccessLogs(log, r, code) ==
  {log \cup {r}} \cup (IF code >= 400 THEN {} ELSE {log})

(* The handler returns or throws, the interceptor logs the status that the *)
(* response has, and only then a filter turns an exception into its own    *)
(* status.  A handler of POST begins with 201.                             *)
Respond(r, code, order) ==
  /\ accessLog' \in AccessLogs(accessLog, r, 201)
  /\ gate' = [gate EXCEPT ![r] = "answered"]
  /\ status' = [status EXCEPT ![r] = code]
  /\ answer' = [answer EXCEPT ![r] = order]

(* A client posts an order, or posts it once more: the validation pipe     *)
(* refuses it, or it is forwarded.                                         *)
Post(r, k, f) ==
  /\ gate[r] = "unsent"
  /\ key' = [key EXCEPT ![r] = k]
  /\ form' = [form EXCEPT ![r] = f]
  /\ IF f = "malformed" THEN Respond(r, 400, NoOrder)
     ELSE /\ gate' = [gate EXCEPT ![r] = "forwarded"]
          /\ UNCHANGED <<status, answer, accessLog>>
  /\ UNCHANGED serviceState

(* The order service cannot be reached, dies, or takes three seconds.      *)
Unavailable(r) ==
  /\ gate[r] = "forwarded"
  /\ Respond(r, 503, NoOrder)
  /\ UNCHANGED <<key, form, serviceState>>

-------------------------------------------------------------------------------
(* The order service.                                                      *)

WorkOn(r, phase) == work' = [work EXCEPT ![r] = phase]

(* CreateOrderUseCase up to its transaction; Location.create throws.       *)
Receive(r) ==
  /\ gate[r] \in {"forwarded", "answered"} /\ form[r] # "malformed"
  /\ work[r] = "none"
  /\ WorkOn(r, IF form[r] = "blank" THEN "failed"
               ELSE IF key[r] = Unkeyed THEN "saving" ELSE "waiting")
  /\ UNCHANGED <<gatewayState, draft, stored, pending, serviceLog, announced>>

SharesLock(q, r) ==
  key[q] # Unkeyed /\ key[r] # Unkeyed /\ LockOf[key[q]] = LockOf[key[r]]

(* Mutation of LockFree: there is no lock.                                 *)
LockFreeAlways(r) == TRUE

(* Mutation of LockFree: the lock is the session's, not the transaction's. *)
LockFreeOfSessions(r) ==
  \A q \in Requests :
    SharesLock(q, r) => work[q] \notin {"locked", "saving", "committed", "ended"}

LockFree(r) ==
  \A q \in Requests : SharesLock(q, r) => work[q] \notin {"locked", "saving"}

(* pg_advisory_xact_lock.                                                  *)
Lock(r) ==
  /\ work[r] = "waiting"
  /\ LockFree(r)
  /\ WorkOn(r, "locked")
  /\ UNCHANGED <<gatewayState, draft, stored, pending, serviceLog, announced>>

Named(k) == {o \in stored : key[o] = k}

(* The order that has the key already is the answer.                       *)
FindExisting(r) ==
  /\ work[r] = "locked"
  /\ \E o \in Named(key[r]) : draft' = [draft EXCEPT ![r] = o]
  /\ WorkOn(r, "committed")
  /\ UNCHANGED <<gatewayState, stored, pending, serviceLog, announced>>

FindNone(r) ==
  /\ work[r] = "locked"
  /\ Named(key[r]) = {}
  /\ WorkOn(r, "saving")
  /\ UNCHANGED <<gatewayState, draft, stored, pending, serviceLog, announced>>

(* The unique index on idempotency_key refuses the row.                    *)
Collides(r) == key[r] # Unkeyed /\ Named(key[r]) # {}

(* Mutation of Commit: the event is left to be published afterwards.       *)
CommitWithoutEvent(r) ==
  /\ work[r] = "saving"
  /\ WorkOn(r, IF Collides(r) THEN "collided" ELSE "committed")
  /\ draft' = [draft EXCEPT ![r] = r]
  /\ stored' = IF Collides(r) THEN stored ELSE stored \cup {r}
  /\ UNCHANGED <<gatewayState, pending, serviceLog, announced>>

(* The row of the order and the row of its event, in one transaction.      *)
Commit(r) ==
  /\ work[r] = "saving"
  /\ WorkOn(r, IF Collides(r) THEN "collided" ELSE "committed")
  /\ draft' = [draft EXCEPT ![r] = r]
  /\ stored' = IF Collides(r) THEN stored ELSE stored \cup {r}
  /\ pending' = IF Collides(r) THEN pending ELSE pending \cup {r}
  /\ UNCHANGED <<gatewayState, serviceLog, announced>>

(* The database refuses a statement, and the transaction is rolled back.   *)
RollBack(r) ==
  /\ work[r] \in {"waiting", "locked", "saving"}
  /\ WorkOn(r, "failed")
  /\ UNCHANGED <<gatewayState, draft, stored, pending, serviceLog, announced>>

(* The interceptor of the order service, which is the gateway's.           *)
LogReply(r) == serviceLog' \in AccessLogs(serviceLog, r, 201)

(* The answer, if the gateway still waits for it.                          *)
Reply(r) ==
  /\ work[r] \in {"committed", "failed", "collided"}
  /\ WorkOn(r, "ended")
  /\ draft' = [draft EXCEPT ![r] = NoOrder]
  /\ LogReply(r)
  /\ IF gate[r] # "forwarded" THEN UNCHANGED <<gate, status, answer, accessLog>>
     ELSE IF work[r] = "committed" THEN Respond(r, 201, draft[r])
     ELSE Respond(r, 500, NoOrder)
  /\ UNCHANGED <<key, form, stored, pending, announced>>

(* The process of the order service dies, and the requests with it.        *)
CrashIntake ==
  /\ \E r \in Requests : work[r] \notin {"none", "ended"}
  /\ work' = [r \in Requests |-> IF work[r] = "none" THEN "none" ELSE "ended"]
  /\ draft' = [r \in Requests |-> NoOrder]
  /\ UNCHANGED <<gatewayState, stored, pending, serviceLog, announced>>

(* The outbox worker publishes the row, and may die before it says so.     *)
Announce(o) ==
  /\ o \in pending
  /\ announced' = announced \cup {o}
  /\ pending' \in {pending, pending \ {o}}
  /\ UNCHANGED <<gatewayState, work, draft, stored, serviceLog>>

-------------------------------------------------------------------------------
IntakeNext ==
  \/ \E r \in Requests, k \in Keys \cup {Unkeyed}, f \in Forms : Post(r, k, f)
  \/ \E r \in Requests :
       \/ Unavailable(r) \/ Receive(r) \/ Lock(r) \/ FindExisting(r) \/ FindNone(r)
       \/ Commit(r) \/ RollBack(r) \/ Reply(r) \/ Announce(r)
  \/ CrashIntake

IntakeSpec == IntakeInit /\ [][IntakeNext]_intakeVars

(* The steps of a transaction.  None has to fail.                          *)
Transact(r) == Lock(r) \/ FindExisting(r) \/ FindNone(r) \/ Commit(r)

-------------------------------------------------------------------------------
(* "Every duplicate batch succeeded and returned one consistent business   *)
(* result for the same idempotency key": whatever requests overlap, are    *)
(* repeated or die, a key names one order, and none of them fails on the   *)
(* unique index.                                                           *)
KeyNamesOneOrder ==
  /\ \A r \in Requests : work[r] # "collided"
  /\ \A q, r \in Requests :
       status[q] = 201 /\ status[r] = 201 /\ key[q] = key[r] /\ key[q] # Unkeyed
         => answer[q] = answer[r]

(* An order that was answered with 201 is stored, and its event is on the  *)
(* way or in RabbitMQ; no event announces an order that was rolled back.   *)
CreatedOrdersAreAnnounced ==
  /\ \A r \in Requests :
       status[r] = 201 => answer[r] \in stored /\ answer[r] \in pending \cup announced
  /\ announced \subseteq stored

(* A request that waits for the lock of its key gets an end, even when the *)
(* one that holds it fails, or its client has given up.                    *)
WaitersEnd ==
  \A r \in Requests : (work[r] = "waiting") ~> (work[r] = "ended")

(* "4xx/5xx are always logged", by the gateway or by the order service.    *)
ErrorsAreLogged ==
  \A r \in Requests : status[r] >= 400 => r \in accessLog \cup serviceLog
===============================================================================
