------------------------------ MODULE Reliability ------------------------------
(***************************************************************************)
(* The machinery between the transaction that emits an event and the       *)
(* operation that handles it, the same in all three services: the outbox   *)
(* table and its polling workers, one per replica of the sending service;  *)
(* the queue with its retry and dead-letter queues; and the inbox table    *)
(* shared by the consumers, one per delivery that is in progress.          *)
(*                                                                         *)
(* Every statement against a table is a step of its own.  A copy in the    *)
(* retry queue returns to the main queue by itself after a delay, so both  *)
(* are `ready`.  Queues lose their order when several consumers prefetch   *)
(* from them, and equal copies need no counting: the sets keep that much.  *)
(***************************************************************************)
EXTENDS Naturals, FiniteSets

CONSTANTS
  Ids,             \* event ids
  Publishers,      \* the outbox workers of the replicas of the sender
  Consumers,       \* deliveries that can be in progress at one time
  MaxRetries       \* RMQ_MAX_RETRIES

ASSUME ReliabilityAssumption == MaxRetries \in Nat

VARIABLES
  outbox,          \* status of the outbox row, NONE before the commit
  publisher,       \* what each outbox worker is in the middle of
  ready,           \* copies in the queue or in its retry queue
  job,             \* the delivery each consumer works on, not acknowledged yet
  inbox,           \* status of the inbox row
  dead,            \* events of which a copy is in the dead-letter queue
  applied,         \* history: events whose operation has committed, once or more
  failures         \* history: failed handlings of the event, up to MaxRetries + 1

vars == <<outbox, publisher, ready, job, inbox, dead, applied, failures>>

Copies == [event : Ids, tries : 0..MaxRetries]

(* flush() between two statements: `batch` has the rows it has read and    *)
(* not come to, `event` the row at hand and whether it was `sent`.         *)
Idle == [batch |-> {}, event |-> {}, sent |-> FALSE]

Phases == {"lookup", "insert", "recheck", "run", "mark", "erase", "retry", "ack"}

NoJob == [phase |-> "none"]

Jobs == [phase : Phases, copy : Copies]

TypeOK ==
  /\ outbox \in [Ids -> {"NONE", "PENDING", "PUBLISHED"}]
  /\ publisher \in [Publishers -> [batch : SUBSET Ids, event : SUBSET Ids, sent : BOOLEAN]]
  /\ ready \subseteq Copies
  /\ job \in [Consumers -> Jobs \cup {NoJob}]
  /\ inbox \in [Ids -> {"NONE", "PROCESSING", "PROCESSED"}]
  /\ dead \subseteq Ids
  /\ applied \subseteq Ids
  /\ failures \in [Ids -> 0..(MaxRetries + 1)]

Init ==
  /\ outbox = [e \in Ids |-> "NONE"]
  /\ publisher = [p \in Publishers |-> Idle]
  /\ ready = {}
  /\ job = [c \in Consumers |-> NoJob]
  /\ inbox = [e \in Ids |-> "NONE"]
  /\ dead = {}
  /\ applied = {}
  /\ failures = [e \in Ids |-> 0]

consumerVars == <<job, inbox, dead, applied, failures>>

-------------------------------------------------------------------------------
(* The sending service.                                                    *)

(* The business transaction commits together with the outbox row.          *)
Emit(e) ==
  /\ outbox[e] = "NONE"
  /\ outbox' = [outbox EXCEPT ![e] = "PENDING"]
  /\ UNCHANGED <<publisher, ready, consumerVars>>

(* The query of flush(): rows that are PENDING and due.  Back-off and the  *)
(* batch size make it any of them; no row is locked.                       *)
Poll(p) ==
  /\ publisher[p] = Idle
  /\ \E due \in SUBSET {e \in Ids : outbox[e] = "PENDING"} :
       due # {} /\ publisher' = [publisher EXCEPT ![p].batch = due]
  /\ UNCHANGED <<outbox, ready, consumerVars>>

(* transport.publish of the next row: RabbitMQ confirms, or the call       *)
(* throws, which does not mean that RabbitMQ has not got the message.      *)
Publish(p, e) ==
  /\ publisher[p].event = {}
  /\ e \in publisher[p].batch
  /\ \E sent \in BOOLEAN :
       /\ publisher' = [publisher EXCEPT ![p] =
            [batch |-> publisher[p].batch \ {e}, event |-> {e}, sent |-> sent]]
       /\ LET copy == [event |-> e, tries |-> 0]
          IN ready' \in {ready \cup {copy}} \cup (IF sent THEN {} ELSE {ready})
  /\ UNCHANGED <<outbox, consumerVars>>

(* repository.save(event).  The entity was read PENDING; after a failure   *)
(* it is saved PENDING, even if another worker has made the row PUBLISHED. *)
SaveRow(p) ==
  /\ publisher[p].event # {}
  /\ outbox' = [e \in Ids |->
       IF e \notin publisher[p].event THEN outbox[e]
       ELSE IF publisher[p].sent THEN "PUBLISHED" ELSE "PENDING"]
  /\ publisher' = [publisher EXCEPT ![p] =
       [batch |-> publisher[p].batch, event |-> {}, sent |-> FALSE]]
  /\ UNCHANGED <<ready, consumerVars>>

(* The process dies, or both saves throw and end this flush().             *)
AbortFlush(p) ==
  /\ publisher[p] # Idle
  /\ publisher' = [publisher EXCEPT ![p] = Idle]
  /\ UNCHANGED <<outbox, ready, consumerVars>>

-------------------------------------------------------------------------------
(* The receiving service: handle() around process().                       *)

Goto(c, phase) == job' = [job EXCEPT ![c].phase = phase]

At(c, phase) == job[c].phase = phase

EventOf(c) == job[c].copy.event

Deliver(c, copy) ==
  /\ job[c] = NoJob
  /\ copy \in ready
  /\ job' = [job EXCEPT ![c] = [phase |-> "lookup", copy |-> copy]]
  /\ ready' = ready \ {copy}
  /\ UNCHANGED <<outbox, publisher, inbox, dead, applied, failures>>

(* Mutation of LookUp: any row makes the event a duplicate.                *)
LookUpAnyRow(c) ==
  /\ At(c, "lookup")
  /\ Goto(c, IF inbox[EventOf(c)] = "NONE" THEN "insert" ELSE "ack")
  /\ UNCHANGED <<outbox, publisher, ready, inbox, dead, applied, failures>>

(* Mutation of LookUp: the status of the row is not looked at.             *)
LookUpIgnoringStatus(c) ==
  /\ At(c, "lookup")
  /\ Goto(c, IF inbox[EventOf(c)] = "NONE" THEN "insert" ELSE "run")
  /\ UNCHANGED <<outbox, publisher, ready, inbox, dead, applied, failures>>

(* findOne.  A row that is only PROCESSING does not stop this delivery: it *)
(* may have been left by a consumer that has died.                         *)
LookUp(c) ==
  /\ At(c, "lookup")
  /\ Goto(c, CASE inbox[EventOf(c)] = "PROCESSED"  -> "ack"
               [] inbox[EventOf(c)] = "PROCESSING" -> "run"
               [] inbox[EventOf(c)] = "NONE"       -> "insert")
  /\ UNCHANGED <<outbox, publisher, ready, inbox, dead, applied, failures>>

(* insert() may also fail when there is no row.                            *)
InsertRow(c) ==
  /\ At(c, "insert")
  /\ \/ /\ inbox[EventOf(c)] = "NONE"
        /\ inbox' = [inbox EXCEPT ![EventOf(c)] = "PROCESSING"]
        /\ Goto(c, "run")
     \/ Goto(c, "recheck") /\ UNCHANGED inbox
  /\ UNCHANGED <<outbox, publisher, ready, dead, applied, failures>>

(* findOne once more; there may be any row by now, or none.                *)
Recheck(c) ==
  /\ At(c, "recheck")
  /\ Goto(c, IF inbox[EventOf(c)] = "PROCESSED" THEN "ack" ELSE "run")
  /\ UNCHANGED <<outbox, publisher, ready, inbox, dead, applied, failures>>

CountFailure(c) ==
  failures' = [failures EXCEPT ![EventOf(c)] = IF @ <= MaxRetries THEN @ + 1 ELSE @]

(* Either findOne throws.  It is outside the try that erases the row, and  *)
(* it does not know yet whether the event has been handled before: a copy  *)
(* of an event that is PROCESSED is retried as well, or dead-lettered.     *)
ReadThrows(c) ==
  /\ At(c, "lookup") \/ At(c, "recheck")
  /\ CountFailure(c)
  /\ Goto(c, "retry")
  /\ UNCHANGED <<outbox, publisher, ready, inbox, dead, applied>>

(* operation() is a transaction of its own.                                *)
RunOperation(c) ==
  /\ At(c, "run")
  /\ applied' = applied \cup {EventOf(c)}
  /\ Goto(c, "mark")
  /\ UNCHANGED <<outbox, publisher, ready, inbox, dead, failures>>

(* The UPDATE changes nothing if another delivery has erased the row.      *)
MarkProcessed(c) ==
  /\ At(c, "mark")
  /\ inbox' = [inbox EXCEPT ![EventOf(c)] = IF @ = "NONE" THEN @ ELSE "PROCESSED"]
  /\ Goto(c, "ack")
  /\ UNCHANGED <<outbox, publisher, ready, dead, applied, failures>>

(* operation() or the UPDATE after it throws; both have the same catch.    *)
HandlerThrows(c) ==
  /\ At(c, "run") \/ At(c, "mark")
  /\ CountFailure(c)
  /\ Goto(c, "erase")
  /\ UNCHANGED <<outbox, publisher, ready, inbox, dead, applied>>

(* The DELETE takes the row whatever its status is now; it may throw, too. *)
EraseRow(c) ==
  /\ At(c, "erase")
  /\ inbox' \in {inbox, [inbox EXCEPT ![EventOf(c)] = "NONE"]}
  /\ Goto(c, "retry")
  /\ UNCHANGED <<outbox, publisher, ready, dead, applied, failures>>

(* Mutation of Exhausted: the last retry is never made.                    *)
ExhaustedEarly(copy) == copy.tries + 1 >= MaxRetries

Exhausted(copy) == copy.tries >= MaxRetries

(* A copy to the retry queue or the dead-letter queue, with its confirm.   *)
CopyForRetry(c) ==
  /\ At(c, "retry")
  /\ IF Exhausted(job[c].copy)
     THEN dead' = dead \cup {EventOf(c)} /\ UNCHANGED ready
     ELSE /\ ready' = ready \cup {[job[c].copy EXCEPT !.tries = @ + 1]}
          /\ UNCHANGED dead
  /\ Goto(c, "ack")
  /\ UNCHANGED <<outbox, publisher, inbox, applied, failures>>

Ack(c) ==
  /\ At(c, "ack")
  /\ job' = [job EXCEPT ![c] = NoJob]
  /\ UNCHANGED <<outbox, publisher, ready, inbox, dead, applied, failures>>

(* The process or its channel dies: RabbitMQ redelivers what it has not    *)
(* acknowledged.                                                           *)
LoseConsumer(c) ==
  /\ job[c] # NoJob
  /\ job' = [job EXCEPT ![c] = NoJob]
  /\ ready' = ready \cup {job[c].copy}
  /\ UNCHANGED <<outbox, publisher, inbox, dead, applied, failures>>

-------------------------------------------------------------------------------
PublisherStep(p) ==
  \/ Poll(p)
  \/ \E e \in Ids : Publish(p, e)
  \/ SaveRow(p)

ConsumerStep(c) ==
  \/ LookUp(c)
  \/ InsertRow(c)
  \/ Recheck(c)
  \/ ReadThrows(c)
  \/ RunOperation(c)
  \/ MarkProcessed(c)
  \/ HandlerThrows(c)
  \/ EraseRow(c)
  \/ CopyForRetry(c)
  \/ Ack(c)

Next ==
  \/ \E e \in Ids : Emit(e)
  \/ \E p \in Publishers : PublisherStep(p) \/ AbortFlush(p)
  \/ \E c \in Consumers : \E copy \in ready : Deliver(c, copy)
  \/ \E c \in Consumers : ConsumerStep(c) \/ LoseConsumer(c)

Spec == Init /\ [][Next]_vars

(* A worker that goes on polling comes to each row and gets it through in  *)
(* the end; RabbitMQ delivers what is ready; consumers go on, and there is *)
(* a time after which they no longer die while they handle an event.       *)
Fairness ==
  /\ \A e \in Ids :
       /\ SF_vars(\E p \in Publishers : Poll(p) /\ e \in publisher'[p].batch)
       /\ SF_vars(\E p \in Publishers : Publish(p, e) /\ [event |-> e, tries |-> 0] \in ready')
  /\ \A copy \in Copies : SF_vars(\E c \in Consumers : Deliver(c, copy))
  /\ \A p \in Publishers : WF_vars(PublisherStep(p))
  /\ \A c \in Consumers : WF_vars(ConsumerStep(c))
  /\ <>[][\A c \in Consumers : LoseConsumer(c) => At(c, "ack")]_vars

FairSpec == Spec /\ Fairness

-------------------------------------------------------------------------------
(* What the link promises.                                                 *)

Touches(p, e) == e \in publisher[p].batch \cup publisher[p].event

WorksOn(c, e, phases) == job[c] # NoJob /\ EventOf(c) = e /\ job[c].phase \in phases

(* Nobody will run the operation of the event again: its inbox row says    *)
(* PROCESSED and no delivery is left that could erase it.  Copies may      *)
(* still be delivered, be retried and become dead letters ...              *)
Final ==
  {e \in Ids : /\ inbox[e] = "PROCESSED"
               /\ ~\E c \in Consumers : WorksOn(c, e, {"run", "mark", "erase"})}

(* ... or no copy is left, and no worker that could make another one.      *)
Quiet ==
  {e \in Ids : /\ outbox[e] = "PUBLISHED"
               /\ ~\E p \in Publishers : Touches(p, e)
               /\ ~\E copy \in ready : copy.event = e
               /\ ~\E c \in Consumers : WorksOn(c, e, Phases)}

Live == {e \in Ids : outbox[e] # "NONE"} \ (Final \cup Quiet)

Link == INSTANCE EventLink WITH live <- Live

(* The tables and queues implement the link the services rely on: every    *)
(* crash, lost confirm, race between two copies and stale save included.   *)
ImplementsLink == Link!Spec

(* No event becomes a dead letter before handling it has failed once and   *)
(* then at every retry.                                                    *)
DeadWasRetried == \A e \in dead : failures[e] = MaxRetries + 1

(* A committed event is handled or given up in the end.                    *)
EveryEventSettles ==
  \A e \in Ids : (outbox[e] # "NONE") ~> (e \in applied \/ e \in dead)
===============================================================================
