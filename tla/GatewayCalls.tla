------------------------------ MODULE GatewayCalls ------------------------------
(***************************************************************************)
(* The calls of the console that go through the gateway to the services,   *)
(* but for the posting of orders, which OrderIntake models.  The gateway   *)
(* waits three seconds for an answer; the service does not know and goes   *)
(* on.  The operator repeats a call at will.                               *)
(*                                                                         *)
(* Seen from one driver, with one dispatch: what is told apart is whether  *)
(* a call has changed anything and what the console has been told of it.   *)
(***************************************************************************)
EXTENDS Naturals, FiniteSets

CONSTANT ConsoleCalls      \* slots for calls, repeated ones included

VARIABLES
  op,              \* what a call asks for, "none" before it is made
  body,            \* its body or id: fine, malformed, or odd beyond the pipes
  told,            \* what the console has been told, "nothing" before
  sent,            \* calls the gateway has passed on to a service
  working,         \* calls a service is in the middle of
  reply,           \* what the service answers, "none" before it does
  changed,         \* calls that have changed something, for good
  dispatch         \* status of the dispatch

callState == <<op, body, told, sent>>
servedState == <<working, reply, changed, dispatch>>
callVars == <<callState, servedState>>

Cancels == {"cancel order", "cancel dispatch"}

Writes == {"create driver", "set availability", "update location", "cancel order"}

Queries == {"query orders", "query drivers", "query dispatches", "query tracking"}

Operations == Writes \cup Cancels \cup Queries \cup {"plan route"}

CallTypeOK ==
  /\ op \in [ConsoleCalls -> Operations \cup {"none"}]
  /\ body \in [ConsoleCalls -> {"fine", "malformed", "odd"}]
  /\ told \in [ConsoleCalls -> {"nothing", "ok", "refused", "failed", "unavailable", "lost"}]
  /\ sent \subseteq ConsoleCalls
  /\ working \subseteq sent
  /\ reply \in [ConsoleCalls -> {"none", "ok", "refused", "failed"}]
  /\ changed \subseteq sent
  /\ dispatch \in {"SEARCHING_DRIVER", "ASSIGNED", "COMPENSATING", "CANCELLED"}

CallInit ==
  /\ op = [c \in ConsoleCalls |-> "none"]
  /\ body = [c \in ConsoleCalls |-> "fine"]
  /\ told = [c \in ConsoleCalls |-> "nothing"]
  /\ sent = {}
  /\ working = {}
  /\ reply = [c \in ConsoleCalls |-> "none"]
  /\ changed = {}
  /\ dispatch = "SEARCHING_DRIVER"

-------------------------------------------------------------------------------
(* The console.                                                            *)

Waiting(c) == op[c] # "none" /\ told[c] = "nothing"

MakeCall(c, o, f) ==
  /\ op[c] = "none"
  /\ op' = [op EXCEPT ![c] = o]
  /\ body' = [body EXCEPT ![c] = f]
  /\ UNCHANGED <<told, sent, servedState>>

(* A status that is not ok is thrown, with the message it has come with.   *)
Tell(c, what) ==
  /\ Waiting(c)
  /\ told' = [told EXCEPT ![c] = what]
  /\ UNCHANGED <<op, body, sent, servedState>>

(* The request of the browser fails; the gateway need not notice.          *)
LoseAnswer(c) == Tell(c, "lost")

-------------------------------------------------------------------------------
(* The gateway.                                                            *)

PassOn(c) ==
  /\ c \notin sent
  /\ sent' = sent \cup {c}
  /\ UNCHANGED <<op, body, told, servedState>>

(* The bodies of these the gateway validates itself.                       *)
PassOnValid(c) ==
  \/ body[c] # "malformed" /\ PassOn(c)
  \/ body[c] = "malformed" /\ Tell(c, "refused")

DriversController(c) ==
  \/ op[c] \in {"create driver", "set availability"} /\ PassOnValid(c)
  \/ op[c] = "query drivers" /\ PassOn(c)

DispatchController(c) ==
  \/ op[c] = "cancel dispatch" /\ PassOnValid(c)
  \/ op[c] = "query dispatches" /\ PassOn(c)

OrdersController(c) == op[c] \in {"query orders", "cancel order"} /\ PassOn(c)

TrackingController(c) == op[c] \in {"query tracking", "update location"} /\ PassOn(c)

OptimizationController(c) == op[c] = "plan route" /\ PassOn(c)

(* forward() keeps a status; the optimization controller has no forward(). *)
Forwarded(o, answer) ==
  IF o = "plan route" /\ answer = "refused" THEN "failed" ELSE answer

TakeReply(c) == reply[c] # "none" /\ Tell(c, Forwarded(op[c], reply[c]))

(* Mutation of GiveUp: no answer is taken for a refusal.                   *)
GiveUpRefusing(c) == c \in sent /\ Tell(c, "refused")

(* Three seconds are over, or the service cannot be reached.               *)
GiveUp(c) == c \in sent /\ Tell(c, "unavailable")

-------------------------------------------------------------------------------
(* The services.                                                           *)

(* What is passed on and not answered, waited for or not.                  *)
Arrived(c, o) == op[c] = o /\ c \in sent \ working /\ reply[c] = "none"

Answer(c, what) ==
  /\ reply' = [reply EXCEPT ![c] = what]
  /\ UNCHANGED callState

(* A pipe or a use case refuses the call, or it has nothing to change.     *)
AnswerOnly(c, what) ==
  Answer(c, what) /\ UNCHANGED <<working, changed, dispatch>>

Change(c) ==
  /\ Answer(c, "ok")
  /\ changed' = changed \cup {c}
  /\ UNCHANGED <<working, dispatch>>

(* A name of blanks gets as far as Driver.create, which throws.            *)
CreateDriver(c) ==
  /\ Arrived(c, "create driver") /\ body[c] = "fine"
  /\ Change(c)

(* A driver with reservations, or one that there is not, is refused.  The  *)
(* reservation is made before the dispatch is ASSIGNED, and released       *)
(* before it is CANCELLED.                                                 *)
SetAvailability(c) ==
  /\ Arrived(c, "set availability")
  /\ \/ /\ dispatch # "CANCELLED" \/ body[c] = "odd"
        /\ AnswerOnly(c, "refused")
     \/ /\ dispatch # "ASSIGNED" /\ body[c] # "odd"
        /\ Change(c)

UpdateLocation(c) ==
  /\ Arrived(c, "update location") /\ body[c] # "odd"
  /\ IF body[c] = "malformed" THEN AnswerOnly(c, "refused") ELSE Change(c)

(* A limit that is none is replaced by the default.                        *)
QueryDrivers(c) == Arrived(c, "query drivers") /\ AnswerOnly(c, "ok")

QueryOrders(c) ==
  Arrived(c, "query orders") /\ AnswerOnly(c, IF body[c] = "fine" THEN "ok" ELSE "refused")

QueryDispatches(c) ==
  Arrived(c, "query dispatches") /\ AnswerOnly(c, IF body[c] = "fine" THEN "ok" ELSE "refused")

(* Of a driver without a position, there is none to be had.                *)
QueryTracking(c) ==
  Arrived(c, "query tracking") /\ AnswerOnly(c, IF body[c] = "fine" THEN "ok" ELSE "refused")

(* What the pipe lets through and the planner rejects is thrown.           *)
PlanRoute(c) ==
  /\ Arrived(c, "plan route") /\ body[c] # "odd"
  /\ AnswerOnly(c, IF body[c] = "fine" THEN "ok" ELSE "refused")

(* The order is loaded; it is cancelled only from PENDING_DISPATCH, which  *)
(* it may have left.                                                       *)
LoadForCancel(c) ==
  /\ Arrived(c, "cancel order")
  /\ \/ AnswerOnly(c, "refused")
     \/ /\ body[c] = "fine" /\ \A x \in changed : op[x] # "cancel order"
        /\ working' = working \cup {c}
        /\ UNCHANGED <<callState, reply, changed, dispatch>>

(* ... and saved, whatever has been saved of it since.                     *)
SaveCancelled(c) ==
  /\ c \in working /\ op[c] = "cancel order"
  /\ changed' = changed \cup {c}
  /\ Answer(c, "ok")
  /\ working' = working \ {c}
  /\ UNCHANGED dispatch

(* The cancel endpoint reads the dispatch; one that is on its way out      *)
(* already is as good as cancelled.                                        *)
ReadForCancel(c) ==
  /\ Arrived(c, "cancel dispatch")
  /\ \/ /\ body[c] = "odd" \/ dispatch = "SEARCHING_DRIVER"
        /\ AnswerOnly(c, "refused")
     \/ /\ body[c] # "odd" /\ dispatch = "ASSIGNED"
        /\ working' = working \cup {c}
        /\ UNCHANGED <<callState, reply, changed, dispatch>>
     \/ /\ body[c] # "odd" /\ dispatch \in {"COMPENSATING", "CANCELLED"}
        /\ AnswerOnly(c, "ok")

(* ... and starts the compensation in a transaction of its own, whose      *)
(* commit may be reported to nobody.                                       *)
CommitCancel(c) ==
  /\ c \in working /\ op[c] = "cancel dispatch"
  /\ IF dispatch = "ASSIGNED"
     THEN dispatch' = "COMPENSATING" /\ changed' = changed \cup {c}
     ELSE UNCHANGED <<dispatch, changed>>
  /\ Answer(c, "ok") \/ Answer(c, "failed")
  /\ working' = working \ {c}

(* A use case throws: for an odd body, or because a database, Redis or the *)
(* queue does, perhaps after a commit.                                     *)
ServiceFails(c) ==
  /\ c \in working \/ \E o \in Operations : Arrived(c, o)
  /\ Answer(c, "failed")
  /\ working' = working \ {c}
  /\ changed' \in {changed} \cup
       (IF op[c] \in Writes /\ body[c] = "fine" THEN {changed \cup {c}} ELSE {})
  /\ UNCHANGED dispatch

(* The saga goes on beside it.                                             *)
SagaMoves ==
  /\ \/ dispatch = "SEARCHING_DRIVER" /\ dispatch' = "ASSIGNED"
     \/ dispatch = "COMPENSATING" /\ dispatch' = "CANCELLED"
  /\ UNCHANGED <<callState, working, reply, changed>>

-------------------------------------------------------------------------------
CallNext ==
  \/ \E c \in ConsoleCalls, o \in Operations, f \in {"fine", "malformed", "odd"} :
       MakeCall(c, o, f)
  \/ \E c \in ConsoleCalls :
       \/ DriversController(c) \/ DispatchController(c) \/ OrdersController(c)
       \/ TrackingController(c) \/ OptimizationController(c)
       \/ TakeReply(c) \/ GiveUp(c) \/ LoseAnswer(c)
       \/ CreateDriver(c) \/ SetAvailability(c) \/ UpdateLocation(c)
       \/ QueryDrivers(c) \/ QueryOrders(c) \/ QueryDispatches(c) \/ QueryTracking(c)
       \/ PlanRoute(c) \/ LoadForCancel(c) \/ SaveCancelled(c)
       \/ ReadForCancel(c) \/ CommitCancel(c) \/ ServiceFails(c)
  \/ SagaMoves

CallSpec == CallInit /\ [][CallNext]_callVars

-------------------------------------------------------------------------------
(* Whatever is slow, lost, repeated or overtaken on the way, the console   *)
(* can take an answer at its word: what is reported as done is done, what  *)
(* is reported as refused has not been done and will not be, and a         *)
(* dispatch is compensated once however often it is cancelled.             *)
AnswersAreTrue ==
  /\ \A c \in ConsoleCalls :
       /\ told[c] = "ok" /\ op[c] \in Writes => c \in changed
       /\ told[c] = "ok" /\ op[c] = "cancel dispatch" =>
            dispatch \in {"COMPENSATING", "CANCELLED"}
       /\ told[c] = "refused" => c \notin changed
  /\ Cardinality({c \in changed : op[c] = "cancel dispatch"}) <= 1
===============================================================================
