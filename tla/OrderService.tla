------------------------------ MODULE OrderService ------------------------------
(***************************************************************************)
(* The order service.  An order is created together with the event that    *)
(* asks for its dispatch.  All later changes go through use cases of one   *)
(* form: findById, an operation of the aggregate, save.  There is no lock  *)
(* and no version column; save is a SELECT, which tells what columns the   *)
(* aggregate differs in from the row, and an UPDATE of these columns.      *)
(***************************************************************************)
EXTENDS EventBus

CONSTANTS
  Workers,       \* slots for use cases in progress at one time
  Cancellable    \* the orders whose customer may cancel

ASSUME OrderAssumption == Cancellable \subseteq Orders

VARIABLES
  order,         \* the orders table
  work,          \* the use case each worker is in the middle of
  overtaken,     \* history: the workers whose row has changed since they read it
  overwritten    \* history: the orders that such a worker has changed

orderVars == <<order, work, overtaken, overwritten>>

OrderStatuses == {"NONE", "PENDING_DISPATCH", "DISPATCHING", "ASSIGNED", "CANCELLED"}

OrderRows == [status : OrderStatuses, driver : MaybeDriver]

NoOrder == [status |-> "NONE", driver |-> NoDriver]

NoWork == [phase |-> "idle"]

(* `event` is {} for the cancel endpoint, `row` is the changed aggregate.  *)
Works == [phase : {"loaded", "diffed"}, order : Orders, event : SUBSET Events,
          row : OrderRows, columns : SUBSET {"status", "driver"}]

OrderTypeOK ==
  /\ order \in [Orders -> OrderRows]
  /\ work \in [Workers -> Works \cup {NoWork}]
  /\ overtaken \subseteq Workers /\ overwritten \subseteq Orders

OrderInit ==
  /\ order = [o \in Orders |-> NoOrder]
  /\ work = [w \in Workers |-> NoWork]
  /\ overtaken = {} /\ overwritten = {}

-------------------------------------------------------------------------------
(* The Order aggregate.                                                    *)

OrderEvents == {DispatchStarted, DispatchAssigned, DispatchFailed, DispatchCancelled}

(* Mutation of Throws: assignDriver accepts every state.                   *)
ThrowsWhenCancelling(m, row) ==
  m.type = DispatchCancelled /\ row.status \notin {"DISPATCHING", "ASSIGNED", "CANCELLED"}

(* assignDriver and cancelAfterDispatch throw in some states.              *)
Throws(m, row) ==
  \/ /\ m.type = DispatchAssigned
     /\ row # [status |-> "ASSIGNED", driver |-> m.driver]
     /\ row.status # "DISPATCHING"
  \/ /\ m.type = DispatchCancelled
     /\ row.status \notin {"DISPATCHING", "ASSIGNED", "CANCELLED"}

(* beginDispatch, assignDriver, dispatchFailed and cancelAfterDispatch.    *)
AfterEvent(m, row) ==
  IF m.type = DispatchStarted /\ row.status = "PENDING_DISPATCH"
  THEN [row EXCEPT !.status = "DISPATCHING"]
  ELSE IF m.type = DispatchAssigned
  THEN [status |-> "ASSIGNED", driver |-> m.driver]
  ELSE IF m.type = DispatchFailed /\ row.status = "DISPATCHING"
  THEN [row EXCEPT !.status = "PENDING_DISPATCH"]
  ELSE IF m.type = DispatchCancelled
  THEN [row EXCEPT !.status = "CANCELLED"]
  ELSE row

-------------------------------------------------------------------------------
(* POST orders: the order and its event commit together.                   *)
CreateOrder(o) ==
  /\ order[o] = NoOrder
  /\ order' = [order EXCEPT ![o].status = "PENDING_DISPATCH"]
  /\ Publish({NewEvent(OrderReady, o, NoDriver)})
  /\ UNCHANGED <<work, overtaken, overwritten>>

(* findById and the operation of the aggregate.                            *)
LoadForEvent(w, m) ==
  /\ work[w] = NoWork
  /\ m.type \in OrderEvents
  /\ ~Throws(m, order[m.order])
  /\ work' = [work EXCEPT ![w] =
                [phase |-> "loaded", order |-> m.order, event |-> {m},
                 row |-> AfterEvent(m, order[m.order]), columns |-> {}]]
  /\ UNCHANGED <<order, overtaken, overwritten, net, dlq>>

RefuseEvent(w, m) ==
  /\ work[w] = NoWork
  /\ m.type \in OrderEvents
  /\ Throws(m, order[m.order])
  /\ Rejected(m)
  /\ UNCHANGED orderVars

(* POST orders/:id/cancel is refused unless the order is pending.          *)
LoadForCancel(w, o) ==
  /\ work[w] = NoWork
  /\ order[o].status = "PENDING_DISPATCH"
  /\ work' = [work EXCEPT ![w] =
                [phase |-> "loaded", order |-> o, event |-> {},
                 row |-> [order[o] EXCEPT !.status = "CANCELLED"],
                 columns |-> {}]]
  /\ UNCHANGED <<order, overtaken, overwritten, net, dlq>>

(* The SELECT of save().                                                   *)
DiffOrder(w) ==
  /\ work[w] # NoWork
  /\ work[w].phase = "loaded"
  /\ LET now == order[work[w].order]
         columns == {c \in {"status", "driver"} : now[c] # work[w].row[c]}
     IN work' = [work EXCEPT ![w].phase = "diffed", ![w].columns = columns]
  /\ UNCHANGED <<order, overtaken, overwritten, net, dlq>>

(* What the history keeps of a save by w: the others who still work from   *)
(* the row it has changed, and whether w did so itself.                    *)
RecordSave(w) ==
  LET o == work[w].order
      changed == order'[o] # order[o]
      others == {v \in Workers \ {w} : work[v] # NoWork /\ work[v].order = o}
  IN /\ overtaken' = (overtaken \ {w}) \cup (IF changed THEN others ELSE {})
     /\ overwritten' = overwritten \cup (IF changed /\ w \in overtaken THEN {o} ELSE {})

(* The UPDATE of save(); then the event, if there is one, is settled.      *)
SaveOrder(w) ==
  /\ work[w] # NoWork
  /\ work[w].phase = "diffed"
  /\ order' = [order EXCEPT ![work[w].order] =
                 [c \in {"status", "driver"} |->
                    IF c \in work[w].columns THEN work[w].row[c] ELSE @[c]]]
  /\ IF work[w].event = {} THEN UNCHANGED busVars
     ELSE \E m \in work[w].event : Handled(m, {})
  /\ work' = [work EXCEPT ![w] = NoWork]
  /\ RecordSave(w)

(* The process dies before the UPDATE commits, or a statement throws.      *)
AbandonWork(w) ==
  /\ work[w] # NoWork
  /\ Publish(work[w].event) \/ \E m \in work[w].event : Rejected(m)
  /\ work' = [work EXCEPT ![w] = NoWork]
  /\ overtaken' = overtaken \ {w}
  /\ UNCHANGED <<order, overwritten>>

-------------------------------------------------------------------------------
OrderNext ==
  \/ \E o \in Orders : CreateOrder(o)
  \/ \E w \in Workers, m \in net : LoadForEvent(w, m) \/ RefuseEvent(w, m)
  \/ \E w \in Workers, o \in Cancellable : LoadForCancel(w, o)
  \/ \E w \in Workers : DiffOrder(w) \/ SaveOrder(w) \/ AbandonWork(w)
===============================================================================
