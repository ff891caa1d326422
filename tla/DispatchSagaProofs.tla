--------------------------- MODULE DispatchSagaProofs ---------------------------
(***************************************************************************)
(* Safety of the saga for every set of orders, drivers, candidate lists    *)
(* and workers, all capacities and every bound on retries and cancels.     *)
(***************************************************************************)
EXTENDS DispatchSaga, DriverServiceLemmas

-------------------------------------------------------------------------------
(* Type correctness.                                                       *)

LEMMA SetStatusSets ==
  ASSUME DispatchTypeOK, NEW o \in Orders, NEW status \in DispatchStatuses,
         SetStatus(o, status)
  PROVE  /\ dispatch'[o] = [status |-> status, driver |-> dispatch[o].driver]
         /\ \A p \in Orders : p # o => dispatch'[p] = dispatch[p]
         /\ dispatch' \in [Orders -> [status : DispatchStatuses, driver : MaybeDriver]]
  BY DEF DispatchTypeOK, SetStatus

LEMMA RequestType ==
  ASSUME NEW o \in Orders, NEW list \in CandidateLists
  PROVE  ReservationRequest(o, list) \in Events
<1>1. NewEvent(ReservationRequested, o, NoDriver) \in Events
  BY NewEventType DEF EventTypes, MaybeDriver
<1>2. QED  BY <1>1, DispatchAssumption DEF ReservationRequest, Events, DispatchAssumption

LEMMA DispatchHandlesType ==
  ASSUME BusTypeOK, DispatchTypeOK, NEW m \in net, DispatchHandles(m)
  PROVE  BusTypeOK' /\ DispatchTypeOK'
<1>1. /\ m \in Events /\ m.order \in Orders /\ m.driver \in MaybeDriver
      /\ NoDriver \in MaybeDriver
  BY DEF BusTypeOK, Events, MaybeDriver
<1>2. \A type \in EventTypes, d \in MaybeDriver : NewEvent(type, m.order, d) \in Events
  BY <1>1, NewEventType
<1> USE DEF DispatchStatuses
<1>3. ASSUME NEW list \in CandidateLists, StartDispatch(m, list)
      PROVE  BusTypeOK' /\ DispatchTypeOK'
  <2>1. ReservationRequest(m.order, list) \in Events
    BY <1>1, RequestType
  <2>2. NewEvent(DispatchStarted, m.order, NoDriver) \in Events
    BY <1>1, <1>2 DEF EventTypes
  <2>3. BusTypeOK'
    BY <1>3, <2>1, <2>2 DEF StartDispatch, Publish, BusTypeOK
  <2>4. dispatch' \in [Orders -> [status : DispatchStatuses, driver : MaybeDriver]]
    BY <1>1, <1>3, SetStatusSets DEF StartDispatch
  <2>5. QED  BY <1>1, <1>3, <2>3, <2>4 DEF StartDispatch, DispatchTypeOK
<1>4. CASE StartAgain(m) \/ PlanFails(m)
  BY <1>1, <1>4, HandledType, RejectedType
  DEF StartAgain, PlanFails, dispatchVars, DispatchTypeOK
<1>5. CASE AssignDriver(m)
  <2>1. NewEvent(DispatchAssigned, m.order, m.driver) \in Events
    BY <1>1, <1>2 DEF EventTypes
  <2>2. BusTypeOK'
    BY <1>5, <2>1, HandledType DEF AssignDriver
  <2>3. QED  BY <1>1, <1>5, <2>2 DEF AssignDriver, DispatchTypeOK
<1>6. CASE FailSearch(m)
  <2>1. NewEvent(DispatchFailed, m.order, NoDriver) \in Events
    BY <1>1, <1>2 DEF EventTypes
  <2>2. BusTypeOK'
    BY <1>6, <2>1, HandledType DEF FailSearch
  <2>3. dispatch' \in [Orders -> [status : DispatchStatuses, driver : MaybeDriver]]
    BY <1>1, <1>6, SetStatusSets DEF FailSearch
  <2>4. QED  BY <1>6, <2>2, <2>3 DEF FailSearch, DispatchTypeOK
<1>7. CASE LateAnswer(m)
  <2>1. NewEvent(ReleaseRequested, m.order, m.driver) \in Events
    BY <1>1, <1>2 DEF EventTypes
  <2>2. QED  BY <1>7, <2>1, HandledType DEF LateAnswer, dispatchVars, DispatchTypeOK
<1>8. CASE CompleteCompensation(m)
  <2>1. NewEvent(DispatchCancelled, m.order, NoDriver) \in Events
    BY <1>1, <1>2 DEF EventTypes
  <2>2. BusTypeOK'
    BY <1>8, <2>1, HandledType DEF CompleteCompensation
  <2>3. dispatch' \in [Orders -> [status : DispatchStatuses, driver : MaybeDriver]]
    BY <1>1, <1>8, SetStatusSets DEF CompleteCompensation, DispatchTypeOK
  <2>4. QED  BY <1>8, <2>2, <2>3 DEF CompleteCompensation, DispatchTypeOK
<1>9. QED  BY <1>3, <1>4, <1>5, <1>6, <1>7, <1>8 DEF DispatchHandles

LEMMA DispatchNextType ==
  ASSUME BusTypeOK, DispatchTypeOK, DispatchNext
  PROVE  BusTypeOK' /\ DispatchTypeOK'
<1> USE DEF DispatchStatuses
<1>1. ASSUME NEW o \in Orders, ScheduleTimeout(o) \/ LoseTimeout(o)
      PROVE  BusTypeOK' /\ DispatchTypeOK'
  <2>1. starting[o] \in Events
    BY <1>1 DEF ScheduleTimeout, LoseTimeout, DispatchTypeOK
  <2>2. BusTypeOK'
    BY <1>1, <2>1, HandledType, RejectedType
    DEF ScheduleTimeout, LoseTimeout, Publish, BusTypeOK
  <2>3. QED  BY <1>1, <2>2 DEF ScheduleTimeout, LoseTimeout, DispatchTypeOK
<1>2. ASSUME NEW o \in Orders, Timeout(o)
      PROVE  BusTypeOK' /\ DispatchTypeOK'
  <2>1. NewEvent(DispatchFailed, o, NoDriver) \in Events
    BY NewEventType DEF EventTypes, MaybeDriver
  <2>2. dispatch' \in [Orders -> [status : DispatchStatuses, driver : MaybeDriver]]
    BY <1>2, SetStatusSets DEF Timeout
  <2>3. QED  BY <1>2, <2>1, <2>2 DEF Timeout, Publish, BusTypeOK, DispatchTypeOK
<1>3. ASSUME NEW o \in Orders, StartCompensation(o)
      PROVE  BusTypeOK' /\ DispatchTypeOK'
  <2>1. NewEvent(ReleaseRequested, o, dispatch[o].driver) \in Events
    BY NewEventType DEF EventTypes, DispatchTypeOK
  <2>2. dispatch' \in [Orders -> [status : DispatchStatuses, driver : MaybeDriver]]
    BY <1>3, SetStatusSets DEF StartCompensation
  <2>3. cancelling' \in [Orders -> 0..MaxCancels]
    BY <1>3, DispatchAssumption DEF StartCompensation, DispatchTypeOK, DispatchAssumption
  <2>4. QED  BY <1>3, <2>1, <2>2, <2>3
             DEF StartCompensation, Publish, BusTypeOK, DispatchTypeOK
<1>4. ASSUME NEW o \in Orders, TimeoutWithoutEffect(o) \/ RequestCancel(o) \/ AbandonCancel(o)
      PROVE  BusTypeOK' /\ DispatchTypeOK'
  BY <1>4, DispatchAssumption
  DEF TimeoutWithoutEffect, RequestCancel, AbandonCancel, BusTypeOK, DispatchTypeOK,
      DispatchAssumption
<1>5. QED  BY <1>1, <1>2, <1>3, <1>4, DispatchHandlesType DEF DispatchNext

LEMMA AfterEventType ==
  ASSUME NEW m \in Events, NEW row \in OrderRows
  PROVE  AfterEvent(m, row) \in OrderRows
  BY DEF AfterEvent, OrderRows, OrderStatuses, Events

LEMMA WorkingType ==
  ASSUME OrderTypeOK, NEW w \in Workers, work[w] # NoWork
  PROVE  /\ work[w] \in Works
         /\ work[w].order \in Orders /\ work[w].event \in SUBSET Events
         /\ work[w].row \in OrderRows
         /\ work[w].columns \in SUBSET {"status", "driver"}
  BY DEF OrderTypeOK, Works

(* What save() leaves in the row: the columns found to differ.             *)
LEMMA SavedRow ==
  ASSUME OrderTypeOK, NEW w \in Workers, SaveOrder(w),
         NEW o, o = work[w].order
  PROVE  /\ o \in Orders
         /\ order'[o].status = IF "status" \in work[w].columns THEN work[w].row.status
                               ELSE order[o].status
         /\ order'[o].driver = IF "driver" \in work[w].columns THEN work[w].row.driver
                               ELSE order[o].driver
         /\ \A p \in Orders : p # o => order'[p] = order[p]
         /\ order' \in [Orders -> OrderRows]
<1> DEFINE row == work[w].row
           columns == work[w].columns
           saved == [c \in {"status", "driver"} |->
                       IF c \in columns THEN row[c] ELSE order[o][c]]
           next == [status |-> IF "status" \in columns THEN row.status
                               ELSE order[o].status,
                    driver |-> IF "driver" \in columns THEN row.driver
                               ELSE order[o].driver]
<1>1. o \in Orders /\ row \in OrderRows /\ order[o] \in OrderRows
  BY WorkingType DEF SaveOrder, OrderTypeOK
<1>2. order' = [order EXCEPT ![o] = saved] /\ order \in [Orders -> OrderRows]
  BY DEF SaveOrder, OrderTypeOK
<1> HIDE DEF row, columns
<1>3. saved = next
  OBVIOUS
<1>4. /\ next \in OrderRows
      /\ next.status = IF "status" \in columns THEN row.status ELSE order[o].status
      /\ next.driver = IF "driver" \in columns THEN row.driver ELSE order[o].driver
  BY <1>1 DEF OrderRows
<1> HIDE DEF saved, next
<1>5. /\ order'[o] = next
      /\ \A p \in Orders : p # o => order'[p] = order[p]
      /\ order' \in [Orders -> OrderRows]
  BY <1>1, <1>2, <1>3, <1>4
<1>6. QED  BY <1>1, <1>4, <1>5 DEF row, columns

LEMMA WorkSet ==
  ASSUME OrderTypeOK, NEW w \in Workers, NEW item \in Works \cup {NoWork},
         work' = [work EXCEPT ![w] = item]
  PROVE  /\ work' \in [Workers -> Works \cup {NoWork}]
         /\ work'[w] = item
         /\ \A v \in Workers : v # w => work'[v] = work[v]
  BY DEF OrderTypeOK

(* The item of work after findById, and after the SELECT of save().        *)
LEMMA LoadedItem ==
  ASSUME NEW o \in Orders, NEW event \in SUBSET Events, NEW row \in OrderRows
  PROVE  [phase |-> "loaded", order |-> o, event |-> event, row |-> row,
          columns |-> {}] \in Works
  BY DEF Works

Differing(w) == {c \in {"status", "driver"} : order[work[w].order][c] # work[w].row[c]}

DiffedItem(w) ==
  [phase |-> "diffed", order |-> work[w].order, event |-> work[w].event,
   row |-> work[w].row, columns |-> Differing(w)]

LEMMA DiffedRecord ==
  ASSUME NEW item \in Works, NEW columns
  PROVE  [item EXCEPT !.phase = "diffed", !.columns = columns]
           = [phase |-> "diffed", order |-> item.order, event |-> item.event,
              row |-> item.row, columns |-> columns]
<1> DEFINE half == [phase |-> "diffed", order |-> item.order, event |-> item.event,
                    row |-> item.row, columns |-> item.columns]
<1>1. [item EXCEPT !.phase = "diffed"] = half
  BY DEF Works
<1>2. [[item EXCEPT !.phase = "diffed"] EXCEPT !.columns = columns]
        = [item EXCEPT !.phase = "diffed", !.columns = columns]
  OBVIOUS
<1>3. [half EXCEPT !.columns = columns]
        = [phase |-> "diffed", order |-> item.order, event |-> item.event,
           row |-> item.row, columns |-> columns]
  OBVIOUS
<1>4. QED  BY <1>1, <1>2, <1>3

LEMMA DiffSets ==
  ASSUME OrderTypeOK, NEW w \in Workers, DiffOrder(w)
  PROVE  /\ DiffedItem(w) \in Works
         /\ work' = [work EXCEPT ![w] = DiffedItem(w)]
<1>1. work[w] \in Works
  BY WorkingType DEF DiffOrder
<1>2. Differing(w) \in SUBSET {"status", "driver"}
  BY DEF Differing
<1>3. work' = [work EXCEPT ![w] = [work[w] EXCEPT !.phase = "diffed", !.columns = Differing(w)]]
  BY DEF DiffOrder, OrderTypeOK, Differing
<1> HIDE DEF Differing
<1>4. [work[w] EXCEPT !.phase = "diffed", !.columns = Differing(w)] = DiffedItem(w)
  BY <1>1, DiffedRecord DEF DiffedItem
<1>5. /\ work[w].order \in Orders /\ work[w].event \in SUBSET Events
      /\ work[w].row \in OrderRows
  BY <1>1 DEF Works
<1>6. DiffedItem(w) \in Works
  BY <1>2, <1>5 DEF Works, DiffedItem
<1>7. QED  BY <1>3, <1>4, <1>6, Zenon

LEMMA OrderNextType ==
  ASSUME BusTypeOK, OrderTypeOK, OrderNext
  PROVE  BusTypeOK' /\ OrderTypeOK'
<1>1. ASSUME NEW o \in Orders, CreateOrder(o)
      PROVE  BusTypeOK' /\ OrderTypeOK'
  <2>1. NewEvent(OrderReady, o, NoDriver) \in Events
    BY NewEventType DEF EventTypes, MaybeDriver
  <2>2. QED  BY <1>1, <2>1
             DEF CreateOrder, Publish, BusTypeOK, OrderTypeOK, OrderRows, OrderStatuses
<1>2. ASSUME NEW w \in Workers, NEW m \in net, LoadForEvent(w, m)
      PROVE  BusTypeOK' /\ OrderTypeOK'
  <2>1. m \in Events /\ m.order \in Orders /\ order[m.order] \in OrderRows
    BY DEF BusTypeOK, Events, OrderTypeOK
  <2>2. [phase |-> "loaded", order |-> m.order, event |-> {m},
         row |-> AfterEvent(m, order[m.order]), columns |-> {}] \in Works
    BY <2>1, AfterEventType, LoadedItem
  <2>3. QED  BY <1>2, <2>2, WorkSet DEF LoadForEvent, BusTypeOK, OrderTypeOK
<1>3. ASSUME NEW w \in Workers, NEW m \in net, RefuseEvent(w, m)
      PROVE  BusTypeOK' /\ OrderTypeOK'
  <2>1. m \in Events
    BY DEF BusTypeOK
  <2>2. QED  BY <1>3, <2>1, RejectedType DEF RefuseEvent, orderVars, OrderTypeOK
<1>4. ASSUME NEW w \in Workers, NEW o \in Cancellable, LoadForCancel(w, o)
      PROVE  BusTypeOK' /\ OrderTypeOK'
  <2>1. o \in Orders /\ [order[o] EXCEPT !.status = "CANCELLED"] \in OrderRows
    BY OrderAssumption DEF OrderAssumption, OrderTypeOK, OrderRows, OrderStatuses
  <2>2. [phase |-> "loaded", order |-> o, event |-> {},
         row |-> [order[o] EXCEPT !.status = "CANCELLED"], columns |-> {}] \in Works
    BY <2>1, LoadedItem
  <2>3. QED  BY <1>4, <2>2, WorkSet DEF LoadForCancel, BusTypeOK, OrderTypeOK
<1>5. ASSUME NEW w \in Workers, DiffOrder(w)
      PROVE  BusTypeOK' /\ OrderTypeOK'
  BY <1>5, DiffSets, WorkSet DEF DiffOrder, BusTypeOK, OrderTypeOK
<1>6. ASSUME NEW w \in Workers, SaveOrder(w)
      PROVE  BusTypeOK' /\ OrderTypeOK'
  <2>1. BusTypeOK'
    BY <1>6, WorkingType, HandledType DEF SaveOrder, busVars, BusTypeOK
  <2>2. order' \in [Orders -> OrderRows]
    BY <1>6, SavedRow
  <2>3. overtaken' \subseteq Workers /\ overwritten' \subseteq Orders
    BY <1>6, WorkingType DEF SaveOrder, RecordSave, OrderTypeOK
  <2>4. QED  BY <1>6, <2>1, <2>2, <2>3, WorkSet DEF SaveOrder, OrderTypeOK
<1>7. ASSUME NEW w \in Workers, AbandonWork(w)
      PROVE  BusTypeOK' /\ OrderTypeOK'
  <2>1. BusTypeOK'
    BY <1>7, WorkingType, RejectedType DEF AbandonWork, Publish, BusTypeOK
  <2>2. QED  BY <1>7, <2>1, WorkSet DEF AbandonWork, OrderTypeOK
<1>8. QED  BY <1>1, <1>2, <1>3, <1>4, <1>5, <1>6, <1>7 DEF OrderNext

LEMMA SagaInitType == Init => SagaTypeOK
<1>1. DispatchInit => DispatchTypeOK
  BY DispatchAssumption
  DEF DispatchInit, DispatchTypeOK, NoDispatch, DispatchStatuses, MaybeDriver, DispatchAssumption
<1>2. OrderInit => OrderTypeOK
  BY DEF OrderInit, OrderTypeOK, NoOrder, OrderRows, OrderStatuses, MaybeDriver
<1>3. QED  BY <1>1, <1>2, DriverInitType DEF Init, SagaTypeOK

LEMMA SagaNextType == SagaTypeOK /\ [Next]_vars => SagaTypeOK'
<1> SUFFICES ASSUME SagaTypeOK, [Next]_vars PROVE SagaTypeOK'
  OBVIOUS
<1> USE DEF SagaTypeOK
<1>1. UNCHANGED driverVars => DriverTypeOK'
  BY DEF driverVars, DriverTypeOK
<1>2. UNCHANGED dispatchVars => DispatchTypeOK'
  BY DEF dispatchVars, DispatchTypeOK
<1>3. UNCHANGED orderVars => OrderTypeOK'
  BY DEF orderVars, OrderTypeOK
<1>4. CASE DriverNext /\ UNCHANGED <<dispatchVars, orderVars>>
  BY <1>2, <1>3, <1>4, DriverNextType
<1>5. CASE DispatchNext /\ UNCHANGED <<driverVars, orderVars>>
  BY <1>1, <1>3, <1>5, DispatchNextType
<1>6. CASE OrderNext /\ UNCHANGED <<driverVars, dispatchVars>>
  BY <1>1, <1>2, <1>6, OrderNextType
<1>7. CASE UNCHANGED vars
  BY <1>1, <1>2, <1>3, <1>7 DEF vars, BusTypeOK
<1>8. QED  BY <1>4, <1>5, <1>6, <1>7 DEF Next

(* Events, tables and work in progress keep their types in the saga.       *)
THEOREM SagaTypes == Spec => []SagaTypeOK
  BY SagaInitType, SagaNextType, PTL DEF Spec

-------------------------------------------------------------------------------
(* The inductive invariant: what the events that are known to anybody say  *)
(* of their order.  They are never taken back, so it has to stay true      *)
(* however late an event or a copy of it is handled.                       *)

(* The search or the assignment has come to an end.                        *)
Closing == {"FAILED", "COMPENSATING", "CANCELLED"}

(* A driver was chosen for the order.                                      *)
Decided == {"ASSIGNED", "COMPENSATING", "CANCELLED"}

TrueEvents ==
  {m \in Events :
     LET now == dispatch[m.order].status
         row == reservation[m.order]
     IN /\ order[m.order].status # "NONE"
        /\ m.type = DriverReserved => row.status # "NONE" /\ row.driver = m.driver
        /\ m.type = ReleaseRequested => now \in Closing /\ row.status # "NONE"
        /\ m.type = DriverReleased => now \in Closing /\ row.status = "RELEASED"
        /\ m.type = DispatchAssigned =>
             now \in Decided /\ dispatch[m.order].driver = m.driver
        /\ m.type = DispatchCancelled => now = "CANCELLED"}

(* The events the bus, the handlers in progress and the use cases in       *)
(* progress know of; a release is only begun on request.                   *)
BusTrue == net \subseteq TrueEvents

HandlersTrue ==
  \A o \in Orders : starting[o] # NotStarting => starting[o] \in TrueEvents

(* What the transaction t of an order has to be.                           *)
TxnOf(o) ==
  {t \in Txns : /\ t.event \in TrueEvents
                /\ t.event.order = o
                /\ t.phase \in {"waiting", "releasing"} => t.event.type = ReleaseRequested}

TxnsTrue == \A o \in Orders : txn[o] # NoTxn => txn[o] \in TxnOf(o)

WorkTrue ==
  \A w \in Workers : work[w] # NoWork =>
    work[w].event \subseteq TrueEvents /\ work[w].row.status # "NONE"

TablesAgree ==
  \A o \in Orders :
    /\ dispatch[o].status # "NONE" => order[o].status # "NONE"
    /\ reservation[o].status = "RELEASED" => dispatch[o].status \in Closing

SagaInv ==
  /\ BusTrue
  /\ HandlersTrue
  /\ TxnsTrue
  /\ WorkTrue
  /\ TablesAgree
  /\ DispatchMatchesReservation

(* What a step may do to the rows of an order.                             *)
Later ==
  \A o \in Orders :
    /\ order[o].status # "NONE" => order'[o].status # "NONE"
    /\ dispatch[o].status \in Closing => dispatch'[o].status \in Closing
    /\ dispatch[o].status \in Decided =>
         dispatch'[o].status \in Decided /\ dispatch'[o].driver = dispatch[o].driver
    /\ dispatch[o].status = "CANCELLED" => dispatch'[o].status = "CANCELLED"
    /\ reservation[o].status # "NONE" =>
         reservation'[o].status # "NONE" /\ reservation'[o].driver = reservation[o].driver
    /\ reservation[o].status = "RELEASED" => reservation'[o].status = "RELEASED"

(* What an event says stays true.                                          *)
LEMMA TruthStays ==
  ASSUME Later
  PROVE  TrueEvents \subseteq TrueEvents'
<1> SUFFICES ASSUME NEW m \in TrueEvents PROVE m \in TrueEvents'
  OBVIOUS
<1>1. m \in Events /\ m.order \in Orders
  BY DEF TrueEvents, Events
<1>2. QED  BY <1>1 DEF TrueEvents, Later

LEMMA HandledTrue ==
  ASSUME NEW true, net \subseteq true, NEW out \in SUBSET true, NEW m, Handled(m, out)
  PROVE  net' \subseteq true
  BY DEF Handled, Settled, Unsettled

LEMMA RejectedTrue ==
  ASSUME BusTrue, NEW m \in TrueEvents, Rejected(m)
  PROVE  net' \subseteq TrueEvents
<1> DEFINE copy == [m EXCEPT !.tries = @ + 1]
<1>1. ASSUME m.tries < MaxRetries
      PROVE  copy \in TrueEvents
  <2>1. copy \in Events
    BY <1>1, BusAssumption DEF TrueEvents, Events, BusAssumption
  <2>2. /\ copy.type = m.type /\ copy.order = m.order /\ copy.driver = m.driver
    BY DEF TrueEvents, Events
  <2> HIDE DEF copy
  <2>3. QED  BY <2>1, <2>2 DEF TrueEvents
<1>2. QED  BY <1>1 DEF Rejected, BusTrue

LEMMA TxnSet ==
  ASSUME DriverTypeOK, TxnsTrue, TrueEvents \subseteq TrueEvents',
         NEW o \in Orders, NEW t \in TxnOf(o) \cup {NoTxn},
         txn' = [txn EXCEPT ![o] = t]
  PROVE  TxnsTrue'
<1> SUFFICES ASSUME NEW p \in Orders, txn'[p] # NoTxn
             PROVE  /\ txn'[p] \in Txns
                    /\ txn'[p].event \in TrueEvents'
                    /\ txn'[p].event.order = p
                    /\ txn'[p].phase \in {"waiting", "releasing"}
                         => txn'[p].event.type = ReleaseRequested
  BY DEF TxnsTrue, TxnOf
<1>1. txn'[p] = IF p = o THEN t ELSE txn[p]
  BY DEF DriverTypeOK
<1>2. txn'[p] \in TxnOf(p)
  BY <1>1 DEF TxnsTrue
<1>3. QED  BY <1>2 DEF TxnOf

LEMMA TxnsStay ==
  ASSUME TxnsTrue, TrueEvents \subseteq TrueEvents', UNCHANGED txn
  PROVE  TxnsTrue'
  BY DEF TxnsTrue, TxnOf

LEMMA HandlersStay ==
  ASSUME HandlersTrue, TrueEvents \subseteq TrueEvents', UNCHANGED starting
  PROVE  HandlersTrue'
  BY DEF HandlersTrue

LEMMA WorkStays ==
  ASSUME WorkTrue, TrueEvents \subseteq TrueEvents', UNCHANGED work
  PROVE  WorkTrue'
  BY DEF WorkTrue

-------------------------------------------------------------------------------
(* The steps of the driver service.                                        *)

LEMMA DriverLater ==
  ASSUME SagaTypeOK, DriverInv, DriverNext, UNCHANGED <<dispatchVars, orderVars>>
  PROVE  Later
<1> SUFFICES ASSUME NEW o \in Orders
             PROVE  /\ reservation[o].status # "NONE" =>
                         /\ reservation'[o].status # "NONE"
                         /\ reservation'[o].driver = reservation[o].driver
                    /\ reservation[o].status = "RELEASED" => reservation'[o].status = "RELEASED"
  BY DEF Later, dispatchVars, orderVars
<1>1. reservation[o] \in [status : {"NONE", "ACTIVE", "RELEASED"}, driver : MaybeDriver]
  BY DEF SagaTypeOK, DriverTypeOK
<1>2. QED  BY <1>1, DriverNextForward DEF SagaTypeOK

(* The fields of the reservation a decided dispatch relies on.             *)
LEMMA DecidedIsReserved ==
  ASSUME DispatchMatchesReservation, NEW o \in Orders, dispatch[o].status \in Decided
  PROVE  /\ reservation[o].status \in {"ACTIVE", "RELEASED"}
         /\ reservation[o].driver = dispatch[o].driver
<1> DEFINE held == [status |-> "ACTIVE", driver |-> dispatch[o].driver]
           free == [status |-> "RELEASED", driver |-> dispatch[o].driver]
<1>1. reservation[o] = held \/ reservation[o] = free
  BY DEF DispatchMatchesReservation, Decided
<1>2. CASE reservation[o] = held
  BY <1>2
<1>3. CASE reservation[o] = free
  BY <1>3
<1>4. QED  BY <1>1, <1>2, <1>3

(* Dispatch relies on a reservation only after the driver service made it, *)
(* and a release is only carried out for a dispatch that asked for it.     *)
LEMMA DriverTables ==
  ASSUME SagaTypeOK, DriverInv, SagaInv, DriverNext, UNCHANGED <<dispatchVars, orderVars>>
  PROVE  TablesAgree' /\ DispatchMatchesReservation'
<1>1. /\ reservation \in [Orders -> [status : {"NONE", "ACTIVE", "RELEASED"},
                                     driver : MaybeDriver]]
      /\ UNCHANGED <<dispatch, order>>
  BY DEF SagaTypeOK, DriverTypeOK, dispatchVars, orderVars
<1>2. TablesAgree /\ DispatchMatchesReservation
  BY DEF SagaInv
<1>3. CASE UNCHANGED reservation
  BY <1>1, <1>2, <1>3 DEF TablesAgree, DispatchMatchesReservation
<1>4. ASSUME NEW o \in Orders, CommitReserve(o)
      PROVE  TablesAgree' /\ DispatchMatchesReservation'
  <2>1. /\ reservation[o].status = "NONE"
        /\ reservation' = [reservation EXCEPT ![o] =
                             [status |-> "ACTIVE", driver |-> txn[o].driver]]
    BY <1>4 DEF CommitReserve, Insertable
  <2>2. TablesAgree'
    BY <1>1, <1>2, <2>1 DEF TablesAgree
  <2>3. dispatch[o].status \notin Decided
    BY <1>2, <2>1, DecidedIsReserved
  <2>4. DispatchMatchesReservation'
    BY <1>1, <1>2, <2>1, <2>3 DEF DispatchMatchesReservation, Decided
  <2>5. QED  BY <2>2, <2>4
<1>5. ASSUME NEW o \in Orders, CommitRelease(o)
      PROVE  TablesAgree' /\ DispatchMatchesReservation'
  <2>1. /\ txn[o].phase = "releasing" /\ txn[o] # NoTxn
        /\ reservation'[o] = [status |-> "RELEASED", driver |-> reservation[o].driver]
        /\ \A p \in Orders : p # o => reservation'[p] = reservation[p]
    BY <1>1, <1>5 DEF CommitRelease, NoTxn
  <2>2. txn[o].event \in TrueEvents /\ txn[o].event.order = o
          /\ txn[o].event.type = ReleaseRequested
    BY <2>1 DEF SagaInv, TxnsTrue, TxnOf
  <2>3. dispatch[o].status \in Closing
    BY <2>2 DEF TrueEvents
  <2>4. reservation[o] = [status |-> "ACTIVE", driver |-> txn[o].driver]
    BY <2>1 DEF DriverInv, OwnsItsRow
  <2>5. TablesAgree'
    BY <1>1, <1>2, <2>1, <2>3 DEF TablesAgree
  <2>6. DispatchMatchesReservation'
    BY <1>1, <1>2, <2>1, <2>3, <2>4 DEF DispatchMatchesReservation, Closing
  <2>7. QED  BY <2>5, <2>6
<1>6. QED  BY <1>3, <1>4, <1>5, DriverRowWriters DEF SaveAvailability

(* An event for an order is true if the order exists and the event says    *)
(* nothing else.                                                           *)
LEMMA PlainTrue ==
  ASSUME NEW m \in Events, order[m.order].status # "NONE",
         m.type \notin {DriverReserved, ReleaseRequested, DriverReleased,
                        DispatchAssigned, DispatchCancelled}
  PROVE  m \in TrueEvents
  BY DEF TrueEvents

LEMMA NewEventFields ==
  ASSUME NEW type \in EventTypes, NEW o \in Orders, NEW d \in MaybeDriver
  PROVE  /\ NewEvent(type, o, d) \in Events
         /\ NewEvent(type, o, d).type = type
         /\ NewEvent(type, o, d).order = o
         /\ NewEvent(type, o, d).driver = d
<1>1. NewEvent(type, o, d) \in Events
  BY NewEventType
<1>2. QED  BY <1>1 DEF NewEvent

LEMMA DriverRequestTrue ==
  ASSUME SagaTypeOK, DriverInv, SagaInv, UNCHANGED <<dispatchVars, orderVars>>,
         TrueEvents \subseteq TrueEvents',
         NEW m \in net, HandleReservationRequested(m)
  PROVE  BusTrue' /\ TxnsTrue'
<1>1. /\ m \in Events /\ m \in TrueEvents /\ m.order \in Orders /\ m.list \in Lists
      /\ NoDriver \in MaybeDriver /\ net \subseteq TrueEvents'
  BY DEF SagaTypeOK, BusTypeOK, SagaInv, BusTrue, Events, MaybeDriver
<1>2. order[m.order].status # "NONE"
  BY <1>1 DEF TrueEvents
<1>3. NewEvent(ReservationFailed, m.order, NoDriver) \in TrueEvents
  <2> DEFINE e == NewEvent(ReservationFailed, m.order, NoDriver)
  <2>1. e \in Events /\ e.type = ReservationFailed /\ e.order = m.order
    BY <1>1, NewEventFields DEF EventTypes
  <2> HIDE DEF e
  <2>2. e \in TrueEvents
    BY <1>2, <2>1, PlainTrue
       DEF DriverReserved, ReleaseRequested, DriverReleased, DispatchAssigned,
           DispatchCancelled, ReservationFailed
  <2>3. QED  BY <2>2 DEF e
<1>4. CASE ReserveAgain(m)
  <2> DEFINE d == reservation[m.order].driver
             e == NewEvent(DriverReserved, m.order, d)
  <2>1. d \in MaybeDriver
    BY <1>1 DEF SagaTypeOK, DriverTypeOK
  <2>2. e \in Events /\ e.type = DriverReserved /\ e.order = m.order /\ e.driver = d
    BY <1>1, <2>1, NewEventFields DEF EventTypes
  <2>3. reservation[m.order].status = "ACTIVE" /\ Handled(m, {e}) /\ UNCHANGED txn
    BY <1>4 DEF ReserveAgain, driverVars
  <2> HIDE DEF e
  <2>4. e \in TrueEvents
    BY <1>2, <2>2, <2>3
       DEF TrueEvents, DriverReserved, ReleaseRequested, DriverReleased,
           DispatchAssigned, DispatchCancelled
  <2>5. QED  BY <1>1, <2>3, <2>4, HandledTrue, TxnsStay DEF BusTrue, SagaInv
<1>5. CASE ReserveFromNone(m)
  BY <1>1, <1>3, <1>5, HandledTrue, TxnsStay DEF ReserveFromNone, driverVars, BusTrue, SagaInv
<1>6. CASE BeginScan(m)
  <2> DEFINE t == [NoTxn EXCEPT !.phase = "scan", !.event = m, !.left = m.list]
  <2>1. t \in Txns /\ t.phase = "scan" /\ t.event = m
    BY <1>1, <1>6 DEF BeginScan, Lists, NoTxn, Txns, MaybeDriver
  <2>2. txn' = [txn EXCEPT ![m.order] = t] /\ UNCHANGED net
    BY <1>6 DEF BeginScan
  <2> HIDE DEF t
  <2>3. t \in TxnOf(m.order)
    BY <1>1, <2>1 DEF TxnOf
  <2>4. QED  BY <1>1, <2>2, <2>3, TxnSet DEF SagaTypeOK, SagaInv, BusTrue
<1>7. CASE ScanAll(m)
  <2> DEFINE rows == {d \in Drivers : Lockable(d)}
  <2>1. CASE UNCHANGED txn /\ Handled(m, {NewEvent(ReservationFailed, m.order, NoDriver)})
    BY <1>1, <1>3, <2>1, HandledTrue, TxnsStay DEF BusTrue, SagaInv
  <2>2. ASSUME NEW d \in rows, UNCHANGED busVars,
               txn' = [txn EXCEPT ![m.order] =
                        [NoTxn EXCEPT !.phase = "reserving", !.event = m,
                                      !.locked = rows, !.driver = d]]
        PROVE  BusTrue' /\ TxnsTrue'
    <3> DEFINE t == [NoTxn EXCEPT !.phase = "reserving", !.event = m,
                                  !.locked = rows, !.driver = d]
    <3>1. d \in MaybeDriver /\ rows \in SUBSET MaybeDriver
      BY DEF MaybeDriver
    <3> HIDE DEF rows
    <3>2. t \in Txns /\ t.phase = "reserving" /\ t.event = m
      BY <1>1, <3>1, EmptyList DEF NoTxn, Txns
    <3>3. txn' = [txn EXCEPT ![m.order] = t] /\ UNCHANGED net
      BY <2>2 DEF busVars
    <3> HIDE DEF t
    <3>4. t \in TxnOf(m.order)
      BY <1>1, <3>2 DEF TxnOf
    <3>5. QED  BY <1>1, <3>3, <3>4, TxnSet DEF SagaTypeOK, SagaInv, BusTrue
  <2>3. QED  BY <1>7, <2>1, <2>2 DEF ScanAll
<1>8. QED  BY <1>4, <1>5, <1>6, <1>7 DEF HandleReservationRequested

LEMMA DriverReleaseTrue ==
  ASSUME SagaTypeOK, DriverInv, SagaInv, UNCHANGED <<dispatchVars, orderVars>>,
         TrueEvents \subseteq TrueEvents',
         NEW m \in net, HandleReleaseRequested(m)
  PROVE  BusTrue' /\ TxnsTrue'
<1>1. /\ m \in Events /\ m \in TrueEvents /\ m.order \in Orders /\ m.driver \in MaybeDriver
      /\ net \subseteq TrueEvents'
  BY DEF SagaTypeOK, BusTypeOK, SagaInv, BusTrue, Events
<1>2. reservation[m.order] \in [status : {"NONE", "ACTIVE", "RELEASED"}, driver : MaybeDriver]
  BY <1>1 DEF SagaTypeOK, DriverTypeOK
<1>3. CASE ReleaseAgain(m)
  <2>1. PICK d \in MaybeDriver : Handled(m, {NewEvent(DriverReleased, m.order, d)})
    BY <1>1, <1>2, <1>3 DEF ReleaseAgain
  <2> DEFINE e == NewEvent(DriverReleased, m.order, d)
  <2>2. e \in Events /\ e.type = DriverReleased /\ e.order = m.order
    BY <1>1, NewEventFields DEF EventTypes
  <2>3. /\ order[m.order].status # "NONE"
        /\ dispatch[m.order].status \in Closing
        /\ reservation[m.order].status = "RELEASED"
    BY <1>1, <1>2, <1>3 DEF ReleaseAgain, TrueEvents
  <2> HIDE DEF e
  <2>4. e \in TrueEvents
    BY <2>2, <2>3
       DEF TrueEvents, DriverReserved, ReleaseRequested, DriverReleased,
           DispatchAssigned, DispatchCancelled
  <2>5. Handled(m, {e}) /\ UNCHANGED txn
    BY <1>3, <2>1 DEF ReleaseAgain, driverVars, e
  <2>6. QED  BY <1>1, <2>4, <2>5, HandledTrue, TxnsStay DEF BusTrue, SagaInv
<1>4. CASE BeginRelease(m)
  <2> DEFINE t == [NoTxn EXCEPT !.phase = "waiting", !.event = m,
                                !.driver = reservation[m.order].driver]
  <2>1. t \in Txns /\ t.event = m /\ m.type = ReleaseRequested
    BY <1>1, <1>2, <1>4, EmptyList DEF BeginRelease, NoTxn, Txns
  <2>2. txn' = [txn EXCEPT ![m.order] = t] /\ UNCHANGED net
    BY <1>4 DEF BeginRelease
  <2> HIDE DEF t
  <2>3. t \in TxnOf(m.order)
    BY <1>1, <2>1 DEF TxnOf
  <2>4. QED  BY <1>1, <2>2, <2>3, TxnSet DEF SagaTypeOK, SagaInv, BusTrue
<1>5. QED  BY <1>3, <1>4 DEF HandleReleaseRequested

LEMMA FinishTrue ==
  ASSUME DriverTypeOK, TxnsTrue, TrueEvents \subseteq TrueEvents',
         NEW o \in Orders, Finish(o)
  PROVE  TxnsTrue'
<1>1. NoTxn \in TxnOf(o) \cup {NoTxn}
  OBVIOUS
<1>2. QED  BY <1>1, TxnSet DEF Finish

LEMMA DriverTxnTrue ==
  ASSUME SagaTypeOK, DriverInv, SagaInv, UNCHANGED <<dispatchVars, orderVars>>,
         TrueEvents \subseteq TrueEvents',
         NEW o \in Orders, TxnStep(o) \/ Rollback(o)
  PROVE  BusTrue' /\ TxnsTrue'
<1>1. txn[o] # NoTxn
  BY DEF TxnStep, Rollback, LockCandidate, SkipCandidate, GiveUp, CommitReserve,
         ReserveConflict, LockForRelease, CommitRelease, NoTxn
<1>2. /\ txn[o] \in TxnOf(o) /\ txn[o] \in Txns /\ txn[o].driver \in MaybeDriver
      /\ txn[o].event \in TrueEvents /\ txn[o].event.order = o
      /\ order[o].status # "NONE" /\ NoDriver \in MaybeDriver
      /\ DriverTypeOK /\ TxnsTrue /\ BusTrue
  BY <1>1 DEF SagaInv, TxnsTrue, TxnOf, TrueEvents, Txns, SagaTypeOK, MaybeDriver
<1>3. UNCHANGED net => BusTrue'
  BY <1>2 DEF BusTrue
<1>4. CASE LockCandidate(o)
  <2> DEFINE d == Head(txn[o].left)
             t == [txn[o] EXCEPT !.phase = "reserving", !.left = <<>>,
                                 !.locked = {d}, !.driver = d]
  <2>1. d \in Drivers
    BY <1>2, <1>4 DEF LockCandidate, Txns
  <2> HIDE DEF d
  <2>2. t \in Txns /\ t.phase = "reserving" /\ t.event = txn[o].event
    BY <1>2, <2>1, EmptyList DEF Txns, MaybeDriver
  <2>3. txn' = [txn EXCEPT ![o] = t] /\ UNCHANGED net
    BY <1>4 DEF LockCandidate, d
  <2> HIDE DEF t
  <2>4. t \in TxnOf(o)
    BY <1>2, <2>2 DEF TxnOf
  <2>5. QED  BY <1>2, <1>3, <2>3, <2>4, TxnSet
<1>5. CASE SkipCandidate(o)
  <2> DEFINE t == [txn[o] EXCEPT !.left = Tail(txn[o].left)]
  <2>1. Tail(txn[o].left) \in Seq(Drivers)
    BY <1>2, <1>5 DEF SkipCandidate, Txns
  <2>2. t \in Txns /\ t.phase = "scan" /\ t.event = txn[o].event
    BY <1>2, <1>5, <2>1 DEF SkipCandidate, Txns
  <2>3. txn' = [txn EXCEPT ![o] = t] /\ UNCHANGED net
    BY <1>5 DEF SkipCandidate
  <2> HIDE DEF t
  <2>4. t \in TxnOf(o)
    BY <1>2, <2>2 DEF TxnOf
  <2>5. QED  BY <1>2, <1>3, <2>3, <2>4, TxnSet
<1>6. CASE LockForRelease(o)
  <2> DEFINE t == [txn[o] EXCEPT !.phase = "releasing", !.locked = {txn[o].driver}]
  <2>1. t \in Txns /\ t.event = txn[o].event
    BY <1>2 DEF Txns
  <2>2. txn' = [txn EXCEPT ![o] = t] /\ UNCHANGED net
    BY <1>2, <1>6 DEF LockForRelease, DriverTypeOK
  <2>3. txn[o].event.type = ReleaseRequested
    BY <1>2, <1>6 DEF LockForRelease, TxnOf
  <2> HIDE DEF t
  <2>4. t \in TxnOf(o)
    BY <1>2, <2>1, <2>3 DEF TxnOf
  <2>5. QED  BY <1>2, <1>3, <2>2, <2>4, TxnSet
<1>7. CASE GiveUp(o)
  <2> DEFINE e == NewEvent(ReservationFailed, o, NoDriver)
  <2>1. e \in Events /\ e.type = ReservationFailed /\ e.order = o
    BY <1>2, NewEventFields DEF EventTypes
  <2>2. Handled(txn[o].event, {e}) /\ Finish(o)
    BY <1>7 DEF GiveUp
  <2> HIDE DEF e
  <2>3. e \in TrueEvents
    BY <1>2, <2>1, PlainTrue
       DEF DriverReserved, ReleaseRequested, DriverReleased, DispatchAssigned,
           DispatchCancelled, ReservationFailed
  <2>4. net' \subseteq TrueEvents
    BY <1>2, <2>2, <2>3, HandledTrue DEF BusTrue
  <2>5. QED  BY <1>2, <2>2, <2>4, FinishTrue DEF BusTrue
<1>8. CASE CommitReserve(o)
  <2> DEFINE d == txn[o].driver
             e == NewEvent(DriverReserved, o, d)
  <2>1. e \in Events /\ e.type = DriverReserved /\ e.order = o /\ e.driver = d
    BY <1>2, NewEventFields DEF EventTypes
  <2>2. /\ Handled(txn[o].event, {e}) /\ Finish(o)
        /\ reservation'[o] = [status |-> "ACTIVE", driver |-> d]
    BY <1>2, <1>8 DEF CommitReserve, DriverTypeOK
  <2>3. order'[o].status # "NONE"
    BY <1>2 DEF orderVars
  <2> HIDE DEF e
  <2>4. e \in TrueEvents'
    BY <2>1, <2>2, <2>3
       DEF TrueEvents, DriverReserved, ReleaseRequested, DriverReleased,
           DispatchAssigned, DispatchCancelled
  <2>5. net \subseteq TrueEvents'
    BY <1>2 DEF BusTrue
  <2>6. net' \subseteq TrueEvents'
    BY <2>2, <2>4, <2>5, HandledTrue
  <2>7. QED  BY <1>2, <2>2, <2>6, FinishTrue DEF BusTrue
<1>9. CASE CommitRelease(o)
  <2> DEFINE e == NewEvent(DriverReleased, o, txn[o].driver)
  <2>1. e \in Events /\ e.type = DriverReleased /\ e.order = o
    BY <1>2, NewEventFields DEF EventTypes
  <2>2. /\ Handled(txn[o].event, {e}) /\ Finish(o)
        /\ reservation'[o].status = "RELEASED"
    BY <1>2, <1>9 DEF CommitRelease, DriverTypeOK
  <2>3. txn[o].event.type = ReleaseRequested
    BY <1>2, <1>9 DEF CommitRelease, TxnOf
  <2>4. dispatch'[o].status \in Closing /\ order'[o].status # "NONE"
    BY <1>2, <2>3 DEF TrueEvents, dispatchVars, orderVars
  <2> HIDE DEF e
  <2>5. e \in TrueEvents'
    BY <2>1, <2>2, <2>4
       DEF TrueEvents, DriverReserved, ReleaseRequested, DriverReleased,
           DispatchAssigned, DispatchCancelled
  <2>6. net \subseteq TrueEvents'
    BY <1>2 DEF BusTrue
  <2>7. net' \subseteq TrueEvents'
    BY <2>2, <2>5, <2>6, HandledTrue
  <2>8. QED  BY <1>2, <2>2, <2>7, FinishTrue DEF BusTrue
<1>10. CASE ReserveConflict(o) \/ Rollback(o)
  <2>1. Finish(o) /\ (UNCHANGED net \/ Rejected(txn[o].event))
    BY <1>10 DEF ReserveConflict, Rollback, busVars
  <2>2. net' \subseteq TrueEvents
    BY <1>2, <2>1, RejectedTrue DEF BusTrue
  <2>3. QED  BY <1>2, <2>1, <2>2, FinishTrue DEF BusTrue
<1>11. QED  BY <1>4, <1>5, <1>6, <1>7, <1>8, <1>9, <1>10 DEF TxnStep

LEMMA DriverStepInv ==
  ASSUME SagaTypeOK, DriverInv, SagaInv, DriverNext, UNCHANGED <<dispatchVars, orderVars>>
  PROVE  SagaInv'
<1>1. TrueEvents \subseteq TrueEvents'
  BY DriverLater, TruthStays
<1>2. BusTrue' /\ TxnsTrue'
  <2>1. ASSUME NEW r \in Requests, AvailabilityStep(r)
        PROVE  UNCHANGED <<net, txn>>
    BY <2>1 DEF AvailabilityStep, CheckAvailability, DiffAvailability, SaveAvailability,
                DropAvailability
  <2>2. UNCHANGED <<net, txn>> => BusTrue' /\ TxnsTrue'
    BY <1>1, TxnsStay DEF BusTrue, SagaInv
  <2>3. QED  BY <1>1, <2>1, <2>2, DriverRequestTrue, DriverReleaseTrue, DriverTxnTrue
             DEF DriverNext
<1>3. HandlersTrue' /\ WorkTrue'
  BY <1>1, HandlersStay, WorkStays DEF SagaInv, dispatchVars, orderVars
<1>4. QED  BY <1>2, <1>3, DriverTables DEF SagaInv

-------------------------------------------------------------------------------
(* The steps of the dispatch service.                                      *)

(* From one status to a later one.                                         *)
Forward(old, new) ==
  \/ old.status = "NONE" /\ new.status = "SEARCHING_DRIVER"
  \/ old.status = "SEARCHING_DRIVER" /\ new.status \in {"ASSIGNED", "FAILED"}
  \/ old.status = "ASSIGNED" /\ new.status = "COMPENSATING" /\ new.driver = old.driver
  \/ old.status = "COMPENSATING" /\ new.status = "CANCELLED" /\ new.driver = old.driver

LEMMA DispatchRowSet ==
  ASSUME SagaTypeOK, SagaInv, UNCHANGED <<reservation, order>>,
         NEW o \in Orders, NEW row,
         dispatch'[o] = row, \A p \in Orders : p # o => dispatch'[p] = dispatch[p],
         Forward(dispatch[o], row),
         order[o].status # "NONE",
         reservation[o].status = "RELEASED" => row.status \in Closing,
         row.status \in {"ASSIGNED", "COMPENSATING"} =>
           reservation[o] \in {[status |-> "ACTIVE", driver |-> row.driver],
                               [status |-> "RELEASED", driver |-> row.driver]},
         row.status = "CANCELLED" =>
           reservation[o] = [status |-> "RELEASED", driver |-> row.driver]
  PROVE  Later /\ TablesAgree' /\ DispatchMatchesReservation'
<1>1. Later
  BY DEF Later, Forward, Closing, Decided
<1>2. TablesAgree'
  BY DEF SagaInv, TablesAgree
<1>3. row.status = "ASSIGNED" =>
        reservation[o] = [status |-> "ACTIVE", driver |-> row.driver]
  BY DEF Closing
<1>4. DispatchMatchesReservation'
  BY <1>3 DEF SagaInv, DispatchMatchesReservation
<1>5. QED  BY <1>1, <1>2, <1>4

LEMMA DispatchRowsStay ==
  ASSUME SagaInv, UNCHANGED <<dispatch, reservation, order>>
  PROVE  Later /\ TablesAgree' /\ DispatchMatchesReservation'
  BY DEF Later, SagaInv, TablesAgree, DispatchMatchesReservation

(* A dispatch handler that settles its event and publishes only what is    *)
(* true afterwards.                                                        *)
LEMMA HandledStep ==
  ASSUME SagaInv, NEW m, NEW out \in SUBSET TrueEvents', Handled(m, out),
         UNCHANGED <<txn, work, starting>>,
         Later /\ TablesAgree' /\ DispatchMatchesReservation'
  PROVE  SagaInv'
<1>1. TrueEvents \subseteq TrueEvents'
  BY TruthStays
<1>2. net \subseteq TrueEvents'
  BY <1>1 DEF SagaInv, BusTrue
<1>3. BusTrue'
  BY <1>2, HandledTrue DEF BusTrue
<1>4. QED  BY <1>1, <1>3, TxnsStay, HandlersStay, WorkStays DEF SagaInv

LEMMA PublishedStep ==
  ASSUME SagaInv, NEW out \in SUBSET TrueEvents', Publish(out),
         UNCHANGED <<txn, work, starting>>,
         Later /\ TablesAgree' /\ DispatchMatchesReservation'
  PROVE  SagaInv'
<1>1. TrueEvents \subseteq TrueEvents'
  BY TruthStays
<1>2. BusTrue'
  BY <1>1 DEF SagaInv, BusTrue, Publish
<1>3. QED  BY <1>1, <1>2, TxnsStay, HandlersStay, WorkStays DEF SagaInv

LEMMA StartDispatchInv ==
  ASSUME SagaTypeOK, SagaInv, UNCHANGED <<driverVars, orderVars>>,
         NEW m \in net, NEW list \in CandidateLists, StartDispatch(m, list)
  PROVE  SagaInv'
<1> DEFINE o == m.order
           row == [status |-> "SEARCHING_DRIVER", driver |-> dispatch[o].driver]
           e == NewEvent(DispatchStarted, o, NoDriver)
           r == ReservationRequest(o, list)
<1>1. /\ m \in Events /\ m \in TrueEvents /\ o \in Orders /\ NoDriver \in MaybeDriver
      /\ net \subseteq TrueEvents
  BY DEF SagaTypeOK, BusTypeOK, SagaInv, BusTrue, Events, MaybeDriver
<1>2. order[o].status # "NONE" /\ UNCHANGED <<order, reservation, txn, work>>
  BY <1>1 DEF TrueEvents, orderVars, driverVars
<1>3. e \in Events /\ e.type = DispatchStarted /\ e.order = o
  BY <1>1, NewEventFields DEF EventTypes
<1>4. r \in Events /\ r.type = ReservationRequested /\ r.order = o
  <2>1. r \in Events
    BY <1>1, RequestType
  <2>2. QED  BY <2>1 DEF ReservationRequest, NewEvent
<1>5. /\ SetStatus(o, "SEARCHING_DRIVER") /\ dispatch[o].status = "NONE"
      /\ starting' = [starting EXCEPT ![o] = m]
      /\ Publish({e, r})
  BY DEF StartDispatch
<1> HIDE DEF e, r
<1>6. /\ dispatch'[o] = row
      /\ \A p \in Orders : p # o => dispatch'[p] = dispatch[p]
  BY <1>1, <1>5, SetStatusSets DEF SagaTypeOK, DispatchStatuses
<1>7. reservation[o].status # "RELEASED"
  BY <1>1, <1>5 DEF SagaInv, TablesAgree, Closing
<1>8. Forward(dispatch[o], row)
  BY <1>5 DEF Forward
<1>9. Later /\ TablesAgree' /\ DispatchMatchesReservation'
  BY <1>1, <1>2, <1>6, <1>7, <1>8, DispatchRowSet
<1>10. TrueEvents \subseteq TrueEvents'
  BY <1>9, TruthStays
<1> HIDE DEF o
<1>11. e \in TrueEvents /\ r \in TrueEvents
  BY <1>2, <1>3, <1>4, PlainTrue
     DEF DriverReserved, ReleaseRequested, DriverReleased, DispatchAssigned,
         DispatchCancelled, DispatchStarted, ReservationRequested
<1>12. BusTrue'
  BY <1>1, <1>5, <1>10, <1>11 DEF Publish, BusTrue
<1>13. HandlersTrue'
  BY <1>1, <1>5, <1>10 DEF SagaTypeOK, DispatchTypeOK, SagaInv, HandlersTrue
<1>14. QED  BY <1>2, <1>9, <1>10, <1>12, <1>13, TxnsStay, WorkStays DEF SagaInv

LEMMA AssignDriverInv ==
  ASSUME SagaTypeOK, SagaInv, UNCHANGED <<driverVars, orderVars>>,
         NEW m \in net, AssignDriver(m)
  PROVE  SagaInv'
<1> DEFINE o == m.order
           row == [status |-> "ASSIGNED", driver |-> m.driver]
           e == NewEvent(DispatchAssigned, o, m.driver)
<1>1. /\ m \in Events /\ m \in TrueEvents /\ o \in Orders /\ m.driver \in MaybeDriver
  BY DEF SagaTypeOK, BusTypeOK, SagaInv, BusTrue, Events
<1>2. order[o].status # "NONE" /\ UNCHANGED <<order, reservation, txn, work, starting>>
  BY <1>1 DEF AssignDriver, TrueEvents, orderVars, driverVars
<1>3. /\ dispatch[o].status = "SEARCHING_DRIVER" /\ m.type = DriverReserved
      /\ dispatch' = [dispatch EXCEPT ![o] = row]
      /\ Handled(m, {e})
  BY DEF AssignDriver
<1>4. /\ dispatch'[o] = row
      /\ \A p \in Orders : p # o => dispatch'[p] = dispatch[p]
  BY <1>1, <1>3 DEF SagaTypeOK, DispatchTypeOK
<1>5. reservation[o].status # "NONE" /\ reservation[o].driver = m.driver
  BY <1>1, <1>3 DEF TrueEvents
<1>6. reservation[o].status # "RELEASED"
  BY <1>1, <1>3 DEF SagaInv, TablesAgree, Closing
<1>7. reservation[o] = [status |-> "ACTIVE", driver |-> m.driver]
  <2>1. reservation[o] \in [status : {"NONE", "ACTIVE", "RELEASED"}, driver : MaybeDriver]
    BY <1>1 DEF SagaTypeOK, DriverTypeOK
  <2>2. QED  BY <1>5, <1>6, <2>1
<1>8. Forward(dispatch[o], row)
  BY <1>3 DEF Forward
<1>9. Later /\ TablesAgree' /\ DispatchMatchesReservation'
  BY <1>1, <1>2, <1>4, <1>6, <1>7, <1>8, DispatchRowSet
<1>10. e \in Events /\ e.type = DispatchAssigned /\ e.order = o /\ e.driver = m.driver
  BY <1>1, NewEventFields DEF EventTypes
<1> HIDE DEF e, o
<1>11. e \in TrueEvents'
  BY <1>2, <1>4, <1>10
     DEF TrueEvents, Decided, DriverReserved, ReleaseRequested, DriverReleased,
         DispatchAssigned, DispatchCancelled
<1>12. QED  BY <1>2, <1>3, <1>9, <1>11, HandledStep

LEMMA FailSearchInv ==
  ASSUME SagaTypeOK, SagaInv, UNCHANGED <<reservation, order, txn, work, starting>>,
         NEW o \in Orders, order[o].status # "NONE",
         dispatch[o].status = "SEARCHING_DRIVER", SetStatus(o, "FAILED")
  PROVE  /\ Later /\ TablesAgree' /\ DispatchMatchesReservation'
         /\ NewEvent(DispatchFailed, o, NoDriver) \in TrueEvents'
<1> DEFINE row == [status |-> "FAILED", driver |-> dispatch[o].driver]
           e == NewEvent(DispatchFailed, o, NoDriver)
<1>1. /\ dispatch'[o] = row
      /\ \A p \in Orders : p # o => dispatch'[p] = dispatch[p]
  BY SetStatusSets DEF SagaTypeOK, DispatchStatuses
<1>2. Forward(dispatch[o], row) /\ row.status \in Closing
  BY DEF Forward, Closing
<1>3. Later /\ TablesAgree' /\ DispatchMatchesReservation'
  BY <1>1, <1>2, DispatchRowSet
<1>4. e \in Events /\ e.type = DispatchFailed /\ e.order = o
  BY NewEventFields DEF EventTypes, MaybeDriver
<1> HIDE DEF e
<1>5. e \in TrueEvents
  BY <1>4, PlainTrue
     DEF DriverReserved, ReleaseRequested, DriverReleased, DispatchAssigned,
         DispatchCancelled, DispatchFailed
<1>6. QED  BY <1>3, <1>5, TruthStays DEF e

(* A driver reserved too late is released, because the search has failed.  *)
LEMMA LateAnswerInv ==
  ASSUME SagaTypeOK, SagaInv, UNCHANGED <<driverVars, orderVars>>,
         NEW m \in net, LateAnswer(m)
  PROVE  SagaInv'
<1> DEFINE e == NewEvent(ReleaseRequested, m.order, m.driver)
           late == /\ m.type = DriverReserved
                   /\ dispatch[m.order].status \in {"FAILED", "CANCELLED"}
<1>1. /\ m \in Events /\ m \in TrueEvents /\ m.order \in Orders /\ m.driver \in MaybeDriver
  BY DEF SagaTypeOK, BusTypeOK, SagaInv, BusTrue, Events
<1>2. /\ UNCHANGED <<dispatch, order, reservation, txn, work, starting>>
      /\ Handled(m, IF late THEN {e} ELSE {})
  BY DEF LateAnswer, dispatchVars, orderVars, driverVars
<1>3. Later /\ TablesAgree' /\ DispatchMatchesReservation'
  BY <1>2, DispatchRowsStay
<1>4. e \in Events /\ e.type = ReleaseRequested /\ e.order = m.order
  BY <1>1, NewEventFields DEF EventTypes
<1> HIDE DEF e
<1>5. late => e \in TrueEvents
  BY <1>1, <1>4
     DEF TrueEvents, Closing, DriverReserved, ReleaseRequested, DriverReleased,
         DispatchAssigned, DispatchCancelled
<1> HIDE DEF late
<1>6. (IF late THEN {e} ELSE {}) \in SUBSET TrueEvents'
  BY <1>3, <1>5, TruthStays
<1>7. QED  BY <1>2, <1>3, <1>6, HandledStep

LEMMA CompleteCompensationInv ==
  ASSUME SagaTypeOK, SagaInv, UNCHANGED <<driverVars, orderVars>>,
         NEW m \in net, CompleteCompensation(m)
  PROVE  SagaInv'
<1> DEFINE o == m.order
           row == [status |-> "CANCELLED", driver |-> dispatch[o].driver]
           e == NewEvent(DispatchCancelled, o, NoDriver)
<1>1. /\ m \in Events /\ m \in TrueEvents /\ o \in Orders /\ NoDriver \in MaybeDriver
  BY DEF SagaTypeOK, BusTypeOK, SagaInv, BusTrue, Events, MaybeDriver
<1>2. order[o].status # "NONE" /\ UNCHANGED <<order, reservation, txn, work, starting>>
  BY <1>1 DEF CompleteCompensation, TrueEvents, orderVars, driverVars
<1>3. CASE dispatch[o].status # "COMPENSATING"
  <2>1. Handled(m, {}) /\ UNCHANGED dispatch
    BY <1>3 DEF CompleteCompensation
  <2>2. Later /\ TablesAgree' /\ DispatchMatchesReservation'
    BY <1>2, <2>1, DispatchRowsStay
  <2>3. QED  BY <1>2, <2>1, <2>2, HandledStep
<1>4. CASE dispatch[o].status = "COMPENSATING"
  <2>1. SetStatus(o, "CANCELLED") /\ Handled(m, {e}) /\ m.type = DriverReleased
    BY <1>4 DEF CompleteCompensation
  <2>2. /\ dispatch'[o] = row
        /\ \A p \in Orders : p # o => dispatch'[p] = dispatch[p]
    BY <1>1, <2>1, SetStatusSets DEF SagaTypeOK, DispatchStatuses
  <2>3. reservation[o] = [status |-> "RELEASED", driver |-> dispatch[o].driver]
    <3>1. reservation[o].status = "RELEASED"
      BY <1>1, <2>1 DEF TrueEvents
    <3>2. reservation[o] \in {[status |-> "ACTIVE", driver |-> dispatch[o].driver],
                              [status |-> "RELEASED", driver |-> dispatch[o].driver]}
      BY <1>1, <1>4 DEF SagaInv, DispatchMatchesReservation
    <3>3. QED  BY <3>1, <3>2
  <2>4. Forward(dispatch[o], row) /\ row.status \in Closing
    BY <1>4 DEF Forward, Closing
  <2>5. Later /\ TablesAgree' /\ DispatchMatchesReservation'
    BY <1>1, <1>2, <2>2, <2>3, <2>4, DispatchRowSet
  <2>6. e \in Events /\ e.type = DispatchCancelled /\ e.order = o
    BY <1>1, NewEventFields DEF EventTypes
  <2> HIDE DEF e, o
  <2>7. e \in TrueEvents'
    BY <1>2, <2>2, <2>6
       DEF TrueEvents, DriverReserved, ReleaseRequested, DriverReleased,
           DispatchAssigned, DispatchCancelled
  <2>8. QED  BY <1>2, <2>1, <2>5, <2>7, HandledStep
<1>5. QED  BY <1>3, <1>4

LEMMA StartCompensationInv ==
  ASSUME SagaTypeOK, SagaInv, UNCHANGED <<driverVars, orderVars>>,
         NEW o \in Orders, StartCompensation(o)
  PROVE  SagaInv'
<1> DEFINE row == [status |-> "COMPENSATING", driver |-> dispatch[o].driver]
           e == NewEvent(ReleaseRequested, o, dispatch[o].driver)
<1>1. /\ dispatch[o].status = "ASSIGNED" /\ SetStatus(o, "COMPENSATING") /\ Publish({e})
      /\ UNCHANGED <<order, reservation, txn, work, starting>>
  BY DEF StartCompensation, orderVars, driverVars
<1>2. dispatch[o].driver \in MaybeDriver
  BY DEF SagaTypeOK, DispatchTypeOK
<1>3. order[o].status # "NONE"
  BY <1>1 DEF SagaInv, TablesAgree
<1>4. reservation[o] = [status |-> "ACTIVE", driver |-> dispatch[o].driver]
  BY <1>1 DEF SagaInv, DispatchMatchesReservation
<1>5. /\ dispatch'[o] = row
      /\ \A p \in Orders : p # o => dispatch'[p] = dispatch[p]
  BY <1>1, SetStatusSets DEF SagaTypeOK, DispatchStatuses
<1>6. Forward(dispatch[o], row)
  BY <1>1 DEF Forward
<1>7. Later /\ TablesAgree' /\ DispatchMatchesReservation'
  <2>1. /\ reservation[o].status # "RELEASED" /\ row.status = "COMPENSATING"
        /\ reservation[o] = [status |-> "ACTIVE", driver |-> row.driver]
    BY <1>4
  <2> HIDE DEF row
  <2>2. QED  BY <1>1, <1>3, <1>5, <1>6, <2>1, DispatchRowSet
<1>8. e \in Events /\ e.type = ReleaseRequested /\ e.order = o
  BY <1>2, NewEventFields DEF EventTypes
<1> HIDE DEF e
<1>9. e \in TrueEvents'
  BY <1>1, <1>3, <1>4, <1>5, <1>8
     DEF TrueEvents, Closing, DriverReserved, ReleaseRequested, DriverReleased,
         DispatchAssigned, DispatchCancelled
<1>10. QED  BY <1>1, <1>7, <1>9, PublishedStep

LEMMA StartingInv ==
  ASSUME SagaTypeOK, SagaInv, UNCHANGED <<driverVars, orderVars>>,
         NEW o \in Orders, ScheduleTimeout(o) \/ LoseTimeout(o)
  PROVE  SagaInv'
<1>1. /\ UNCHANGED <<dispatch, order, reservation, txn, work>>
      /\ starting[o] # NotStarting
      /\ starting' = [starting EXCEPT ![o] = NotStarting]
  BY DEF ScheduleTimeout, LoseTimeout, orderVars, driverVars
<1>2. starting[o] \in TrueEvents /\ net \subseteq TrueEvents
  BY <1>1 DEF SagaInv, HandlersTrue, BusTrue
<1>3. Later /\ TablesAgree' /\ DispatchMatchesReservation'
  BY <1>1, DispatchRowsStay
<1>4. TrueEvents \subseteq TrueEvents'
  BY <1>3, TruthStays
<1>5. net' \subseteq TrueEvents
  <2>1. CASE Handled(starting[o], {})
    BY <1>2, <2>1, HandledTrue
  <2>2. CASE Publish({starting[o]})
    BY <1>2, <2>2 DEF Publish
  <2>3. CASE Rejected(starting[o])
    BY <1>2, <2>3, RejectedTrue DEF SagaInv
  <2>4. QED  BY <2>1, <2>2, <2>3 DEF ScheduleTimeout, LoseTimeout
<1>6. BusTrue'
  BY <1>4, <1>5 DEF BusTrue
<1>7. HandlersTrue'
  BY <1>1, <1>4 DEF SagaTypeOK, DispatchTypeOK, SagaInv, HandlersTrue
<1>8. QED  BY <1>1, <1>3, <1>4, <1>6, <1>7, TxnsStay, WorkStays DEF SagaInv

(* Handlers that touch neither the dispatch nor its handler in progress.   *)
LEMMA DispatchIdleInv ==
  ASSUME SagaTypeOK, SagaInv, UNCHANGED <<driverVars, orderVars>>,
         UNCHANGED <<dispatch, starting>>,
         \/ \E m \in net : Handled(m, {}) \/ Rejected(m)
         \/ UNCHANGED net
  PROVE  SagaInv'
<1>1. UNCHANGED <<order, reservation, txn, work>>
  BY DEF orderVars, driverVars
<1>2. Later /\ TablesAgree' /\ DispatchMatchesReservation'
  BY <1>1, DispatchRowsStay
<1>3. TrueEvents \subseteq TrueEvents'
  BY <1>2, TruthStays
<1>4. net' \subseteq TrueEvents
  BY HandledTrue, RejectedTrue DEF SagaInv, BusTrue
<1>5. BusTrue'
  BY <1>3, <1>4 DEF BusTrue
<1>6. QED  BY <1>1, <1>2, <1>3, <1>5, TxnsStay, HandlersStay, WorkStays DEF SagaInv

LEMMA DispatchStepInv ==
  ASSUME SagaTypeOK, SagaInv, DispatchNext, UNCHANGED <<driverVars, orderVars>>
  PROVE  SagaInv'
<1>1. ASSUME NEW m \in net, DispatchHandles(m)
      PROVE  SagaInv'
  <2>1. m \in Events /\ m \in TrueEvents /\ m.order \in Orders /\ order[m.order].status # "NONE"
    BY DEF SagaTypeOK, BusTypeOK, SagaInv, BusTrue, Events, TrueEvents
  <2>2. CASE StartAgain(m) \/ PlanFails(m)
    BY <2>2, DispatchIdleInv DEF StartAgain, PlanFails, dispatchVars
  <2>3. CASE FailSearch(m)
    <3>1. /\ dispatch[m.order].status = "SEARCHING_DRIVER" /\ SetStatus(m.order, "FAILED")
          /\ Handled(m, {NewEvent(DispatchFailed, m.order, NoDriver)})
          /\ UNCHANGED <<reservation, order, txn, work, starting>>
      BY <2>3 DEF FailSearch, orderVars, driverVars
    <3>2. /\ Later /\ TablesAgree' /\ DispatchMatchesReservation'
          /\ NewEvent(DispatchFailed, m.order, NoDriver) \in TrueEvents'
      BY <2>1, <3>1, FailSearchInv
    <3>3. QED  BY <3>1, <3>2, HandledStep
  <2>4. QED  BY <1>1, <2>2, <2>3, StartDispatchInv, AssignDriverInv, LateAnswerInv,
                CompleteCompensationInv DEF DispatchHandles
<1>2. ASSUME NEW o \in Orders, Timeout(o)
      PROVE  SagaInv'
  <2>1. /\ dispatch[o].status = "SEARCHING_DRIVER" /\ SetStatus(o, "FAILED")
        /\ Publish({NewEvent(DispatchFailed, o, NoDriver)})
        /\ UNCHANGED <<reservation, order, txn, work, starting>>
    BY <1>2 DEF Timeout, orderVars, driverVars
  <2>2. order[o].status # "NONE"
    BY <2>1 DEF SagaInv, TablesAgree
  <2>3. /\ Later /\ TablesAgree' /\ DispatchMatchesReservation'
        /\ NewEvent(DispatchFailed, o, NoDriver) \in TrueEvents'
    BY <2>1, <2>2, FailSearchInv
  <2>4. QED  BY <2>1, <2>3, PublishedStep
<1>3. ASSUME NEW o \in Orders, TimeoutWithoutEffect(o) \/ RequestCancel(o) \/ AbandonCancel(o)
      PROVE  SagaInv'
  BY <1>3, DispatchIdleInv DEF TimeoutWithoutEffect, RequestCancel, AbandonCancel
<1>4. QED  BY <1>1, <1>2, <1>3, StartingInv, StartCompensationInv DEF DispatchNext

-------------------------------------------------------------------------------
(* The steps of the order service.                                         *)

(* The other services only care that an order, once created, exists.       *)
LEMMA OrderRowsGrow ==
  ASSUME SagaInv, UNCHANGED <<driverVars, dispatchVars>>,
         \A o \in Orders : order[o].status # "NONE" => order'[o].status # "NONE",
         net' \subseteq TrueEvents', WorkTrue'
  PROVE  SagaInv'
<1>1. UNCHANGED <<dispatch, reservation, txn, starting>>
  BY DEF dispatchVars, driverVars
<1>2. Later /\ TablesAgree' /\ DispatchMatchesReservation'
  BY <1>1 DEF Later, SagaInv, TablesAgree, DispatchMatchesReservation
<1>3. TrueEvents \subseteq TrueEvents'
  BY <1>2, TruthStays
<1>4. QED  BY <1>1, <1>2, <1>3, TxnsStay, HandlersStay DEF SagaInv, BusTrue

LEMMA RowsStayTrue ==
  ASSUME UNCHANGED <<dispatch, reservation>>,
         \A o \in Orders : order[o].status # "NONE" => order'[o].status # "NONE"
  PROVE  TrueEvents \subseteq TrueEvents'
<1>1. Later
  BY DEF Later
<1>2. QED  BY <1>1, TruthStays

LEMMA WorkSetTrue ==
  ASSUME OrderTypeOK, WorkTrue, TrueEvents \subseteq TrueEvents',
         NEW w \in Workers, NEW item \in Works \cup {NoWork},
         work' = [work EXCEPT ![w] = item],
         item # NoWork => item.event \subseteq TrueEvents /\ item.row.status # "NONE"
  PROVE  WorkTrue'
<1> SUFFICES ASSUME NEW v \in Workers, work'[v] # NoWork
             PROVE  work'[v].event \subseteq TrueEvents' /\ work'[v].row.status # "NONE"
  BY DEF WorkTrue
<1>1. work'[v] = IF v = w THEN item ELSE work[v]
  BY WorkSet
<1>2. QED  BY <1>1 DEF WorkTrue

LEMMA AfterEventExists ==
  ASSUME NEW m \in Events, NEW row \in OrderRows, row.status # "NONE"
  PROVE  AfterEvent(m, row).status # "NONE"
  BY DEF AfterEvent, OrderRows

LEMMA OrderStepInv ==
  ASSUME SagaTypeOK, SagaInv, OrderNext, UNCHANGED <<driverVars, dispatchVars>>
  PROVE  SagaInv'
<1>1. /\ BusTypeOK /\ OrderTypeOK /\ WorkTrue /\ BusTrue /\ net \subseteq TrueEvents
      /\ UNCHANGED <<dispatch, reservation>>
  BY DEF SagaTypeOK, SagaInv, BusTrue, dispatchVars, driverVars
<1>2. ASSUME NEW o \in Orders, CreateOrder(o)
      PROVE  SagaInv'
  <2> DEFINE e == NewEvent(OrderReady, o, NoDriver)
  <2>1. e \in Events /\ e.type = OrderReady /\ e.order = o
    BY NewEventFields DEF EventTypes, MaybeDriver
  <2>2. order'[o].status # "NONE" /\ Publish({e}) /\ UNCHANGED work
        /\ \A p \in Orders : p # o => order'[p] = order[p]
    BY <1>1, <1>2 DEF CreateOrder, OrderTypeOK, OrderRows
  <2> HIDE DEF e
  <2>3. TrueEvents \subseteq TrueEvents'
    BY <1>1, <2>2, RowsStayTrue
  <2>4. e \in TrueEvents'
    BY <2>1, <2>2
       DEF TrueEvents, OrderReady, DriverReserved, ReleaseRequested, DriverReleased,
           DispatchAssigned, DispatchCancelled
  <2>5. net' \subseteq TrueEvents'
    BY <1>1, <2>2, <2>3, <2>4 DEF Publish
  <2>6. WorkTrue'
    BY <1>1, <2>2, <2>3, WorkStays
  <2>7. QED  BY <2>2, <2>5, <2>6, OrderRowsGrow
<1>3. UNCHANGED order => TrueEvents \subseteq TrueEvents'
  BY <1>1, RowsStayTrue
<1>4. ASSUME UNCHANGED order, net' \subseteq TrueEvents, WorkTrue'
      PROVE  SagaInv'
  BY <1>3, <1>4, OrderRowsGrow
<1>5. ASSUME NEW w \in Workers, NEW m \in net, LoadForEvent(w, m)
      PROVE  SagaInv'
  <2> DEFINE item == [phase |-> "loaded", order |-> m.order, event |-> {m},
                      row |-> AfterEvent(m, order[m.order]), columns |-> {}]
  <2>1. /\ m \in Events /\ m \in TrueEvents /\ m.order \in Orders
        /\ order[m.order] \in OrderRows /\ order[m.order].status # "NONE"
    BY <1>1 DEF BusTypeOK, Events, OrderTypeOK, TrueEvents
  <2>2. item \in Works /\ item.row.status # "NONE" /\ item.event \subseteq TrueEvents
    BY <2>1, AfterEventType, AfterEventExists, LoadedItem
  <2>3. work' = [work EXCEPT ![w] = item] /\ UNCHANGED <<order, net>>
    BY <1>5 DEF LoadForEvent
  <2> HIDE DEF item
  <2>4. WorkTrue'
    BY <1>1, <1>3, <2>2, <2>3, WorkSetTrue
  <2>5. QED  BY <1>1, <1>4, <2>3, <2>4
<1>6. ASSUME NEW w \in Workers, NEW m \in net, RefuseEvent(w, m)
      PROVE  SagaInv'
  <2>1. Rejected(m) /\ m \in TrueEvents /\ UNCHANGED <<order, work>>
    BY <1>1, <1>6 DEF RefuseEvent, orderVars
  <2>2. net' \subseteq TrueEvents
    BY <1>1, <2>1, RejectedTrue
  <2>3. QED  BY <1>1, <1>3, <1>4, <2>1, <2>2, WorkStays
<1>7. ASSUME NEW w \in Workers, NEW o \in Cancellable, LoadForCancel(w, o)
      PROVE  SagaInv'
  <2> DEFINE row == [order[o] EXCEPT !.status = "CANCELLED"]
             item == [phase |-> "loaded", order |-> o, event |-> {}, row |-> row,
                      columns |-> {}]
  <2>1. o \in Orders /\ row \in OrderRows /\ row.status = "CANCELLED"
    BY <1>1, OrderAssumption DEF OrderAssumption, OrderTypeOK, OrderRows, OrderStatuses
  <2>2. work' = [work EXCEPT ![w] = item] /\ UNCHANGED <<order, net>>
    BY <1>7 DEF LoadForCancel
  <2> HIDE DEF row
  <2>3. item \in Works /\ item.row.status # "NONE" /\ item.event \subseteq TrueEvents
    BY <2>1, LoadedItem
  <2> HIDE DEF item
  <2>4. WorkTrue'
    BY <1>1, <1>3, <2>2, <2>3, WorkSetTrue
  <2>5. QED  BY <1>1, <1>4, <2>2, <2>4
<1>8. ASSUME NEW w \in Workers, DiffOrder(w)
      PROVE  SagaInv'
  <2>1. /\ DiffedItem(w) \in Works /\ work' = [work EXCEPT ![w] = DiffedItem(w)]
        /\ UNCHANGED <<order, net>>
    BY <1>1, <1>8, DiffSets DEF DiffOrder
  <2>2. DiffedItem(w).event \subseteq TrueEvents /\ DiffedItem(w).row.status # "NONE"
    BY <1>1, <1>8 DEF DiffedItem, DiffOrder, WorkTrue
  <2>3. WorkTrue'
    BY <1>1, <1>3, <2>1, <2>2, WorkSetTrue
  <2>4. QED  BY <1>1, <1>4, <2>1, <2>3
<1>9. ASSUME NEW w \in Workers, SaveOrder(w)
      PROVE  SagaInv'
  <2>1. work[w] # NoWork /\ work' = [work EXCEPT ![w] = NoWork]
    BY <1>9 DEF SaveOrder
  <2>2. work[w].event \subseteq TrueEvents /\ work[w].row.status # "NONE"
    BY <1>1, <2>1 DEF WorkTrue
  <2>3. \A o \in Orders : order[o].status # "NONE" => order'[o].status # "NONE"
    <3>1. /\ order'[work[w].order].status = IF "status" \in work[w].columns
                                            THEN work[w].row.status
                                            ELSE order[work[w].order].status
          /\ \A p \in Orders : p # work[w].order => order'[p] = order[p]
      BY <1>1, <1>9, SavedRow
    <3>2. QED  BY <2>2, <3>1
  <2>4. TrueEvents \subseteq TrueEvents'
    BY <1>1, <2>3, RowsStayTrue
  <2>5. net' \subseteq TrueEvents
    BY <1>1, <1>9, <2>2, HandledTrue DEF SaveOrder, busVars
  <2>6. WorkTrue'
    BY <1>1, <2>1, <2>4, WorkSetTrue
  <2>7. QED  BY <2>3, <2>4, <2>5, <2>6, OrderRowsGrow
<1>10. ASSUME NEW w \in Workers, AbandonWork(w)
       PROVE  SagaInv'
  <2>1. work[w] # NoWork /\ work' = [work EXCEPT ![w] = NoWork] /\ UNCHANGED order
    BY <1>10 DEF AbandonWork
  <2>2. work[w].event \subseteq TrueEvents
    BY <1>1, <2>1 DEF WorkTrue
  <2>3. net' \subseteq TrueEvents
    BY <1>1, <1>10, <2>2, RejectedTrue DEF AbandonWork, Publish
  <2>4. WorkTrue'
    BY <1>1, <1>3, <2>1, WorkSetTrue
  <2>5. QED  BY <1>4, <2>1, <2>3, <2>4
<1>11. QED  BY <1>2, <1>5, <1>6, <1>7, <1>8, <1>9, <1>10 DEF OrderNext

-------------------------------------------------------------------------------
(* The theorems about dispatch and the driver service.                     *)

LEMMA SagaInitInv == Init => SagaInv
<1> SUFFICES ASSUME Init PROVE SagaInv
  OBVIOUS
<1>1. BusTrue /\ HandlersTrue /\ WorkTrue /\ TxnsTrue
  BY DEF Init, BusInit, DriverInit, DispatchInit, OrderInit, BusTrue, HandlersTrue,
         WorkTrue, TxnsTrue
<1>2. TablesAgree /\ DispatchMatchesReservation
  BY DEF Init, DriverInit, DispatchInit, NoDispatch, NoReservation, TablesAgree,
         DispatchMatchesReservation
<1>3. QED  BY <1>1, <1>2 DEF SagaInv

(* In every reachable state of the saga the tables have their types, the   *)
(* driver rows their invariant, and every event that anybody knows of is   *)
(* true.                                                                   *)
THEOREM SagaInvariance == Spec => [](SagaTypeOK /\ DriverInv /\ SagaInv)
<1>1. Init => SagaTypeOK /\ DriverInv /\ SagaInv
  BY SagaInitType, DriverInitInv, SagaInitInv DEF Init
<1>2. SagaTypeOK /\ DriverInv /\ SagaInv /\ [Next]_vars
        => SagaTypeOK' /\ DriverInv' /\ SagaInv'
  <2> SUFFICES ASSUME SagaTypeOK, DriverInv, SagaInv, [Next]_vars
               PROVE  SagaTypeOK' /\ DriverInv' /\ SagaInv'
    OBVIOUS
  <2>1. SagaTypeOK'
    BY SagaNextType
  <2>2. UNCHANGED driverVars => DriverInv'
    BY UnchangedInv DEF driverVars
  <2>3. CASE DriverNext /\ UNCHANGED <<dispatchVars, orderVars>>
    BY <2>1, <2>3, DriverNextInv, DriverStepInv DEF SagaTypeOK
  <2>4. CASE DispatchNext /\ UNCHANGED <<driverVars, orderVars>>
    BY <2>1, <2>2, <2>4, DispatchStepInv
  <2>5. CASE OrderNext /\ UNCHANGED <<driverVars, dispatchVars>>
    BY <2>1, <2>2, <2>5, OrderStepInv
  <2>6. CASE UNCHANGED vars
    <3>1. UNCHANGED <<net, driverVars, dispatchVars, orderVars>>
      BY <2>6 DEF vars
    <3>2. SagaInv'
      BY <3>1, DispatchIdleInv DEF dispatchVars
    <3>3. QED  BY <2>1, <2>2, <3>1, <3>2
  <2>7. QED  BY <2>3, <2>4, <2>5, <2>6 DEF Next
<1>3. QED  BY <1>1, <1>2, PTL DEF Spec

(* Whatever is delivered late or twice, a dispatch is ASSIGNED only while  *)
(* its driver holds a reservation for the order, and CANCELLED only when   *)
(* this reservation is released.                                           *)
THEOREM AssignmentIsReserved == Spec => []DispatchMatchesReservation
<1>1. SagaInv => DispatchMatchesReservation
  BY DEF SagaInv
<1>2. QED  BY <1>1, SagaInvariance, PTL

(* The driver service keeps its promises with dispatch for its sender.     *)
THEOREM SagaCapacity == Spec => [](CapacityRespected /\ NoPhantomLoad)
<1>1. DriverInv => CapacityRespected /\ NoPhantomLoad
  BY DEF DriverInv
<1>2. QED  BY <1>1, SagaInvariance, PTL

(* And no transaction of the driver service ever waits for one that waits, *)
(* whatever the saga asks of it.                                           *)
THEOREM SagaWaitingEnds == Spec => []WaitingIsShort
<1>1. SagaTypeOK => DriverTypeOK
  BY DEF SagaTypeOK
<1>2. QED  BY <1>1, SagaInvariance, NobodyWaitsForWaiters, PTL

LEMMA DispatchMoves ==
  ASSUME BusTypeOK, DispatchTypeOK, DispatchNext, NEW p \in Orders
  PROVE  dispatch'[p] = dispatch[p] \/ Forward(dispatch[p], dispatch'[p])
<1>1. ASSUME NEW o \in Orders, NEW status \in DispatchStatuses, SetStatus(o, status),
             \/ dispatch[o].status = "NONE" /\ status = "SEARCHING_DRIVER"
             \/ dispatch[o].status = "SEARCHING_DRIVER" /\ status = "FAILED"
             \/ dispatch[o].status = "ASSIGNED" /\ status = "COMPENSATING"
             \/ dispatch[o].status = "COMPENSATING" /\ status = "CANCELLED"
      PROVE  dispatch'[p] = dispatch[p] \/ Forward(dispatch[p], dispatch'[p])
  <2>1. /\ dispatch'[o] = [status |-> status, driver |-> dispatch[o].driver]
        /\ p # o => dispatch'[p] = dispatch[p]
    BY <1>1, SetStatusSets
  <2>2. Forward(dispatch[o], dispatch'[o])
    BY <1>1, <2>1 DEF Forward
  <2>3. QED  BY <2>1, <2>2
<1>2. ASSUME NEW m \in net, AssignDriver(m)
      PROVE  dispatch'[p] = dispatch[p] \/ Forward(dispatch[p], dispatch'[p])
  <2>1. m.order \in Orders
    BY DEF BusTypeOK, Events
  <2>2. QED  BY <1>2, <2>1 DEF AssignDriver, DispatchTypeOK, Forward
<1>3. ASSUME NEW m \in net, DispatchHandles(m), ~AssignDriver(m)
      PROVE  dispatch'[p] = dispatch[p] \/ Forward(dispatch[p], dispatch'[p])
  <2>1. m.order \in Orders
    BY DEF BusTypeOK, Events
  <2>2. CASE \E list \in CandidateLists : StartDispatch(m, list)
    BY <1>1, <2>1, <2>2 DEF StartDispatch, DispatchStatuses
  <2>3. CASE FailSearch(m)
    BY <1>1, <2>1, <2>3 DEF FailSearch, DispatchStatuses
  <2>4. CASE CompleteCompensation(m)
    <3>1. CASE dispatch[m.order].status = "COMPENSATING"
      BY <1>1, <2>1, <2>4, <3>1 DEF CompleteCompensation, DispatchStatuses
    <3>2. CASE dispatch[m.order].status # "COMPENSATING"
      BY <2>4, <3>2 DEF CompleteCompensation
    <3>3. QED  BY <3>1, <3>2
  <2>5. CASE StartAgain(m) \/ PlanFails(m) \/ LateAnswer(m)
    BY <2>5 DEF StartAgain, PlanFails, LateAnswer, dispatchVars
  <2>6. QED  BY <1>3, <2>2, <2>3, <2>4, <2>5 DEF DispatchHandles
<1>4. ASSUME NEW o \in Orders, Timeout(o) \/ StartCompensation(o)
      PROVE  dispatch'[p] = dispatch[p] \/ Forward(dispatch[p], dispatch'[p])
  BY <1>1, <1>4 DEF Timeout, StartCompensation, DispatchStatuses
<1>5. QED  BY <1>2, <1>3, <1>4
           DEF DispatchNext, ScheduleTimeout, LoseTimeout, TimeoutWithoutEffect,
               RequestCancel, AbandonCancel

(* Late answers, timeouts, copies of events and cancel requests never take *)
(* a dispatch back to an earlier status.                                   *)
THEOREM DispatchLifecycle == Spec => DispatchOnlyMovesForward
<1> DEFINE Allowed(o) ==
      LET old == dispatch[o].status
          new == dispatch'[o].status
      IN old # new =>
           \/ old = "NONE" /\ new = "SEARCHING_DRIVER"
           \/ old = "SEARCHING_DRIVER" /\ new \in {"ASSIGNED", "FAILED"}
           \/ old = "ASSIGNED" /\ new = "COMPENSATING"
           \/ old = "COMPENSATING" /\ new = "CANCELLED"
<1>1. SagaTypeOK /\ [Next]_vars => [\A o \in Orders : Allowed(o)]_vars
  <2> SUFFICES ASSUME SagaTypeOK, [Next]_vars, NEW o \in Orders PROVE Allowed(o)
    OBVIOUS
  <2>1. DispatchNext \/ UNCHANGED dispatch
    BY DEF Next, vars, dispatchVars
  <2>2. dispatch'[o] = dispatch[o] \/ Forward(dispatch[o], dispatch'[o])
    BY <2>1, DispatchMoves DEF SagaTypeOK
  <2>3. QED  BY <2>2 DEF Forward
<1>2. QED  BY <1>1, SagaTypes, PTL DEF Spec, DispatchOnlyMovesForward

(* With dispatch for its sender, too, a reservation is made once, never    *)
(* moves to another driver and is released once.                           *)
THEOREM SagaReservationLifecycle == Spec => ReservationsOnlyMoveForward
<1>1. SagaTypeOK /\ DriverInv /\ [Next]_vars
        => [\A o \in Orders :
             \/ reservation'[o] = reservation[o]
             \/ reservation[o].status = "NONE" /\ reservation'[o].status = "ACTIVE"
             \/ /\ reservation[o].status = "ACTIVE"
                /\ reservation'[o] = [reservation[o] EXCEPT !.status = "RELEASED"]
           ]_driverVars
  <2>1. [Next]_vars => DriverNext \/ UNCHANGED driverVars
    BY DEF Next, vars
  <2>2. QED  BY <2>1, DriverNextForward DEF SagaTypeOK
<1>2. QED  BY <1>1, SagaInvariance, PTL DEF Spec, ReservationsOnlyMoveForward

(* As long as nobody saves a driver without a lock, the whole saga         *)
(* implements the ledger of places.                                        *)
THEOREM SagaImplementsLedger ==
  ASSUME Requests = {}
  PROVE  Spec => ImplementsLedger
<1>1. Init => LedgerInv /\ Ledger!Init
  BY LedgerInit, LedgerInitMaps DEF Init
<1>2. [Next]_vars => DriverNext \/ UNCHANGED driverVars
  BY DEF Next, vars
<1>3. SagaTypeOK /\ DriverInv /\ DriverInv' /\ LedgerInv /\ [Next]_vars => LedgerInv'
  BY <1>2, LedgerNext, LedgerUnchanged DEF SagaTypeOK, driverVars
<1>4. SagaTypeOK /\ DriverInv /\ LedgerInv /\ [Next]_vars => [Ledger!Next]_(Ledger!ledgerVars)
  BY <1>2, LedgerStepMaps, LedgerStutters DEF SagaTypeOK, driverVars
<1>5. QED
  BY <1>1, <1>3, <1>4, SagaInvariance, PTL DEF Spec, ImplementsLedger, Ledger!Spec

-------------------------------------------------------------------------------
(* The order follows its dispatch.                                         *)

(* With any number of use cases at once: neither the row of an order nor   *)
(* the aggregate a use case is going to save is ahead of the dispatch.     *)
RowsBehind(choice) ==
  {row \in OrderRows :
     /\ row.status = "ASSIGNED" => choice.status \in Decided
     /\ row.driver # NoDriver => choice.status \in Decided /\ row.driver = choice.driver}

OrderNeverAhead == \A o \in Orders : order[o] \in RowsBehind(dispatch[o])

WorkNeverAhead ==
  \A w \in Workers : work[w] # NoWork => work[w].row \in RowsBehind(dispatch[work[w].order])

(* Two use cases may work on one order, and the later save wins.  As long  *)
(* as nobody has saved over what another has written meanwhile, a row is   *)
(* only CANCELLED with a driver when the driver is free, and has no driver *)
(* before it is ASSIGNED ...                                               *)
SettledRows(choice, held) ==
  {row \in OrderRows :
     /\ row.status = "ASSIGNED" =>
          choice.status \in Decided /\ row.driver = choice.driver
     /\ row.status = "CANCELLED" /\ row.driver # NoDriver =>
          choice.status = "CANCELLED" /\ held.status = "RELEASED"
     /\ row.status \in {"NONE", "PENDING_DISPATCH", "DISPATCHING"} => row.driver = NoDriver}

RowsSettled ==
  \A o \in Orders \ overwritten : order[o] \in SettledRows(dispatch[o], reservation[o])

(* ... because what a worker that is not overtaken saves is exactly the    *)
(* aggregate, made from the row as it still is, and no operation leaves    *)
(* CANCELLED.                                                              *)
FreshWorks ==
  {item \in Works :
     LET now == order[item.order]
         row == item.row
     IN /\ item.order \notin overwritten =>
             row \in SettledRows(dispatch[item.order], reservation[item.order])
        /\ now.status # "NONE"
        /\ now.status = "CANCELLED" => row.status = "CANCELLED"
        /\ item.phase = "diffed" =>
             /\ "status" \notin item.columns => now.status = row.status
             /\ "driver" \notin item.columns => now.driver = row.driver}

WorkFresh ==
  \A w \in Workers \ overtaken : work[w] # NoWork => work[w] \in FreshWorks

OrderInv == RowsSettled /\ WorkFresh

(* What was decided stays decided.                                         *)
DecisionsStay ==
  \A o \in Orders :
    /\ dispatch[o].status \in Decided =>
         dispatch'[o].status \in Decided /\ dispatch'[o].driver = dispatch[o].driver
    /\ dispatch[o].status = "CANCELLED" => dispatch'[o].status = "CANCELLED"
    /\ reservation[o].status = "RELEASED" => reservation'[o].status = "RELEASED"

LEMMA NextDecisions ==
  ASSUME SagaTypeOK, DriverInv, [Next]_vars
  PROVE  DecisionsStay
<1> SUFFICES ASSUME NEW o \in Orders
             PROVE  /\ dispatch[o].status \in Decided =>
                         /\ dispatch'[o].status \in Decided
                         /\ dispatch'[o].driver = dispatch[o].driver
                    /\ dispatch[o].status = "CANCELLED" => dispatch'[o].status = "CANCELLED"
                    /\ reservation[o].status = "RELEASED" => reservation'[o].status = "RELEASED"
  BY DEF DecisionsStay
<1>1. /\ DispatchNext \/ UNCHANGED dispatch
      /\ DriverNext \/ UNCHANGED reservation
  BY DEF Next, vars, dispatchVars, driverVars
<1>2. dispatch'[o] = dispatch[o] \/ Forward(dispatch[o], dispatch'[o])
  BY <1>1, DispatchMoves DEF SagaTypeOK
<1>3. reservation[o].status = "RELEASED" => reservation'[o].status = "RELEASED"
  BY <1>1, DriverNextForward DEF SagaTypeOK
<1>4. QED  BY <1>2, <1>3 DEF Forward, Decided

LEMMA BehindStays ==
  ASSUME DecisionsStay, NEW o \in Orders
  PROVE  RowsBehind(dispatch[o]) \subseteq RowsBehind(dispatch'[o])
  BY DEF DecisionsStay, RowsBehind

LEMMA SettledStays ==
  ASSUME DecisionsStay, NEW o \in Orders
  PROVE  SettledRows(dispatch[o], reservation[o]) \subseteq SettledRows(dispatch'[o], reservation'[o])
  BY DEF DecisionsStay, SettledRows

(* The operations of the aggregate on a true event.                        *)
LEMMA AfterEventBehind ==
  ASSUME NEW m \in TrueEvents, NEW row \in RowsBehind(dispatch[m.order])
  PROVE  AfterEvent(m, row) \in RowsBehind(dispatch[m.order])
<1>1. m \in Events /\ row \in OrderRows /\ AfterEvent(m, row) \in OrderRows
  BY AfterEventType DEF TrueEvents, RowsBehind
<1>2. CASE m.type = DispatchAssigned
  <2>1. AfterEvent(m, row) = [status |-> "ASSIGNED", driver |-> m.driver]
    BY <1>2 DEF AfterEvent, DispatchAssigned, DispatchStarted
  <2>2. dispatch[m.order].status \in Decided /\ dispatch[m.order].driver = m.driver
    BY <1>2 DEF TrueEvents
  <2>3. QED  BY <1>1, <2>1, <2>2 DEF RowsBehind
<1>3. CASE m.type # DispatchAssigned
  <2>1. /\ AfterEvent(m, row).driver = row.driver
        /\ AfterEvent(m, row).status \in
             {row.status, "DISPATCHING", "PENDING_DISPATCH", "CANCELLED"}
    BY <1>1, <1>3 DEF AfterEvent, OrderRows
  <2>2. QED  BY <1>1, <2>1 DEF RowsBehind
<1>4. QED  BY <1>2, <1>3

LEMMA AfterEventCancelled ==
  ASSUME NEW m \in TrueEvents, NEW row \in OrderRows, ~Throws(m, row), row.status = "CANCELLED"
  PROVE  AfterEvent(m, row).status = "CANCELLED"
<1>1. m.type # DispatchAssigned
  BY DEF Throws
<1>2. QED  BY <1>1 DEF AfterEvent, OrderRows

LEMMA AfterEventSettled ==
  ASSUME DispatchMatchesReservation, NEW m \in TrueEvents,
         NEW row \in SettledRows(dispatch[m.order], reservation[m.order]), ~Throws(m, row)
  PROVE  AfterEvent(m, row) \in SettledRows(dispatch[m.order], reservation[m.order])
<1>1. /\ m \in Events /\ m.order \in Orders /\ row \in OrderRows
      /\ AfterEvent(m, row) \in OrderRows
  BY AfterEventType DEF TrueEvents, SettledRows, Events
<1>2. CASE m.type = DispatchAssigned
  <2>1. AfterEvent(m, row) = [status |-> "ASSIGNED", driver |-> m.driver]
    BY <1>2 DEF AfterEvent, DispatchAssigned, DispatchStarted
  <2>2. dispatch[m.order].status \in Decided /\ dispatch[m.order].driver = m.driver
    BY <1>2 DEF TrueEvents
  <2>3. row.status # "CANCELLED"
    BY <1>2 DEF Throws
  <2>4. QED  BY <1>1, <2>1, <2>2, <2>3 DEF SettledRows
<1>3. CASE m.type = DispatchCancelled
  <2>1. AfterEvent(m, row).status = "CANCELLED" /\ AfterEvent(m, row).driver = row.driver
    BY <1>1, <1>3
    DEF AfterEvent, DispatchCancelled, DispatchAssigned, DispatchStarted, DispatchFailed, OrderRows
  <2>2. dispatch[m.order].status = "CANCELLED"
    BY <1>3 DEF TrueEvents
  <2>3. reservation[m.order] = [status |-> "RELEASED", driver |-> dispatch[m.order].driver]
    BY <1>1, <2>2 DEF DispatchMatchesReservation
  <2>4. QED  BY <1>1, <2>1, <2>2, <2>3 DEF SettledRows
<1>4. CASE m.type \notin {DispatchAssigned, DispatchCancelled}
  <2>1. /\ AfterEvent(m, row).driver = row.driver
        /\ \/ AfterEvent(m, row).status = row.status
           \/ /\ row.status \in {"PENDING_DISPATCH", "DISPATCHING"}
              /\ AfterEvent(m, row).status \in {"PENDING_DISPATCH", "DISPATCHING"}
    BY <1>1, <1>4 DEF AfterEvent, OrderRows
  <2>2. QED  BY <1>1, <2>1 DEF SettledRows
<1>5. QED  BY <1>2, <1>3, <1>4

(* Worker w is left with `item`, and every other worker goes on.           *)
LEMMA WorkNeverAheadSet ==
  ASSUME OrderTypeOK, DecisionsStay, WorkNeverAhead,
         NEW w \in Workers, NEW item \in Works \cup {NoWork},
         item # NoWork => item.row \in RowsBehind(dispatch[item.order]),
         work' = [work EXCEPT ![w] = item]
  PROVE  WorkNeverAhead'
<1> SUFFICES ASSUME NEW v \in Workers, work'[v] # NoWork
             PROVE  work'[v].row \in RowsBehind(dispatch'[work'[v].order])
  BY DEF WorkNeverAhead
<1> DEFINE next == work'[v]
<1>1. next \in Works /\ next.order \in Orders /\ next.row \in RowsBehind(dispatch[next.order])
  BY WorkSet DEF WorkNeverAhead, OrderTypeOK, Works
<1> HIDE DEF next
<1>2. next.row \in RowsBehind(dispatch'[next.order])
  BY <1>1 DEF RowsBehind, DecisionsStay
<1>3. QED  BY <1>2 DEF next, RowsBehind

LEMMA NeverAheadNext ==
  ASSUME SagaTypeOK, DriverInv, SagaInv, OrderNeverAhead, WorkNeverAhead, [Next]_vars
  PROVE  OrderNeverAhead' /\ WorkNeverAhead'
<1>1. DecisionsStay
  BY NextDecisions
<1>2. /\ OrderTypeOK /\ WorkTrue /\ net \subseteq TrueEvents
      /\ BusTypeOK
  BY DEF SagaTypeOK, SagaInv, BusTrue
<1>3. UNCHANGED order => OrderNeverAhead'
  BY <1>1 DEF OrderNeverAhead, RowsBehind, DecisionsStay
<1>4. UNCHANGED work => WorkNeverAhead'
  <2> SUFFICES ASSUME UNCHANGED work, NEW v \in Workers, work[v] # NoWork
               PROVE  work[v].row \in RowsBehind(dispatch'[work[v].order])
    BY DEF WorkNeverAhead, RowsBehind
  <2>1. work[v].order \in Orders /\ work[v].row \in RowsBehind(dispatch[work[v].order])
    BY <1>2, WorkingType DEF WorkNeverAhead
  <2>2. QED  BY <1>1, <2>1 DEF RowsBehind, DecisionsStay
<1>5. ASSUME NEW o \in Orders, CreateOrder(o)
      PROVE  OrderNeverAhead'
  <2>1. /\ order[o].driver = NoDriver
        /\ order' = [order EXCEPT ![o].status = "PENDING_DISPATCH"]
    BY <1>5 DEF CreateOrder, NoOrder
  <2>2. /\ order'[o].status = "PENDING_DISPATCH" /\ order'[o].driver = NoDriver
        /\ order'[o] \in OrderRows
        /\ \A p \in Orders : p # o => order'[p] = order[p]
    BY <1>2, <2>1 DEF OrderTypeOK, OrderRows, OrderStatuses
  <2>3. QED  BY <1>1, <2>2 DEF OrderNeverAhead, RowsBehind, DecisionsStay
<1>6. ASSUME NEW w \in Workers, NEW m \in net, LoadForEvent(w, m)
      PROVE  OrderNeverAhead' /\ WorkNeverAhead'
  <2> DEFINE row == AfterEvent(m, order[m.order])
             item == [phase |-> "loaded", order |-> m.order, event |-> {m},
                      row |-> row, columns |-> {}]
  <2>1. /\ m \in Events /\ m \in TrueEvents /\ m.order \in Orders
        /\ order[m.order] \in RowsBehind(dispatch[m.order])
    BY <1>2 DEF BusTypeOK, Events, OrderNeverAhead
  <2>2. row \in RowsBehind(dispatch[m.order])
    BY <2>1, AfterEventBehind
  <2>3. work' = [work EXCEPT ![w] = item] /\ UNCHANGED order
    BY <1>6 DEF LoadForEvent
  <2> HIDE DEF row
  <2>4. item \in Works /\ item.row = row /\ item.order = m.order
    BY <2>1, <2>2, LoadedItem DEF RowsBehind
  <2> HIDE DEF item
  <2>5. QED  BY <1>1, <1>2, <1>3, <2>2, <2>3, <2>4, WorkNeverAheadSet
<1>7. ASSUME NEW w \in Workers, NEW o \in Cancellable, LoadForCancel(w, o)
      PROVE  OrderNeverAhead' /\ WorkNeverAhead'
  <2> DEFINE row == [order[o] EXCEPT !.status = "CANCELLED"]
             item == [phase |-> "loaded", order |-> o, event |-> {}, row |-> row,
                      columns |-> {}]
  <2>1. /\ o \in Orders /\ row \in OrderRows /\ row.status = "CANCELLED"
        /\ row.driver = order[o].driver
    BY <1>2, OrderAssumption DEF OrderAssumption, OrderTypeOK, OrderRows, OrderStatuses
  <2>2. work' = [work EXCEPT ![w] = item] /\ UNCHANGED order
    BY <1>7 DEF LoadForCancel
  <2> HIDE DEF row
  <2>3. row \in RowsBehind(dispatch[o])
    BY <2>1 DEF OrderNeverAhead, RowsBehind
  <2>4. item \in Works /\ item.row = row /\ item.order = o
    BY <2>1, LoadedItem
  <2> HIDE DEF item
  <2>5. QED  BY <1>1, <1>2, <1>3, <2>2, <2>3, <2>4, WorkNeverAheadSet
<1>8. ASSUME NEW w \in Workers, DiffOrder(w)
      PROVE  OrderNeverAhead' /\ WorkNeverAhead'
  <2>1. /\ DiffedItem(w) \in Works /\ work' = [work EXCEPT ![w] = DiffedItem(w)]
        /\ UNCHANGED order
    BY <1>2, <1>8, DiffSets DEF DiffOrder
  <2>2. /\ DiffedItem(w).row = work[w].row
        /\ DiffedItem(w).order = work[w].order
        /\ work[w].row \in RowsBehind(dispatch[work[w].order])
    BY <1>8 DEF DiffedItem, DiffOrder, WorkNeverAhead
  <2>3. QED  BY <1>1, <1>2, <1>3, <2>1, <2>2, WorkNeverAheadSet
<1>9. ASSUME NEW w \in Workers, SaveOrder(w)
      PROVE  OrderNeverAhead' /\ WorkNeverAhead'
  <2> DEFINE o == work[w].order
  <2>1. work[w] # NoWork /\ work' = [work EXCEPT ![w] = NoWork]
    BY <1>9 DEF SaveOrder
  <2>2. /\ o \in Orders
        /\ order'[o].status \in {work[w].row.status, order[o].status}
        /\ order'[o].driver \in {work[w].row.driver, order[o].driver}
        /\ \A p \in Orders : p # o => order'[p] = order[p]
        /\ order' \in [Orders -> OrderRows]
    BY <1>2, <1>9, SavedRow
  <2>3. work[w].row \in RowsBehind(dispatch[o]) /\ order[o] \in RowsBehind(dispatch[o])
    BY <2>1, <2>2 DEF WorkNeverAhead, OrderNeverAhead
  <2>4. WorkNeverAhead'
    BY <1>1, <1>2, <2>1, WorkNeverAheadSet
  <2> HIDE DEF o
  <2>5. order'[o] \in RowsBehind(dispatch[o])
    BY <2>2, <2>3 DEF RowsBehind
  <2>6. \A p \in Orders : order'[p] \in RowsBehind(dispatch[p])
    BY <2>2, <2>5 DEF OrderNeverAhead
  <2>7. QED  BY <1>1, <2>4, <2>6 DEF OrderNeverAhead, RowsBehind, DecisionsStay
<1>10. ASSUME NEW w \in Workers, AbandonWork(w)
       PROVE  OrderNeverAhead' /\ WorkNeverAhead'
  <2>1. work' = [work EXCEPT ![w] = NoWork] /\ UNCHANGED order
    BY <1>10 DEF AbandonWork
  <2>2. QED  BY <1>1, <1>2, <1>3, <2>1, WorkNeverAheadSet
<1>11. CASE OrderNext
  <2>1. ASSUME NEW w \in Workers, NEW m \in net, RefuseEvent(w, m)
        PROVE  UNCHANGED <<order, work>>
    BY <2>1 DEF RefuseEvent, orderVars
  <2>2. ASSUME NEW o \in Orders, CreateOrder(o)
        PROVE  UNCHANGED work
    BY <2>2 DEF CreateOrder
  <2>3. QED
    BY <1>3, <1>4, <1>5, <1>6, <1>7, <1>8, <1>9, <1>10, <1>11, <2>1, <2>2 DEF OrderNext
<1>12. CASE UNCHANGED <<order, work>>
  BY <1>3, <1>4, <1>12
<1>13. QED  BY <1>11, <1>12 DEF Next, vars, orderVars

(* However many use cases overlap and however late an event is handled,    *)
(* an order is never shown ASSIGNED, or with a driver, before dispatch has *)
(* decided for this driver.                                                *)
THEOREM OrderIsNeverAhead == Spec => [](OrderNeverAhead /\ WorkNeverAhead)
<1>1. Init => OrderNeverAhead /\ WorkNeverAhead
  <2>1. OrderInit => OrderNeverAhead /\ WorkNeverAhead
    BY DEF OrderInit, NoOrder, OrderNeverAhead, WorkNeverAhead, RowsBehind, OrderRows,
           OrderStatuses, MaybeDriver
  <2>2. QED  BY <2>1 DEF Init
<1>2. SagaTypeOK /\ DriverInv /\ SagaInv /\ OrderNeverAhead /\ WorkNeverAhead /\ [Next]_vars
        => OrderNeverAhead' /\ WorkNeverAhead'
  BY NeverAheadNext
<1>3. QED  BY <1>1, <1>2, SagaInvariance, PTL DEF Spec

(* A use case that is not overtaken goes on from the row it has read.      *)
LEMMA FreshStays ==
  ASSUME SagaTypeOK, DecisionsStay, overwritten \subseteq overwritten',
         NEW item \in FreshWorks, order'[item.order] = order[item.order]
  PROVE  item \in FreshWorks'
<1>1. item \in Works /\ item.order \in Orders
  BY DEF FreshWorks, Works
<1>2. item.order \notin overwritten' =>
        item.row \in SettledRows(dispatch'[item.order], reservation'[item.order])
  BY <1>1, SettledStays DEF FreshWorks
<1>3. QED  BY <1>1, <1>2 DEF FreshWorks

(* Worker w is left with `item`, and no row changes.                       *)
LEMMA WorkFreshSet ==
  ASSUME SagaTypeOK, DecisionsStay, WorkFresh, UNCHANGED <<order, overwritten>>,
         NEW w \in Workers, NEW item \in Works \cup {NoWork},
         item # NoWork /\ w \notin overtaken => item \in FreshWorks,
         work' = [work EXCEPT ![w] = item],
         overtaken' = overtaken \/ (item = NoWork /\ overtaken' = overtaken \ {w})
  PROVE  WorkFresh'
<1> SUFFICES ASSUME NEW v \in Workers, v \notin overtaken', work'[v] # NoWork
             PROVE  work'[v] \in FreshWorks'
  BY DEF WorkFresh
<1>1. work'[w] = item /\ \A u \in Workers : u # w => work'[u] = work[u]
  BY WorkSet DEF SagaTypeOK
<1>2. work'[v] \in FreshWorks
  BY <1>1 DEF WorkFresh
<1>3. QED  BY <1>2, FreshStays

LEMMA SavedSettled ==
  ASSUME SagaTypeOK, WorkFresh, NEW w \in Workers \ overtaken, SaveOrder(w),
         NEW o, o = work[w].order
  PROVE  /\ o \notin overwritten => order'[o] \in SettledRows(dispatch[o], reservation[o])
         /\ order[o].status = "CANCELLED" => order'[o].status = "CANCELLED"
<1>1. work[w] \in FreshWorks /\ work[w].phase = "diffed" /\ OrderTypeOK
  BY DEF SaveOrder, WorkFresh, SagaTypeOK
<1>2. /\ o \in Orders
      /\ order'[o].status = IF "status" \in work[w].columns THEN work[w].row.status
                            ELSE order[o].status
      /\ order'[o].driver = IF "driver" \in work[w].columns THEN work[w].row.driver
                            ELSE order[o].driver
      /\ order' \in [Orders -> OrderRows]
  BY <1>1, SavedRow
<1>3. order'[o].status = work[w].row.status /\ order'[o].driver = work[w].row.driver
  BY <1>1, <1>2 DEF FreshWorks
<1>4. /\ o \notin overwritten => work[w].row \in SettledRows(dispatch[o], reservation[o])
      /\ order[o].status = "CANCELLED" => work[w].row.status = "CANCELLED"
  BY <1>1 DEF FreshWorks
<1>5. o \notin overwritten => order'[o] \in SettledRows(dispatch[o], reservation[o])
  BY <1>2, <1>3, <1>4 DEF SettledRows
<1>6. QED  BY <1>3, <1>4, <1>5

(* What the step property says of one step.                                *)
ReopenedByStale ==
  \A o \in Orders :
    order[o].status = "CANCELLED" /\ order'[o].status # "CANCELLED" =>
      \E w \in overtaken : work[w].order = o /\ work'[w] = NoWork

LEMMA SaveKeepsOrderInv ==
  ASSUME SagaTypeOK, DecisionsStay, OrderInv, NEW w \in Workers, SaveOrder(w)
  PROVE  OrderInv' /\ ReopenedByStale
<1> DEFINE o == work[w].order
           changed == order'[o] # order[o]
<1>1. /\ OrderTypeOK /\ RowsSettled /\ WorkFresh
      /\ work[w] # NoWork /\ work' = [work EXCEPT ![w] = NoWork]
  BY DEF SaveOrder, SagaTypeOK, OrderInv
<1>2. o \in Orders /\ \A p \in Orders : p # o => order'[p] = order[p]
  BY <1>1, SavedRow
<1>3. work'[w] = NoWork /\ \A v \in Workers : v # w => work'[v] = work[v]
  BY <1>1, WorkSet
<1>4. /\ overwritten' = overwritten \cup (IF changed /\ w \in overtaken THEN {o} ELSE {})
      /\ \A v \in Workers : v # w /\ v \in overtaken => v \in overtaken'
      /\ \A v \in Workers : v # w /\ changed /\ work[v] # NoWork /\ work[v].order = o
                              => v \in overtaken'
  BY DEF SaveOrder, RecordSave
<1>5. w \notin overtaken =>
        /\ o \notin overwritten => order'[o] \in SettledRows(dispatch[o], reservation[o])
        /\ order[o].status = "CANCELLED" => order'[o].status = "CANCELLED"
  BY <1>1, SavedSettled
<1> HIDE DEF o, changed
<1>6. RowsSettled'
  <2> SUFFICES ASSUME NEW p \in Orders, p \notin overwritten'
               PROVE  order'[p] \in SettledRows(dispatch'[p], reservation'[p])
    BY DEF RowsSettled
  <2>1. p \notin overwritten /\ order[p] \in SettledRows(dispatch[p], reservation[p])
    BY <1>1, <1>4 DEF RowsSettled
  <2>2. order'[p] \in SettledRows(dispatch[p], reservation[p])
    BY <1>2, <1>4, <1>5, <2>1 DEF changed
  <2>3. QED  BY <2>2, SettledStays
<1>7. WorkFresh'
  <2> SUFFICES ASSUME NEW v \in Workers, v \notin overtaken', work'[v] # NoWork
               PROVE  work'[v] \in FreshWorks'
    BY DEF WorkFresh
  <2>1. v # w /\ work'[v] = work[v] /\ work[v] # NoWork /\ v \notin overtaken
    BY <1>3, <1>4
  <2>2. work[v] \in FreshWorks /\ work[v].order \in Orders
    BY <1>1, <2>1, WorkingType DEF WorkFresh
  <2>3. order'[work[v].order] = order[work[v].order]
    BY <1>2, <1>4, <2>1, <2>2 DEF changed
  <2>4. QED  BY <1>4, <2>1, <2>2, <2>3, FreshStays
<1>8. ReopenedByStale
  <2> SUFFICES ASSUME NEW p \in Orders, order[p].status = "CANCELLED",
                      order'[p].status # "CANCELLED"
               PROVE  \E v \in overtaken : work[v].order = p /\ work'[v] = NoWork
    BY DEF ReopenedByStale
  <2>1. p = o /\ w \in overtaken
    BY <1>2, <1>5
  <2>2. QED  BY <1>3, <2>1 DEF o
<1>9. QED  BY <1>6, <1>7, <1>8 DEF OrderInv

LEMMA OrderInvNext ==
  ASSUME SagaTypeOK, DriverInv, SagaInv, OrderInv, [Next]_vars
  PROVE  OrderInv' /\ ReopenedByStale
<1>1. DecisionsStay
  BY NextDecisions
<1>2. /\ OrderTypeOK /\ BusTypeOK /\ net \subseteq TrueEvents
      /\ RowsSettled /\ WorkFresh /\ DispatchMatchesReservation
  BY DEF SagaTypeOK, SagaInv, BusTrue, OrderInv
<1>3. UNCHANGED <<order, overwritten>> => RowsSettled' /\ ReopenedByStale
  BY <1>1, <1>2, SettledStays DEF RowsSettled, ReopenedByStale
<1>4. UNCHANGED orderVars => WorkFresh'
  <2> SUFFICES ASSUME UNCHANGED orderVars, NEW v \in Workers, v \notin overtaken,
                      work[v] # NoWork
               PROVE  work[v] \in FreshWorks'
    BY DEF WorkFresh, orderVars
  <2>1. QED  BY <1>1, <1>2, FreshStays DEF WorkFresh, orderVars
<1>5. ASSUME NEW o \in Orders, CreateOrder(o)
      PROVE  OrderInv' /\ ReopenedByStale
  <2>1. /\ order[o].driver = NoDriver /\ order[o].status = "NONE"
        /\ order' = [order EXCEPT ![o].status = "PENDING_DISPATCH"]
        /\ UNCHANGED <<work, overtaken, overwritten>>
    BY <1>5 DEF CreateOrder, NoOrder
  <2>2. /\ order'[o].status = "PENDING_DISPATCH" /\ order'[o].driver = NoDriver
        /\ order'[o] \in OrderRows
        /\ \A p \in Orders : p # o => order'[p] = order[p]
    BY <1>2, <2>1 DEF OrderTypeOK, OrderRows, OrderStatuses
  <2>3. order'[o] \in SettledRows(dispatch'[o], reservation'[o])
    BY <2>2 DEF SettledRows
  <2>4. ASSUME NEW p \in Orders, p \notin overwritten
        PROVE  order'[p] \in SettledRows(dispatch'[p], reservation'[p])
    BY <1>1, <1>2, <2>2, <2>3, <2>4, SettledStays DEF RowsSettled
  <2>5. ASSUME NEW v \in Workers, v \notin overtaken, work[v] # NoWork
        PROVE  work[v] \in FreshWorks'
    <3>1. work[v] \in FreshWorks
      BY <1>2, <2>5 DEF WorkFresh
    <3>2. work[v].order \in Orders /\ work[v].order # o
      BY <2>1, <3>1 DEF FreshWorks, Works
    <3>3. order'[work[v].order] = order[work[v].order]
      BY <2>2, <3>2
    <3>4. QED  BY <1>1, <2>1, <3>1, <3>3, FreshStays
  <2>6. ReopenedByStale
    BY <2>1, <2>2 DEF ReopenedByStale
  <2>7. QED  BY <2>1, <2>4, <2>5, <2>6 DEF OrderInv, RowsSettled, WorkFresh
<1>6. ASSUME NEW w \in Workers, NEW m \in net, LoadForEvent(w, m)
      PROVE  OrderInv' /\ ReopenedByStale
  <2> DEFINE row == AfterEvent(m, order[m.order])
             item == [phase |-> "loaded", order |-> m.order, event |-> {m},
                      row |-> row, columns |-> {}]
  <2>1. /\ m \in Events /\ m \in TrueEvents /\ m.order \in Orders
        /\ order[m.order] \in OrderRows
        /\ order[m.order].status # "NONE" /\ ~Throws(m, order[m.order])
    BY <1>2, <1>6 DEF BusTypeOK, OrderTypeOK, Events, TrueEvents, LoadForEvent
  <2>2. /\ m.order \notin overwritten => row \in SettledRows(dispatch[m.order], reservation[m.order])
        /\ order[m.order].status = "CANCELLED" => row.status = "CANCELLED"
        /\ row \in OrderRows
    BY <1>2, <2>1, AfterEventType, AfterEventSettled, AfterEventCancelled DEF RowsSettled
  <2>3. /\ work' = [work EXCEPT ![w] = item]
        /\ UNCHANGED <<order, overtaken, overwritten>>
    BY <1>6 DEF LoadForEvent
  <2> HIDE DEF row
  <2>4. /\ item \in Works /\ item.row = row /\ item.order = m.order
        /\ item.phase = "loaded"
    BY <2>1, <2>2, LoadedItem
  <2> HIDE DEF item
  <2>5. item \in FreshWorks
    BY <2>1, <2>2, <2>4 DEF FreshWorks
  <2>6. WorkFresh'
    BY <1>1, <1>2, <2>3, <2>4, <2>5, WorkFreshSet
  <2>7. QED  BY <1>3, <2>3, <2>6 DEF OrderInv
<1>7. ASSUME NEW w \in Workers, NEW o \in Cancellable, LoadForCancel(w, o)
      PROVE  OrderInv' /\ ReopenedByStale
  <2> DEFINE row == [order[o] EXCEPT !.status = "CANCELLED"]
             item == [phase |-> "loaded", order |-> o, event |-> {}, row |-> row,
                      columns |-> {}]
  <2>1. /\ o \in Orders /\ row \in OrderRows /\ row.status = "CANCELLED"
        /\ row.driver = order[o].driver
    BY <1>2, OrderAssumption DEF OrderAssumption, OrderTypeOK, OrderRows, OrderStatuses
  <2>2. /\ work' = [work EXCEPT ![w] = item]
        /\ UNCHANGED <<order, overtaken, overwritten>>
        /\ order[o].status = "PENDING_DISPATCH"
    BY <1>7 DEF LoadForCancel
  <2> HIDE DEF row
  <2>3. o \notin overwritten => row \in SettledRows(dispatch[o], reservation[o])
    BY <1>2, <2>1, <2>2 DEF RowsSettled, SettledRows
  <2>4. item \in Works /\ item.row = row /\ item.order = o /\ item.phase = "loaded"
    BY <2>1, LoadedItem
  <2> HIDE DEF item
  <2>5. item \in FreshWorks
    BY <2>1, <2>2, <2>3, <2>4 DEF FreshWorks
  <2>6. WorkFresh'
    BY <1>1, <1>2, <2>2, <2>4, <2>5, WorkFreshSet
  <2>7. QED  BY <1>3, <2>2, <2>6 DEF OrderInv
<1>8. ASSUME NEW w \in Workers, DiffOrder(w)
      PROVE  OrderInv' /\ ReopenedByStale
  <2> DEFINE item == DiffedItem(w)
             o == work[w].order
  <2>1. /\ item \in Works /\ work' = [work EXCEPT ![w] = item]
        /\ UNCHANGED <<order, overtaken, overwritten>>
        /\ w \notin overtaken => work[w] \in FreshWorks
    BY <1>2, <1>8, DiffSets DEF DiffOrder, WorkFresh
  <2>2. /\ item.row = work[w].row /\ item.order = o
        /\ item.columns = Differing(w)
    BY DEF DiffedItem
  <2>3. w \notin overtaken =>
          /\ "status" \notin Differing(w) => order[o].status = work[w].row.status
          /\ "driver" \notin Differing(w) => order[o].driver = work[w].row.driver
    BY <1>2, <2>1 DEF Differing, FreshWorks, Works, OrderTypeOK, OrderRows
  <2>4. w \notin overtaken => item \in FreshWorks
    <3> HIDE DEF item
    <3>1. QED  BY <2>1, <2>2, <2>3 DEF FreshWorks
  <2> HIDE DEF item
  <2>5. WorkFresh'
    BY <1>1, <1>2, <2>1, <2>4, WorkFreshSet
  <2>6. QED  BY <1>3, <2>1, <2>5 DEF OrderInv
<1>9. ASSUME NEW w \in Workers, SaveOrder(w)
      PROVE  OrderInv' /\ ReopenedByStale
  BY <1>1, <1>9, SaveKeepsOrderInv
<1>10. ASSUME NEW w \in Workers, AbandonWork(w)
       PROVE  OrderInv' /\ ReopenedByStale
  <2>1. /\ work' = [work EXCEPT ![w] = NoWork] /\ overtaken' = overtaken \ {w}
        /\ UNCHANGED <<order, overwritten>>
    BY <1>10 DEF AbandonWork
  <2>2. WorkFresh'
    BY <1>1, <1>2, <2>1, WorkFreshSet
  <2>3. QED  BY <1>3, <2>1, <2>2 DEF OrderInv
<1>11. CASE OrderNext
  <2>1. ASSUME NEW w \in Workers, NEW m \in net, RefuseEvent(w, m)
        PROVE  OrderInv' /\ ReopenedByStale
    BY <1>3, <1>4, <2>1 DEF RefuseEvent, orderVars, OrderInv
  <2>2. QED
    BY <1>5, <1>6, <1>7, <1>8, <1>9, <1>10, <1>11, <2>1 DEF OrderNext
<1>12. CASE UNCHANGED orderVars
  BY <1>3, <1>4, <1>12 DEF OrderInv, orderVars
<1>13. QED  BY <1>11, <1>12 DEF Next, vars

(* The inductive invariant holds whatever overlaps.                        *)
LEMMA OrderInvariance == Spec => []OrderInv
<1>1. Init => OrderInv
  <2>1. OrderInit => OrderInv
    BY DEF OrderInit, NoOrder, OrderInv, RowsSettled, WorkFresh, SettledRows, OrderRows,
           OrderStatuses, MaybeDriver
  <2>2. QED  BY <2>1 DEF Init
<1>2. SagaTypeOK /\ DriverInv /\ SagaInv /\ OrderInv /\ [Next]_vars => OrderInv'
  BY OrderInvNext
<1>3. QED  BY <1>1, <1>2, SagaInvariance, PTL DEF Spec

(* However many use cases overlap on an order and however late or often    *)
(* the events of dispatch arrive: unless one of them has saved over a row  *)
(* that another had changed since it was read, an order is only ASSIGNED   *)
(* to the driver dispatch has chosen, and once it has had a driver it is   *)
(* only CANCELLED when the driver is free again.                           *)
THEOREM OrderFollows == Spec => []OrderFollowsDispatch
<1>1. OrderInv => OrderFollowsDispatch
  BY DEF OrderInv, RowsSettled, SettledRows, OrderFollowsDispatch, Decided
<1>2. QED  BY <1>1, OrderInvariance, PTL

(* A cancelled order is reopened by nothing but a save from a row that was *)
(* read before the cancellation; of events that come late, come again or   *)
(* overtake each other none can do it.                                     *)
THEOREM CancelledStays == Spec => OnlyStaleSavesReopen
<1>1. SagaTypeOK /\ DriverInv /\ SagaInv /\ OrderInv /\ [Next]_vars
        => [\A o \in Orders :
             order[o].status = "CANCELLED" /\ order'[o].status # "CANCELLED" =>
               \E w \in overtaken : work[w].order = o /\ work'[w] = NoWork]_vars
  BY OrderInvNext DEF ReopenedByStale
<1>2. QED
  BY <1>1, OrderInvariance, SagaInvariance, PTL DEF Spec, OnlyStaleSavesReopen
===============================================================================
