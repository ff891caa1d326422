----------------------------- MODULE DriverService -----------------------------
(***************************************************************************)
(* The driver service: the capacity of drivers, handed out to orders.      *)
(*                                                                         *)
(* reserve() and release() are database transactions serialized per order  *)
(* by an advisory lock, so `txn` holds at most one per order.  Transactions *)
(* of different orders interleave and meet on the rows of the drivers:     *)
(* reserve() skips the rows another transaction has locked, release()      *)
(* waits for them.  SetDriverAvailability takes no lock: it reads, checks  *)
(* and saves, and the save is a SELECT that decides which columns differ   *)
(* followed by an UPDATE of these columns alone.                           *)
(***************************************************************************)
EXTENDS EventBus

CONSTANTS
  Capacity,    \* how many orders each driver can carry at once
  Requests     \* slots for availability requests in progress at one time

ASSUME DriverAssumption == Capacity \in [Drivers -> Nat \ {0}]

VARIABLES
  driverRow,   \* driver_profiles: status and reserved_order_ids
  reservation, \* driver_reservations: at most one row per order, ever
  txn,         \* the transaction that holds the advisory lock of the order
  request      \* availability requests that are between two statements

driverVars == <<driverRow, reservation, txn, request>>

DriverStatuses == {"AVAILABLE", "RESERVED", "OFFLINE"}

NoReservation == [status |-> "NONE", driver |-> NoDriver]

NoEvent == NewEvent("none", NoDriver, NoDriver)

NoTxn == [phase |-> "idle", event |-> NoEvent, left |-> <<>>,
          locked |-> {}, driver |-> NoDriver]

(* `left` holds the candidates still to try, `locked` the row locks and    *)
(* `driver` the row that the transaction is going to write.                *)
Txns == [phase : {"scan", "reserving", "waiting", "releasing"},
         event : Events, left : Seq(Drivers), locked : SUBSET MaybeDriver,
         driver : MaybeDriver]

NoRequest == [phase |-> "idle", driver |-> NoDriver, target |-> "AVAILABLE",
              columns |-> {}]

DriverTypeOK ==
  /\ driverRow \in [Drivers -> [status : DriverStatuses,
                                reserved : SUBSET Orders]]
  /\ reservation \in [Orders -> [status : {"NONE", "ACTIVE", "RELEASED"},
                                 driver : MaybeDriver]]
  /\ txn \in [Orders -> Txns \cup {NoTxn}]
  /\ request \in [Requests -> [phase : {"idle", "checked", "diffed"},
                               driver : MaybeDriver,
                               target : {"AVAILABLE", "OFFLINE"},
                               columns : SUBSET {"status", "reserved"}]]

DriverInit ==
  /\ driverRow = [d \in Drivers |-> [status |-> "AVAILABLE", reserved |-> {}]]
  /\ reservation = [o \in Orders |-> NoReservation]
  /\ txn = [o \in Orders |-> NoTxn]
  /\ request = [r \in Requests |-> NoRequest]

-------------------------------------------------------------------------------
(* The Driver aggregate, as functions from a row to a row.                 *)

Load(row) == Cardinality(row.reserved)

(* driver.reserve: OFFLINE and full rows were excluded by the query.       *)
Reserve(d, row, o) ==
  LET held == row.reserved \cup {o}
  IN [status |-> IF Cardinality(held) >= Capacity[d] THEN "RESERVED"
                 ELSE "AVAILABLE",
      reserved |-> held]

(* Mutation of Release: the order stays in the list.                       *)
ReleaseStatusOnly(row, o) ==
  IF o \in row.reserved THEN [row EXCEPT !.status = "AVAILABLE"] ELSE row

(* driver.release: a row that does not list the order is left as it is.    *)
Release(row, o) ==
  IF o \in row.reserved
  THEN [status |-> "AVAILABLE", reserved |-> row.reserved \ {o}]
  ELSE row

Locked(d) == \E o \in Orders : d \in txn[o].locked

(* The WHERE clause of the reservation query on the latest committed row.  *)
HasRoom(d) ==
  /\ driverRow[d].status = "AVAILABLE"
  /\ Load(driverRow[d]) < Capacity[d]

(* Mutation of Lockable: a plain SELECT.                                   *)
LockableUnlocked(d) == HasRoom(d)

(* What FOR UPDATE SKIP LOCKED returns.                                    *)
Lockable(d) == HasRoom(d) /\ ~Locked(d)

Finish(o) == txn' = [txn EXCEPT ![o] = NoTxn]

-------------------------------------------------------------------------------
(* reserve(): the transaction of a driver.reservation_requested event.     *)

(* The order already holds a driver: answer with that driver again.        *)
ReserveAgain(m) ==
  /\ m.type = ReservationRequested
  /\ txn[m.order] = NoTxn
  /\ reservation[m.order].status = "ACTIVE"
  /\ Handled(m, {NewEvent(DriverReserved, m.order, reservation[m.order].driver)})
  /\ UNCHANGED driverVars

(* Mutation of ReserveFromNone: returns without an answer.                 *)
ReserveFromNoneSilent(m) ==
  /\ m.type = ReservationRequested
  /\ txn[m.order] = NoTxn
  /\ reservation[m.order].status # "ACTIVE"
  /\ m.list = <<>>
  /\ Handled(m, {})
  /\ UNCHANGED driverVars

(* Dispatch found no driver near the pickup: NO_GEO_ELIGIBLE_DRIVER.       *)
ReserveFromNone(m) ==
  /\ m.type = ReservationRequested
  /\ txn[m.order] = NoTxn
  /\ reservation[m.order].status # "ACTIVE"
  /\ m.list = <<>>
  /\ Handled(m, {NewEvent(ReservationFailed, m.order, NoDriver)})
  /\ UNCHANGED driverVars

(* The loop over the ranked candidates starts.                             *)
BeginScan(m) ==
  /\ m.type = ReservationRequested
  /\ txn[m.order] = NoTxn
  /\ reservation[m.order].status # "ACTIVE"
  /\ m.list \notin {NoList, <<>>}
  /\ txn' = [txn EXCEPT ![m.order] =
               [NoTxn EXCEPT !.phase = "scan", !.event = m, !.left = m.list]]
  /\ UNCHANGED <<driverRow, reservation, request, net, dlq>>

(* One query of the loop returns the candidate and locks its row ...       *)
LockCandidate(o) ==
  /\ txn[o].phase = "scan"
  /\ txn[o].left # <<>>
  /\ Lockable(Head(txn[o].left))
  /\ txn' = [txn EXCEPT ![o] =
               [@ EXCEPT !.phase = "reserving", !.left = <<>>,
                         !.locked = {Head(txn[o].left)},
                         !.driver = Head(txn[o].left)]]
  /\ UNCHANGED <<driverRow, reservation, request, net, dlq>>

(* ... or nothing, because the driver is full, not AVAILABLE or locked.    *)
SkipCandidate(o) ==
  /\ txn[o].phase = "scan"
  /\ txn[o].left # <<>>
  /\ ~Lockable(Head(txn[o].left))
  /\ txn' = [txn EXCEPT ![o].left = Tail(@)]
  /\ UNCHANGED <<driverRow, reservation, request, net, dlq>>

(* No candidate is left: NO_AVAILABLE_DRIVER.                              *)
GiveUp(o) ==
  /\ txn[o].phase = "scan"
  /\ txn[o].left = <<>>
  /\ Handled(txn[o].event, {NewEvent(ReservationFailed, o, NoDriver)})
  /\ Finish(o)
  /\ UNCHANGED <<driverRow, reservation, request>>

(* Without a candidate list one query, which has no LIMIT, locks every row *)
(* with room that is not locked yet; the row with the least load is used.  *)
ScanAll(m) ==
  /\ m.type = ReservationRequested
  /\ txn[m.order] = NoTxn
  /\ reservation[m.order].status # "ACTIVE"
  /\ m.list = NoList
  /\ LET rows == {d \in Drivers : Lockable(d)}
     IN \/ /\ rows = {}
           /\ Handled(m, {NewEvent(ReservationFailed, m.order, NoDriver)})
           /\ UNCHANGED txn
        \/ \E d \in rows :
             /\ \A e \in rows : Load(driverRow[d]) <= Load(driverRow[e])
             /\ txn' = [txn EXCEPT ![m.order] =
                          [NoTxn EXCEPT !.phase = "reserving", !.event = m,
                                        !.locked = rows, !.driver = d]]
             /\ UNCHANGED busVars
  /\ UNCHANGED <<driverRow, reservation, request>>

(* Mutation of Insertable: an upsert.                                      *)
InsertableTwice(o) == TRUE

(* The unique index on order_id.                                           *)
Insertable(o) == reservation[o].status = "NONE"

(* The driver row, the reservation row and the answer commit together.     *)
CommitReserve(o) ==
  /\ txn[o].phase = "reserving"
  /\ Insertable(o)
  /\ LET d == txn[o].driver
     IN /\ driverRow' = [driverRow EXCEPT ![d] = Reserve(d, @, o)]
        /\ reservation' = [reservation EXCEPT ![o] =
                             [status |-> "ACTIVE", driver |-> d]]
        /\ Handled(txn[o].event, {NewEvent(DriverReserved, o, d)})
  /\ Finish(o)
  /\ UNCHANGED request

(* The order has a RELEASED row: the INSERT breaks the unique index on     *)
(* order_id, the whole transaction is rolled back and the handler throws.  *)
ReserveConflict(o) ==
  /\ txn[o].phase = "reserving"
  /\ ~Insertable(o)
  /\ Rejected(txn[o].event)
  /\ Finish(o)
  /\ UNCHANGED <<driverRow, reservation, request>>

-------------------------------------------------------------------------------
(* release(): the transaction of a driver.release_requested event.         *)

(* Nothing is held for the order: the answer is repeated.                  *)
ReleaseAgain(m) ==
  /\ m.type = ReleaseRequested
  /\ txn[m.order] = NoTxn
  /\ reservation[m.order].status # "ACTIVE"
  /\ LET d == IF reservation[m.order].status = "NONE" THEN m.driver
              ELSE reservation[m.order].driver
     IN Handled(m, {NewEvent(DriverReleased, m.order, d)})
  /\ UNCHANGED driverVars

BeginRelease(m) ==
  /\ m.type = ReleaseRequested
  /\ txn[m.order] = NoTxn
  /\ reservation[m.order].status = "ACTIVE"
  /\ txn' = [txn EXCEPT ![m.order] =
               [NoTxn EXCEPT !.phase = "waiting", !.event = m,
                             !.driver = reservation[m.order].driver]]
  /\ UNCHANGED <<driverRow, reservation, request, net, dlq>>

(* Mutation of LockForRelease: the WHERE clause of the reservation query.  *)
LockForReleaseWithRoom(o) ==
  /\ txn[o].phase = "waiting"
  /\ Lockable(txn[o].driver)
  /\ txn' = [txn EXCEPT ![o].phase = "releasing", ![o].locked = {txn[o].driver}]
  /\ UNCHANGED <<driverRow, reservation, request, net, dlq>>

(* FOR UPDATE without SKIP LOCKED waits for the row.                       *)
LockForRelease(o) ==
  /\ txn[o].phase = "waiting"
  /\ ~Locked(txn[o].driver)
  /\ txn' = [txn EXCEPT ![o].phase = "releasing",
                        ![o].locked = {txn[o].driver}]
  /\ UNCHANGED <<driverRow, reservation, request, net, dlq>>

CommitRelease(o) ==
  /\ txn[o].phase = "releasing"
  /\ LET d == txn[o].driver
     IN /\ driverRow' = [driverRow EXCEPT ![d] = Release(@, o)]
        /\ reservation' = [reservation EXCEPT ![o].status = "RELEASED"]
        /\ Handled(txn[o].event, {NewEvent(DriverReleased, o, d)})
  /\ Finish(o)
  /\ UNCHANGED request

(* A transaction can end without a commit.  Either the process dies and    *)
(* the broker delivers the event again, or a statement throws and the      *)
(* consumer retries the event.                                             *)
Rollback(o) ==
  /\ txn[o] # NoTxn
  /\ UNCHANGED busVars \/ Rejected(txn[o].event)
  /\ Finish(o)
  /\ UNCHANGED <<driverRow, reservation, request>>

-------------------------------------------------------------------------------
(* SetDriverAvailability: findById, the check in the aggregate, save.      *)

(* A driver with reservations is refused, which changes nothing.           *)
CheckAvailability(r, d, target) ==
  /\ request[r].phase = "idle"
  /\ driverRow[d].reserved = {}
  /\ request' = [request EXCEPT ![r] =
                   [phase |-> "checked", driver |-> d, target |-> target,
                    columns |-> {}]]
  /\ UNCHANGED <<driverRow, reservation, txn, net, dlq>>

(* The SELECT of save(): the columns in which the row differs now.         *)
DiffAvailability(r) ==
  /\ request[r].phase = "checked"
  /\ LET row == driverRow[request[r].driver]
         columns == (IF row.status # request[r].target THEN {"status"} ELSE {})
                      \cup (IF row.reserved # {} THEN {"reserved"} ELSE {})
     IN request' = [request EXCEPT ![r] =
                      [@ EXCEPT !.phase = "diffed", !.columns = columns]]
  /\ UNCHANGED <<driverRow, reservation, txn, net, dlq>>

(* The UPDATE of save(), which waits for the row lock.                     *)
SaveAvailability(r) ==
  /\ request[r].phase = "diffed"
  /\ ~Locked(request[r].driver)
  /\ LET d == request[r].driver
     IN driverRow' = [driverRow EXCEPT ![d] =
          [status |-> IF "status" \in request[r].columns
                      THEN request[r].target ELSE @.status,
           reserved |-> IF "reserved" \in request[r].columns
                        THEN {} ELSE @.reserved]]
  /\ request' = [request EXCEPT ![r] = NoRequest]
  /\ UNCHANGED <<reservation, txn, net, dlq>>

(* The process dies between two statements of the request.                 *)
DropAvailability(r) ==
  /\ request[r].phase # "idle"
  /\ request' = [request EXCEPT ![r] = NoRequest]
  /\ UNCHANGED <<driverRow, reservation, txn, net, dlq>>

-------------------------------------------------------------------------------
HandleReservationRequested(m) ==
  \/ ReserveAgain(m)
  \/ ReserveFromNone(m)
  \/ BeginScan(m)
  \/ ScanAll(m)

HandleReleaseRequested(m) == ReleaseAgain(m) \/ BeginRelease(m)

TxnStep(o) ==
  \/ LockCandidate(o)
  \/ SkipCandidate(o)
  \/ GiveUp(o)
  \/ CommitReserve(o)
  \/ ReserveConflict(o)
  \/ LockForRelease(o)
  \/ CommitRelease(o)

AvailabilityStep(r) ==
  \/ \E d \in Drivers, t \in {"AVAILABLE", "OFFLINE"} : CheckAvailability(r, d, t)
  \/ DiffAvailability(r)
  \/ SaveAvailability(r)
  \/ DropAvailability(r)

DriverNext ==
  \/ \E m \in net : HandleReservationRequested(m) \/ HandleReleaseRequested(m)
  \/ \E o \in Orders : TxnStep(o) \/ Rollback(o)
  \/ \E r \in Requests : AvailabilityStep(r)

-------------------------------------------------------------------------------
(* The invariants.                                                         *)

(* Never more orders on a driver than its capacity, in whatever way        *)
(* reservations, releases and availability changes interleave.             *)
CapacityRespected == \A d \in Drivers : Load(driverRow[d]) <= Capacity[d]

(* An order listed by a driver holds an ACTIVE reservation of this driver; *)
(* so no two drivers list it and no released order keeps using capacity.   *)
NoPhantomLoad ==
  \A d \in Drivers : \A o \in driverRow[d].reserved :
    reservation[o] = [status |-> "ACTIVE", driver |-> d]

(* The other half: an ACTIVE reservation is counted in the driver's load.  *)
(* The unlocked availability save can break it.                            *)
ReservationCounted ==
  \A o \in Orders : reservation[o].status = "ACTIVE" =>
    o \in driverRow[reservation[o].driver].reserved

(* The status column says exactly whether the driver is full.              *)
StatusMatchesLoad ==
  \A d \in Drivers :
    (driverRow[d].status = "RESERVED") <=> (Load(driverRow[d]) = Capacity[d])

(* The orders for which the reservation table gives the driver.            *)
HeldBy(d) == {o \in Orders : reservation[o] = [status |-> "ACTIVE", driver |-> d]}

(* Active reservations, which is what dispatch relies on, stay within the  *)
(* capacity of the driver.                                                 *)
ReservationsWithinCapacity ==
  \A d \in Drivers : Cardinality(HeldBy(d)) <= Capacity[d]

Ledger == INSTANCE ReservationLedger WITH
            held <- [d \in Drivers |-> HeldBy(d)],
            spent <- {o \in Orders : reservation[o].status = "RELEASED"}

(* The transactions with their locks, queries, rollbacks and repeated      *)
(* requests implement the ledger: no order is served twice, and none gets  *)
(* a place that another order has.  The availability save can break it.    *)
ImplementsLedger == Ledger!Spec

(* The inductive invariant behind CapacityRespected and NoPhantomLoad: a   *)
(* transaction that is about to write a driver row has locked it, nobody   *)
(* else has, and what its query saw is still true.                         *)
RowLocksExclusive ==
  \A o, p \in Orders : o # p => txn[o].locked \cap txn[p].locked = {}

OwnsItsRow(o, t) ==
  /\ t.phase \in {"idle", "scan", "waiting"} => t.locked = {}
  /\ t.phase = "reserving" =>
       t.driver \in Drivers /\ t.driver \in t.locked /\ HasRoom(t.driver)
  /\ t.phase \in {"waiting", "releasing"} =>
       t.driver \in Drivers /\ reservation[o] = [status |-> "ACTIVE", driver |-> t.driver]
  /\ t.phase = "releasing" => t.locked = {t.driver}

DriverInv ==
  /\ CapacityRespected
  /\ NoPhantomLoad
  /\ RowLocksExclusive
  /\ \A o \in Orders : OwnsItsRow(o, txn[o])
  /\ \A o \in Orders : reservation[o].status = "ACTIVE" => reservation[o].driver \in Drivers
  /\ \A d \in Drivers : IsFiniteSet(driverRow[d].reserved)

(* A reservation is made once and released once: it never moves to another *)
(* driver and a released order never holds capacity again, whatever        *)
(* duplicates of old requests are still on their way.                      *)
ReservationsOnlyMoveForward ==
  [][\A o \in Orders :
       \/ reservation'[o] = reservation[o]
       \/ reservation[o].status = "NONE" /\ reservation'[o].status = "ACTIVE"
       \/ /\ reservation[o].status = "ACTIVE"
          /\ reservation'[o] = [reservation[o] EXCEPT !.status = "RELEASED"]
    ]_driverVars
===============================================================================
