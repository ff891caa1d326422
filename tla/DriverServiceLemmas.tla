-------------------------- MODULE DriverServiceLemmas --------------------------
(***************************************************************************)
(* What the steps of the driver service preserve, whoever sends it its     *)
(* requests: facts about DriverNext for every set of orders, drivers and   *)
(* candidate lists and all capacities.                                     *)
(***************************************************************************)
EXTENDS DriverService, FiniteSetTheorems, TLAPS

-------------------------------------------------------------------------------
(* The bus keeps its type when a handler settles or rejects an event.      *)

LEMMA NewEventType ==
  ASSUME NEW type \in EventTypes, NEW o \in Orders, NEW d \in MaybeDriver
  PROVE  NewEvent(type, o, d) \in Events
  BY BusAssumption DEF NewEvent, Events, Lists, BusAssumption

LEMMA HandledType ==
  ASSUME BusTypeOK, NEW m, NEW out \in SUBSET Events, Handled(m, out)
  PROVE  BusTypeOK'
  BY DEF BusTypeOK, Handled, Settled, Unsettled

LEMMA RejectedType ==
  ASSUME BusTypeOK, NEW m \in Events, Rejected(m)
  PROVE  BusTypeOK'
<1>1. m.tries < MaxRetries => [m EXCEPT !.tries = @ + 1] \in Events
  BY BusAssumption DEF Events, BusAssumption
<1>2. m.order \in Orders
  BY DEF Events
<1>3. QED
  BY <1>1, <1>2 DEF BusTypeOK, Rejected

-------------------------------------------------------------------------------
(* Type correctness.                                                       *)

LEMMA DriverInitType == BusInit /\ DriverInit => BusTypeOK /\ DriverTypeOK
  BY DEF BusInit, DriverInit, BusTypeOK, DriverTypeOK, NoReservation, NoRequest,
         MaybeDriver, DriverStatuses

LEMMA FinishType ==
  ASSUME DriverTypeOK, NEW o \in Orders, Finish(o)
  PROVE  txn' \in [Orders -> Txns \cup {NoTxn}]
  BY DEF DriverTypeOK, Finish

LEMMA EmptyList == <<>> \in Seq(Drivers)
  OBVIOUS

LEMMA DriverNextType ==
  ASSUME BusTypeOK, DriverTypeOK, DriverNext
  PROVE  BusTypeOK' /\ DriverTypeOK'
<1>1. ASSUME NEW m \in net, HandleReservationRequested(m)
      PROVE  BusTypeOK' /\ DriverTypeOK'
  <2> m \in Events /\ m.order \in Orders /\ m.list \in Lists
    BY DEF BusTypeOK, Events
  <2> reservation[m.order].driver \in MaybeDriver /\ NoDriver \in MaybeDriver
    BY DEF DriverTypeOK, MaybeDriver
  <2>1. CASE ReserveAgain(m)
    <3>1. NewEvent(DriverReserved, m.order, reservation[m.order].driver) \in Events
      BY NewEventType DEF EventTypes
    <3>2. QED  BY <2>1, <3>1, HandledType DEF ReserveAgain, DriverTypeOK, driverVars
  <2>2. NewEvent(ReservationFailed, m.order, NoDriver) \in Events
    BY NewEventType DEF EventTypes
  <2>3. CASE ReserveFromNone(m)
    BY <2>2, <2>3, HandledType DEF ReserveFromNone, DriverTypeOK, driverVars
  <2>4. CASE BeginScan(m)
    <3>1. m.list \in Seq(Drivers)
      BY <2>4 DEF BeginScan, Lists
    <3>2. [NoTxn EXCEPT !.phase = "scan", !.event = m, !.left = m.list] \in Txns
      BY <3>1 DEF NoTxn, Txns, MaybeDriver
    <3>3. QED  BY <2>4, <3>2 DEF BeginScan, BusTypeOK, DriverTypeOK
  <2>5. CASE ScanAll(m)
    <3> DEFINE rows == {d \in Drivers : Lockable(d)}
    <3>1. CASE rows = {} /\ UNCHANGED txn
               /\ Handled(m, {NewEvent(ReservationFailed, m.order, NoDriver)})
      BY <2>2, <2>5, <3>1, HandledType DEF ScanAll, DriverTypeOK
    <3>2. ASSUME NEW d \in rows, UNCHANGED busVars,
                 txn' = [txn EXCEPT ![m.order] =
                          [NoTxn EXCEPT !.phase = "reserving", !.event = m,
                                        !.locked = rows, !.driver = d]]
          PROVE  BusTypeOK' /\ DriverTypeOK'
      <4>1. d \in MaybeDriver /\ rows \in SUBSET MaybeDriver
        BY DEF MaybeDriver
      <4> HIDE DEF rows
      <4>2. [NoTxn EXCEPT !.phase = "reserving", !.event = m,
                          !.locked = rows, !.driver = d] \in Txns
        BY <4>1, EmptyList DEF NoTxn, Txns
      <4>3. QED  BY <2>5, <3>2, <4>2
                 DEF ScanAll, BusTypeOK, busVars, DriverTypeOK
    <3>3. QED  BY <2>5, <3>1, <3>2 DEF ScanAll
  <2>6. QED  BY <1>1, <2>1, <2>3, <2>4, <2>5 DEF HandleReservationRequested
<1>2. ASSUME NEW m \in net, HandleReleaseRequested(m)
      PROVE  BusTypeOK' /\ DriverTypeOK'
  <2> m \in Events /\ m.order \in Orders /\ m.driver \in MaybeDriver
    BY DEF BusTypeOK, Events
  <2> reservation[m.order].driver \in MaybeDriver
    BY DEF DriverTypeOK, MaybeDriver
  <2>1. CASE ReleaseAgain(m)
    <3>1. \A d \in MaybeDriver : NewEvent(DriverReleased, m.order, d) \in Events
      BY NewEventType DEF EventTypes
    <3>2. QED  BY <2>1, <3>1, HandledType DEF ReleaseAgain, DriverTypeOK, driverVars
  <2>2. CASE BeginRelease(m)
    <3>1. [NoTxn EXCEPT !.phase = "waiting", !.event = m,
                        !.driver = reservation[m.order].driver] \in Txns
      BY EmptyList DEF NoTxn, Txns
    <3>2. QED  BY <2>2, <3>1 DEF BeginRelease, BusTypeOK, DriverTypeOK
  <2>3. QED  BY <1>2, <2>1, <2>2 DEF HandleReleaseRequested
<1>3. ASSUME NEW o \in Orders, TxnStep(o) \/ Rollback(o)
      PROVE  BusTypeOK' /\ DriverTypeOK'
  <2>1. txn[o] # NoTxn
    BY <1>3 DEF TxnStep, Rollback, LockCandidate, SkipCandidate, GiveUp, CommitReserve, ReserveConflict,
                LockForRelease, CommitRelease, NoTxn
  <2>2. /\ txn[o] \in Txns
        /\ txn[o].event \in Events
        /\ txn[o].driver \in MaybeDriver
        /\ NoDriver \in MaybeDriver
    BY <2>1 DEF DriverTypeOK, Txns, MaybeDriver
  <2>3. \A type \in EventTypes, d \in MaybeDriver : NewEvent(type, o, d) \in Events
    BY NewEventType
  <2>4. CASE LockCandidate(o)
    <3>1. Head(txn[o].left) \in Drivers
      BY <2>2, <2>4 DEF Txns, LockCandidate
    <3>2. [txn[o] EXCEPT !.phase = "reserving", !.left = <<>>,
                         !.locked = {Head(txn[o].left)},
                         !.driver = Head(txn[o].left)] \in Txns
      BY <2>2, <3>1, EmptyList DEF Txns, MaybeDriver
    <3>3. QED  BY <2>4, <3>2 DEF LockCandidate, BusTypeOK, DriverTypeOK
  <2>12. CASE SkipCandidate(o)
    <3>1. Tail(txn[o].left) \in Seq(Drivers)
      BY <2>2, <2>12 DEF Txns, SkipCandidate
    <3>2. [txn[o] EXCEPT !.left = Tail(txn[o].left)] \in Txns
      BY <2>2, <3>1 DEF Txns
    <3>3. QED  BY <2>12, <3>2 DEF SkipCandidate, BusTypeOK, DriverTypeOK
  <2>5. CASE GiveUp(o)
    <3>1. NewEvent(ReservationFailed, o, NoDriver) \in Events
      BY <2>2, <2>3 DEF EventTypes
    <3>2. BusTypeOK'
      BY <2>5, <3>1, HandledType DEF GiveUp
    <3>3. QED  BY <2>5, <3>2, FinishType DEF GiveUp, DriverTypeOK
  <2>6. CASE CommitReserve(o)
    <3>1. NewEvent(DriverReserved, o, txn[o].driver) \in Events
      BY <2>2, <2>3 DEF EventTypes
    <3>2. BusTypeOK'
      BY <2>6, <3>1, HandledType DEF CommitReserve, Insertable
    <3>3. ASSUME NEW d \in Drivers
          PROVE  Reserve(d, driverRow[d], o) \in
                   [status : DriverStatuses, reserved : SUBSET Orders]
      BY DEF Reserve, DriverTypeOK, DriverStatuses
    <3>4. QED  BY <2>2, <2>6, <3>2, <3>3, FinishType DEF CommitReserve, Insertable, DriverTypeOK, Txns
  <2>7. CASE ReserveConflict(o)
    BY <2>2, <2>7, RejectedType, FinishType DEF ReserveConflict, Insertable, DriverTypeOK
  <2>8. CASE LockForRelease(o)
    <3>1. [txn[o] EXCEPT !.phase = "releasing", !.locked = {txn[o].driver}] \in Txns
      BY <2>2, <2>8 DEF Txns, LockForRelease
    <3>2. QED  BY <2>8, <3>1 DEF LockForRelease, BusTypeOK, DriverTypeOK
  <2>9. CASE CommitRelease(o)
    <3>1. NewEvent(DriverReleased, o, txn[o].driver) \in Events
      BY <2>2, <2>3 DEF EventTypes
    <3>2. BusTypeOK'
      BY <2>9, <3>1, HandledType DEF CommitRelease
    <3>3. ASSUME NEW d \in Drivers
          PROVE  Release(driverRow[d], o) \in
                   [status : DriverStatuses, reserved : SUBSET Orders]
      BY DEF Release, DriverTypeOK, DriverStatuses
    <3>4. driverRow' \in [Drivers -> [status : DriverStatuses, reserved : SUBSET Orders]]
      BY <2>9, <3>3 DEF CommitRelease, DriverTypeOK
    <3>5. reservation' \in [Orders -> [status : {"NONE", "ACTIVE", "RELEASED"},
                                      driver : MaybeDriver]]
      BY <2>9 DEF CommitRelease, DriverTypeOK
    <3>6. QED  BY <2>9, <3>2, <3>4, <3>5, FinishType DEF CommitRelease, DriverTypeOK
  <2>10. CASE Rollback(o)
    BY <2>2, <2>10, RejectedType, FinishType
    DEF Rollback, BusTypeOK, busVars, DriverTypeOK
  <2>11. QED  BY <1>3, <2>4, <2>5, <2>6, <2>7, <2>8, <2>9, <2>10, <2>12 DEF TxnStep
<1>4. ASSUME NEW r \in Requests, AvailabilityStep(r)
      PROVE  BusTypeOK' /\ DriverTypeOK'
  <2>1. CASE \E d \in Drivers, t \in {"AVAILABLE", "OFFLINE"} : CheckAvailability(r, d, t)
    BY <2>1 DEF CheckAvailability, BusTypeOK, DriverTypeOK, MaybeDriver
  <2>2. CASE DiffAvailability(r)
    <3> DEFINE columns ==
      (IF driverRow[request[r].driver].status # request[r].target THEN {"status"} ELSE {})
        \cup (IF driverRow[request[r].driver].reserved # {} THEN {"reserved"} ELSE {})
    <3>1. columns \in SUBSET {"status", "reserved"}
      OBVIOUS
    <3>2. request' = [request EXCEPT ![r] =
                        [@ EXCEPT !.phase = "diffed", !.columns = columns]]
      BY <2>2 DEF DiffAvailability
    <3> HIDE DEF columns
    <3>3. [request[r] EXCEPT !.phase = "diffed", !.columns = columns]
            \in [phase : {"idle", "checked", "diffed"}, driver : MaybeDriver,
                target : {"AVAILABLE", "OFFLINE"},
                columns : SUBSET {"status", "reserved"}]
      BY <3>1 DEF DriverTypeOK
    <3>4. DriverTypeOK!4'
      BY <3>2, <3>3 DEF DriverTypeOK
    <3>5. UNCHANGED <<driverRow, reservation, txn, net, dlq>>
      BY <2>2 DEF DiffAvailability
    <3>6. QED  BY <3>4, <3>5 DEF BusTypeOK, DriverTypeOK
  <2>3. CASE SaveAvailability(r)
    BY <2>3 DEF SaveAvailability, BusTypeOK, DriverTypeOK, NoRequest, MaybeDriver,
                DriverStatuses
  <2>4. CASE DropAvailability(r)
    BY <2>4 DEF DropAvailability, BusTypeOK, DriverTypeOK, NoRequest, MaybeDriver
  <2>5. QED  BY <1>4, <2>1, <2>2, <2>3, <2>4 DEF AvailabilityStep
<1>5. QED  BY <1>1, <1>2, <1>3, <1>4 DEF DriverNext

-------------------------------------------------------------------------------
(* The inductive invariant.                                                *)

LEMMA DriverInitInv == DriverInit => DriverInv
<1> SUFFICES ASSUME DriverInit PROVE DriverInv
  OBVIOUS
<1> USE DEF DriverInit
<1>1. \A d \in Drivers : IsFiniteSet(driverRow[d].reserved) /\ Load(driverRow[d]) = 0
  BY FS_EmptySet DEF Load
<1>2. CapacityRespected
  BY <1>1, DriverAssumption DEF CapacityRespected, DriverAssumption
<1>3. NoPhantomLoad
  BY DEF NoPhantomLoad
<1>4. RowLocksExclusive /\ \A o \in Orders : OwnsItsRow(o, txn[o])
  BY DEF RowLocksExclusive, OwnsItsRow, NoTxn
<1>5. \A o \in Orders : reservation[o].status # "ACTIVE"
  BY DEF NoReservation
<1>6. QED  BY <1>1, <1>2, <1>3, <1>4, <1>5 DEF DriverInv

(* A step that writes no row keeps the invariant if the transaction it     *)
(* changes owns the rows it has locked.                                    *)
LEMMA TxnOnlyInv ==
  ASSUME BusTypeOK, DriverTypeOK, DriverInv, NEW o \in Orders, NEW t \in Txns \cup {NoTxn},
         UNCHANGED <<driverRow, reservation>>,
         txn' = [txn EXCEPT ![o] = t],
         OwnsItsRow(o, t),
         \A p \in Orders : p # o => txn[p].locked \cap t.locked = {}
  PROVE  DriverInv'
<1>1. txn \in [Orders -> Txns \cup {NoTxn}]
  BY DEF DriverTypeOK
<1>2. RowLocksExclusive'
  BY <1>1 DEF DriverInv, RowLocksExclusive
<1>3. \A p \in Orders : OwnsItsRow(p, txn[p])'
  BY <1>1 DEF DriverInv, OwnsItsRow, HasRoom, Load
<1>4. CapacityRespected' /\ NoPhantomLoad'
  BY DEF DriverInv, CapacityRespected, NoPhantomLoad, Load
<1>5. QED  BY <1>2, <1>3, <1>4 DEF DriverInv

LEMMA FinishInv ==
  ASSUME BusTypeOK, DriverTypeOK, DriverInv, NEW o \in Orders, Finish(o),
         UNCHANGED <<driverRow, reservation>>
  PROVE  DriverInv'
<1>1. OwnsItsRow(o, NoTxn) /\ NoTxn.locked = {}
  BY DEF OwnsItsRow, NoTxn
<1>2. QED  BY <1>1, TxnOnlyInv DEF Finish

LEMMA UnchangedInv ==
  ASSUME DriverInv, UNCHANGED <<driverRow, reservation, txn>>
  PROVE  DriverInv'
  BY DEF DriverInv, CapacityRespected, NoPhantomLoad, RowLocksExclusive, OwnsItsRow,
         HasRoom, Load

LEMMA CommitReserveInv ==
  ASSUME BusTypeOK, DriverTypeOK, DriverInv, NEW o \in Orders, CommitReserve(o)
  PROVE  DriverInv'
<1> DEFINE d == txn[o].driver
           held == driverRow[d].reserved \cup {o}
<1>1. /\ d \in Drivers /\ d \in txn[o].locked /\ HasRoom(d)
      /\ txn \in [Orders -> Txns \cup {NoTxn}]
      /\ driverRow \in [Drivers -> [status : DriverStatuses, reserved : SUBSET Orders]]
      /\ reservation \in [Orders -> [status : {"NONE", "ACTIVE", "RELEASED"},
                                     driver : MaybeDriver]]
  BY DEF CommitReserve, Insertable, DriverInv, OwnsItsRow, DriverTypeOK
<1>2. /\ driverRow' = [driverRow EXCEPT ![d] = Reserve(d, driverRow[d], o)]
      /\ reservation' = [reservation EXCEPT ![o] = [status |-> "ACTIVE", driver |-> d]]
      /\ txn' = [txn EXCEPT ![o] = NoTxn]
      /\ reservation[o].status = "NONE"
  BY DEF CommitReserve, Insertable, Finish
<1>3. Reserve(d, driverRow[d], o).reserved = held
  BY DEF Reserve
<1>4. \A e \in Drivers : o \notin driverRow[e].reserved
  <2> SUFFICES ASSUME NEW e \in Drivers, o \in driverRow[e].reserved PROVE FALSE
    OBVIOUS
  <2>1. reservation[o] = [status |-> "ACTIVE", driver |-> e]
    BY DEF DriverInv, NoPhantomLoad
  <2>2. QED  BY <1>2, <2>1
<1>5. IsFiniteSet(held) /\ Cardinality(held) <= Capacity[d]
  <2>1. IsFiniteSet(driverRow[d].reserved) /\ Cardinality(driverRow[d].reserved) < Capacity[d]
    BY <1>1 DEF DriverInv, HasRoom, Load
  <2>2. /\ IsFiniteSet(held)
        /\ Cardinality(held) = Cardinality(driverRow[d].reserved) + 1
        /\ Cardinality(driverRow[d].reserved) \in Nat
    BY <1>1, <1>4, <2>1, FS_AddElement, FS_CardinalityType
  <2>3. Capacity[d] \in Nat
    BY <1>1, DriverAssumption DEF DriverAssumption
  <2>4. QED  BY <2>1, <2>2, <2>3
<1>6. \A e \in Drivers : e # d => driverRow'[e] = driverRow[e]
  BY <1>1, <1>2
<1>7. driverRow'[d].reserved = held
  BY <1>1, <1>2, <1>3
<1> HIDE DEF d, held
<1>8. CapacityRespected' /\ \A e \in Drivers : IsFiniteSet(driverRow[e].reserved)'
  BY <1>1, <1>5, <1>6, <1>7 DEF DriverInv, CapacityRespected, Load
<1>9. NoPhantomLoad'
  <2> SUFFICES ASSUME NEW e \in Drivers, NEW p \in driverRow'[e].reserved
               PROVE  reservation'[p] = [status |-> "ACTIVE", driver |-> e]
    BY DEF NoPhantomLoad
  <2>1. CASE p = o
    <3>1. e = d
      BY <1>4, <1>6, <2>1
    <3>2. QED  BY <1>1, <1>2, <2>1, <3>1
  <2>2. CASE p # o
    <3>1. p \in driverRow[e].reserved
      BY <1>6, <1>7, <2>2 DEF held
    <3>2. p \in Orders /\ reservation[p] = [status |-> "ACTIVE", driver |-> e]
      BY <1>1, <3>1 DEF DriverInv, NoPhantomLoad
    <3>3. QED  BY <1>1, <1>2, <2>2, <3>2
  <2>3. QED  BY <2>1, <2>2
<1>10. RowLocksExclusive'
  BY <1>1, <1>2 DEF DriverInv, RowLocksExclusive, NoTxn
<1>11. \A p \in Orders : OwnsItsRow(p, txn[p])'
  <2> SUFFICES ASSUME NEW p \in Orders PROVE OwnsItsRow(p, txn[p])'
    OBVIOUS
  <2>1. CASE p = o
    BY <1>1, <1>2, <2>1 DEF OwnsItsRow, NoTxn
  <2>2. CASE p # o
    <3>1. txn'[p] = txn[p] /\ reservation'[p] = reservation[p]
      BY <1>1, <1>2, <2>2
    <3>2. txn[p].phase = "reserving" => txn[p].driver # d
      BY <1>1, <2>2 DEF DriverInv, OwnsItsRow, RowLocksExclusive
    <3>3. OwnsItsRow(p, txn[p])
      BY DEF DriverInv
    <3>4. QED  BY <3>1, <3>2, <3>3, <1>6 DEF OwnsItsRow, HasRoom, Load
  <2>3. QED  BY <2>1, <2>2
<1>12. \A p \in Orders : reservation'[p].status = "ACTIVE" => reservation'[p].driver \in Drivers
  BY <1>1, <1>2 DEF DriverInv
<1>13. QED  BY <1>8, <1>9, <1>10, <1>11, <1>12 DEF DriverInv

LEMMA CommitReleaseInv ==
  ASSUME BusTypeOK, DriverTypeOK, DriverInv, NEW o \in Orders, CommitRelease(o)
  PROVE  DriverInv'
<1> DEFINE d == txn[o].driver
           kept == driverRow[d].reserved \ {o}
<1>1. /\ d \in Drivers /\ txn[o].locked = {d}
      /\ reservation[o] = [status |-> "ACTIVE", driver |-> d]
      /\ txn \in [Orders -> Txns \cup {NoTxn}]
      /\ driverRow \in [Drivers -> [status : DriverStatuses, reserved : SUBSET Orders]]
      /\ reservation \in [Orders -> [status : {"NONE", "ACTIVE", "RELEASED"},
                                     driver : MaybeDriver]]
  BY DEF CommitRelease, DriverInv, OwnsItsRow, DriverTypeOK
<1>2. /\ driverRow' = [driverRow EXCEPT ![d] = Release(driverRow[d], o)]
      /\ reservation' = [reservation EXCEPT ![o].status = "RELEASED"]
      /\ txn' = [txn EXCEPT ![o] = NoTxn]
  BY DEF CommitRelease, Finish
<1>3. Release(driverRow[d], o).reserved = kept
  BY <1>1 DEF Release
<1>4. \A e \in Drivers : e # d => o \notin driverRow[e].reserved
  <2> SUFFICES ASSUME NEW e \in Drivers, o \in driverRow[e].reserved PROVE e = d
    OBVIOUS
  <2>1. reservation[o] = [status |-> "ACTIVE", driver |-> e]
    BY DEF DriverInv, NoPhantomLoad
  <2>2. QED  BY <1>1, <2>1
<1>5. IsFiniteSet(kept) /\ Cardinality(kept) <= Capacity[d]
  <2>1. IsFiniteSet(driverRow[d].reserved) /\ Cardinality(driverRow[d].reserved) <= Capacity[d]
    BY <1>1 DEF DriverInv, CapacityRespected, Load
  <2>2. /\ IsFiniteSet(kept)
        /\ Cardinality(kept) <= Cardinality(driverRow[d].reserved)
        /\ Cardinality(driverRow[d].reserved) \in Nat /\ Cardinality(kept) \in Nat
    BY <2>1, FS_Subset, FS_CardinalityType
  <2>3. Capacity[d] \in Nat
    BY <1>1, DriverAssumption DEF DriverAssumption
  <2>4. QED  BY <2>1, <2>2, <2>3
<1>6. \A e \in Drivers : e # d => driverRow'[e] = driverRow[e]
  BY <1>1, <1>2
<1>7. driverRow'[d].reserved = kept
  BY <1>1, <1>2, <1>3
<1> HIDE DEF d, kept
<1>8. CapacityRespected' /\ \A e \in Drivers : IsFiniteSet(driverRow[e].reserved)'
  BY <1>1, <1>5, <1>6, <1>7 DEF DriverInv, CapacityRespected, Load
<1>9. NoPhantomLoad'
  <2> SUFFICES ASSUME NEW e \in Drivers, NEW p \in driverRow'[e].reserved
               PROVE  reservation'[p] = [status |-> "ACTIVE", driver |-> e]
    BY DEF NoPhantomLoad
  <2>1. p # o /\ p \in driverRow[e].reserved
    BY <1>4, <1>6, <1>7 DEF kept
  <2>2. p \in Orders /\ reservation[p] = [status |-> "ACTIVE", driver |-> e]
    BY <1>1, <2>1 DEF DriverInv, NoPhantomLoad
  <2>3. QED  BY <1>1, <1>2, <2>1, <2>2
<1>10. RowLocksExclusive'
  BY <1>1, <1>2 DEF DriverInv, RowLocksExclusive, NoTxn
<1>11. \A p \in Orders : OwnsItsRow(p, txn[p])'
  <2> SUFFICES ASSUME NEW p \in Orders PROVE OwnsItsRow(p, txn[p])'
    OBVIOUS
  <2>1. CASE p = o
    BY <1>1, <1>2, <2>1 DEF OwnsItsRow, NoTxn
  <2>2. CASE p # o
    <3>1. txn'[p] = txn[p] /\ reservation'[p] = reservation[p]
      BY <1>1, <1>2, <2>2
    <3>2. txn[p].phase = "reserving" => txn[p].driver # d
      BY <1>1, <2>2 DEF DriverInv, OwnsItsRow, RowLocksExclusive
    <3>3. OwnsItsRow(p, txn[p])
      BY DEF DriverInv
    <3>4. QED  BY <3>1, <3>2, <3>3, <1>6 DEF OwnsItsRow, HasRoom, Load
  <2>3. QED  BY <2>1, <2>2
<1>12. \A p \in Orders : reservation'[p].status = "ACTIVE" => reservation'[p].driver \in Drivers
  BY <1>1, <1>2 DEF DriverInv
<1>13. QED  BY <1>8, <1>9, <1>10, <1>11, <1>12 DEF DriverInv

(* The unlocked save writes a row no transaction has locked, and leaves it *)
(* with the orders it had or with none.                                    *)
LEMMA SaveAvailabilityInv ==
  ASSUME BusTypeOK, DriverTypeOK, DriverInv, NEW r \in Requests, SaveAvailability(r)
  PROVE  DriverInv'
<1> DEFINE d == request[r].driver
<1>1. /\ ~Locked(d)
      /\ UNCHANGED <<reservation, txn>>
      /\ driverRow \in [Drivers -> [status : DriverStatuses, reserved : SUBSET Orders]]
      /\ \A e \in Drivers : e # d => driverRow'[e] = driverRow[e]
      /\ d \in Drivers => driverRow'[d].reserved \in {{}, driverRow[d].reserved}
  BY DEF SaveAvailability, DriverTypeOK
<1> HIDE DEF d
<1>2. \A e \in Drivers : driverRow'[e].reserved \in {{}, driverRow[e].reserved}
  BY <1>1
<1>3. \A e \in Drivers : IsFiniteSet(driverRow[e].reserved)'
  BY <1>2, FS_EmptySet DEF DriverInv
<1>4. CapacityRespected'
  <2> SUFFICES ASSUME NEW e \in Drivers PROVE Cardinality(driverRow'[e].reserved) <= Capacity[e]
    BY DEF CapacityRespected, Load
  <2>1. Capacity[e] \in Nat /\ Cardinality(driverRow[e].reserved) <= Capacity[e]
    BY DriverAssumption DEF DriverAssumption, DriverInv, CapacityRespected, Load
  <2>2. Cardinality({}) = 0
    BY FS_EmptySet
  <2>3. CASE driverRow'[e].reserved = {}
    BY <2>1, <2>2, <2>3
  <2>4. CASE driverRow'[e].reserved = driverRow[e].reserved
    BY <2>1, <2>4
  <2>5. QED  BY <1>2, <2>3, <2>4
<1>5. NoPhantomLoad'
  BY <1>1, <1>2 DEF DriverInv, NoPhantomLoad
<1>6. RowLocksExclusive'
  BY <1>1 DEF DriverInv, RowLocksExclusive
<1>7. \A o \in Orders : OwnsItsRow(o, txn[o])'
  <2> SUFFICES ASSUME NEW o \in Orders PROVE OwnsItsRow(o, txn[o])'
    OBVIOUS
  <2>1. OwnsItsRow(o, txn[o])
    BY DEF DriverInv
  <2>2. txn[o].phase = "reserving" => txn[o].driver # d
    BY <1>1, <2>1 DEF OwnsItsRow, Locked
  <2>3. QED  BY <1>1, <2>1, <2>2 DEF OwnsItsRow, HasRoom, Load
<1>8. QED  BY <1>1, <1>3, <1>4, <1>5, <1>6, <1>7 DEF DriverInv

LEMMA DriverNextInv ==
  ASSUME BusTypeOK, DriverTypeOK, DriverInv, DriverNext
  PROVE  DriverInv'
<1>1. ASSUME NEW m \in net, HandleReservationRequested(m)
      PROVE  DriverInv'
  <2> m \in Events /\ m.order \in Orders /\ m.list \in Lists
    BY DEF BusTypeOK, Events
  <2>1. CASE ReserveAgain(m) \/ ReserveFromNone(m)
    BY <2>1, UnchangedInv DEF ReserveAgain, ReserveFromNone, driverVars
  <2>2. CASE BeginScan(m)
    <3> DEFINE t == [NoTxn EXCEPT !.phase = "scan", !.event = m, !.left = m.list]
    <3>1. t \in Txns /\ t.locked = {} /\ OwnsItsRow(m.order, t)
      BY <2>2 DEF BeginScan, NoTxn, Txns, MaybeDriver, OwnsItsRow, Lists
    <3>2. QED  BY <2>2, <3>1, TxnOnlyInv DEF BeginScan
  <2>3. CASE ScanAll(m)
    <3> DEFINE rows == {d \in Drivers : Lockable(d)}
    <3>1. CASE UNCHANGED txn
      BY <2>3, <3>1, UnchangedInv DEF ScanAll
    <3>2. ASSUME NEW d \in rows,
                 txn' = [txn EXCEPT ![m.order] =
                          [NoTxn EXCEPT !.phase = "reserving", !.event = m,
                                        !.locked = rows, !.driver = d]]
          PROVE  DriverInv'
      <4> DEFINE t == [NoTxn EXCEPT !.phase = "reserving", !.event = m,
                                    !.locked = rows, !.driver = d]
      <4>1. /\ d \in Drivers /\ HasRoom(d) /\ rows \subseteq Drivers
            /\ \A p \in Orders : txn[p].locked \cap rows = {}
        BY DEF Lockable, Locked
      <4> HIDE DEF rows
      <4>2. t \in Txns /\ t.locked = rows /\ OwnsItsRow(m.order, t)
        BY <3>2, <4>1, EmptyList DEF NoTxn, Txns, MaybeDriver, OwnsItsRow
      <4>3. UNCHANGED <<driverRow, reservation>>
        BY <2>3 DEF ScanAll
      <4> HIDE DEF t
      <4>4. QED  BY <3>2, <4>1, <4>2, <4>3, TxnOnlyInv DEF t
    <3>3. QED  BY <2>3, <3>1, <3>2 DEF ScanAll
  <2>4. QED  BY <1>1, <2>1, <2>2, <2>3 DEF HandleReservationRequested
<1>2. ASSUME NEW m \in net, HandleReleaseRequested(m)
      PROVE  DriverInv'
  <2> m \in Events /\ m.order \in Orders
    BY DEF BusTypeOK, Events
  <2>1. CASE ReleaseAgain(m)
    BY <2>1, UnchangedInv DEF ReleaseAgain, driverVars
  <2>2. CASE BeginRelease(m)
    <3> DEFINE t == [NoTxn EXCEPT !.phase = "waiting", !.event = m,
                                  !.driver = reservation[m.order].driver]
    <3>1. /\ reservation[m.order] \in [status : {"NONE", "ACTIVE", "RELEASED"},
                                       driver : MaybeDriver]
          /\ reservation[m.order].status = "ACTIVE"
          /\ reservation[m.order].driver \in Drivers
      BY <2>2 DEF BeginRelease, DriverInv, DriverTypeOK
    <3>2. t \in Txns /\ t.locked = {} /\ OwnsItsRow(m.order, t)
      BY <3>1, EmptyList DEF NoTxn, Txns, MaybeDriver, OwnsItsRow
    <3>3. QED  BY <2>2, <3>2, TxnOnlyInv DEF BeginRelease
  <2>3. QED  BY <1>2, <2>1, <2>2 DEF HandleReleaseRequested
<1>3. ASSUME NEW o \in Orders, TxnStep(o) \/ Rollback(o)
      PROVE  DriverInv'
  <2>1. txn[o] # NoTxn
    BY <1>3 DEF TxnStep, Rollback, LockCandidate, SkipCandidate, GiveUp, CommitReserve,
                ReserveConflict, LockForRelease, CommitRelease, NoTxn
  <2>2. txn[o] \in Txns /\ OwnsItsRow(o, txn[o])
    BY <2>1 DEF DriverTypeOK, DriverInv
  <2>3. CASE LockCandidate(o)
    <3> DEFINE d == Head(txn[o].left)
               t == [txn[o] EXCEPT !.phase = "reserving", !.left = <<>>,
                                   !.locked = {d}, !.driver = d]
    <3>1. /\ d \in Drivers /\ HasRoom(d)
          /\ \A p \in Orders : d \notin txn[p].locked
      BY <2>2, <2>3 DEF LockCandidate, Lockable, Locked, Txns
    <3> HIDE DEF d
    <3>2. t \in Txns /\ t.locked = {d} /\ OwnsItsRow(o, t)
      BY <2>2, <3>1, EmptyList DEF Txns, MaybeDriver, OwnsItsRow
    <3>3. txn' = [txn EXCEPT ![o] = t] /\ UNCHANGED <<driverRow, reservation>>
      BY <2>3 DEF LockCandidate, d
    <3>4. \A p \in Orders : p # o => txn[p].locked \cap t.locked = {}
      BY <3>1, <3>2
    <3> HIDE DEF t
    <3>5. QED  BY <3>2, <3>3, <3>4, TxnOnlyInv
  <2>4. CASE SkipCandidate(o)
    <3> DEFINE t == [txn[o] EXCEPT !.left = Tail(txn[o].left)]
    <3>1. Tail(txn[o].left) \in Seq(Drivers)
      BY <2>2, <2>4 DEF SkipCandidate, Txns
    <3>2. t \in Txns /\ t.locked = {} /\ OwnsItsRow(o, t)
      BY <2>2, <2>4, <3>1 DEF SkipCandidate, Txns, OwnsItsRow
    <3>3. txn' = [txn EXCEPT ![o] = t] /\ UNCHANGED <<driverRow, reservation>>
      BY <2>4 DEF SkipCandidate
    <3> HIDE DEF t
    <3>4. QED  BY <3>1, <3>2, <3>3, TxnOnlyInv
  <2>5. CASE GiveUp(o) \/ ReserveConflict(o) \/ Rollback(o)
    BY <2>5, FinishInv DEF GiveUp, ReserveConflict, Rollback
  <2>6. CASE CommitReserve(o)
    BY <2>6, CommitReserveInv
  <2>7. CASE LockForRelease(o)
    <3> DEFINE d == txn[o].driver
               t == [txn[o] EXCEPT !.phase = "releasing", !.locked = {d}]
    <3>1. /\ d \in Drivers /\ reservation[o] = [status |-> "ACTIVE", driver |-> d]
          /\ \A p \in Orders : d \notin txn[p].locked
      BY <2>2, <2>7 DEF LockForRelease, Locked, OwnsItsRow
    <3>2. t \in Txns /\ t.locked = {d} /\ OwnsItsRow(o, t)
      BY <2>2, <3>1 DEF Txns, MaybeDriver, OwnsItsRow
    <3>3. txn' = [txn EXCEPT ![o] = t] /\ UNCHANGED <<driverRow, reservation>>
      BY <2>2, <2>7 DEF LockForRelease, DriverTypeOK
    <3>4. \A p \in Orders : p # o => txn[p].locked \cap t.locked = {}
      BY <3>1, <3>2
    <3> HIDE DEF t, d
    <3>5. QED  BY <3>2, <3>3, <3>4, TxnOnlyInv
  <2>8. CASE CommitRelease(o)
    BY <2>8, CommitReleaseInv
  <2>9. QED  BY <1>3, <2>3, <2>4, <2>5, <2>6, <2>7, <2>8 DEF TxnStep
<1>4. ASSUME NEW r \in Requests, AvailabilityStep(r)
      PROVE  DriverInv'
  <2>1. CASE SaveAvailability(r)
    BY <2>1, SaveAvailabilityInv
  <2>2. CASE UNCHANGED <<driverRow, reservation, txn>>
    BY <2>2, UnchangedInv
  <2>3. QED  BY <1>4, <2>1, <2>2 DEF AvailabilityStep, CheckAvailability, DiffAvailability,
                                     DropAvailability
<1>5. QED  BY <1>1, <1>2, <1>3, <1>4 DEF DriverNext

(* The only steps that write a row.                                        *)
LEMMA DriverRowWriters ==
  ASSUME DriverNext
  PROVE  \/ UNCHANGED <<driverRow, reservation>>
         \/ \E o \in Orders : CommitReserve(o) \/ CommitRelease(o)
         \/ \E r \in Requests : SaveAvailability(r)
  BY DEF driverVars, DriverNext, HandleReservationRequested,
         HandleReleaseRequested, ReserveAgain, ReserveFromNone, BeginScan, ScanAll,
         ReleaseAgain, BeginRelease, TxnStep, LockCandidate, SkipCandidate, GiveUp,
         ReserveConflict, LockForRelease, Rollback, AvailabilityStep,
         CheckAvailability, DiffAvailability, DropAvailability

(* A reservation is made once and released once.                           *)
LEMMA DriverNextForward ==
  ASSUME DriverTypeOK, DriverInv, DriverNext, NEW p \in Orders
  PROVE  \/ reservation'[p] = reservation[p]
         \/ reservation[p].status = "NONE" /\ reservation'[p].status = "ACTIVE"
         \/ /\ reservation[p].status = "ACTIVE"
            /\ reservation'[p] = [reservation[p] EXCEPT !.status = "RELEASED"]
<1> DEFINE Forward ==
      \/ reservation'[p] = reservation[p]
      \/ reservation[p].status = "NONE" /\ reservation'[p].status = "ACTIVE"
      \/ /\ reservation[p].status = "ACTIVE"
         /\ reservation'[p] = [reservation[p] EXCEPT !.status = "RELEASED"]
<1>1. reservation \in [Orders -> [status : {"NONE", "ACTIVE", "RELEASED"},
                                 driver : MaybeDriver]]
  BY DEF DriverTypeOK
<1>2. CASE UNCHANGED reservation
  BY <1>2
<1>3. ASSUME NEW o \in Orders, CommitReserve(o)
      PROVE  Forward
  BY <1>1, <1>3 DEF CommitReserve, Insertable
<1>4. ASSUME NEW o \in Orders, CommitRelease(o)
      PROVE  Forward
  <2>1. reservation[o].status = "ACTIVE"
    <3>1. OwnsItsRow(o, txn[o]) /\ txn[o].phase = "releasing"
      BY <1>4 DEF DriverInv, CommitRelease
    <3>2. reservation[o] = [status |-> "ACTIVE", driver |-> txn[o].driver]
      BY <3>1 DEF OwnsItsRow
    <3>3. QED  BY <3>2
  <2>2. reservation' = [reservation EXCEPT ![o] = [@ EXCEPT !.status = "RELEASED"]]
    BY <1>4 DEF CommitRelease
  <2>3. CASE p = o
    BY <1>1, <2>1, <2>2, <2>3
  <2>4. CASE p # o
    BY <1>1, <2>2, <2>4
  <2>5. QED  BY <2>3, <2>4
<1>5. QED
  <2>1. \/ UNCHANGED reservation
        \/ \E o \in Orders : CommitReserve(o) \/ CommitRelease(o)
    BY DriverRowWriters DEF SaveAvailability
  <2>2. QED  BY <1>2, <1>3, <1>4, <2>1

-------------------------------------------------------------------------------
(* The two books agree as long as nobody saves a driver without a lock.    *)

LedgerInv == ReservationCounted /\ StatusMatchesLoad

LEMMA CommitReserveLedger ==
  ASSUME BusTypeOK, DriverTypeOK, DriverInv, DriverInv', LedgerInv, NEW o \in Orders, CommitReserve(o)
  PROVE  LedgerInv'
<1> DEFINE d == txn[o].driver
           held == driverRow[d].reserved \cup {o}
<1>1. /\ d \in Drivers
      /\ driverRow \in [Drivers -> [status : DriverStatuses, reserved : SUBSET Orders]]
      /\ reservation \in [Orders -> [status : {"NONE", "ACTIVE", "RELEASED"},
                                     driver : MaybeDriver]]
  BY DEF CommitReserve, Insertable, DriverInv, OwnsItsRow, DriverTypeOK
<1>2. /\ driverRow' = [driverRow EXCEPT ![d] = Reserve(d, driverRow[d], o)]
      /\ reservation' = [reservation EXCEPT ![o] = [status |-> "ACTIVE", driver |-> d]]
  BY DEF CommitReserve, Insertable
<1>3. /\ driverRow'[d].reserved = held
      /\ driverRow'[d].status =
           IF Cardinality(held) >= Capacity[d] THEN "RESERVED" ELSE "AVAILABLE"
      /\ \A e \in Drivers : e # d => driverRow'[e] = driverRow[e]
  BY <1>1, <1>2 DEF Reserve
<1>4. Cardinality(held) <= Capacity[d] /\ Cardinality(held) \in Nat /\ Capacity[d] \in Nat
  BY <1>1, <1>3, FS_CardinalityType, DriverAssumption
  DEF DriverInv, CapacityRespected, Load, DriverAssumption
<1> HIDE DEF d
<1>5. ReservationCounted'
  BY <1>1, <1>2, <1>3 DEF LedgerInv, ReservationCounted
<1>6. StatusMatchesLoad'
  <2> SUFFICES ASSUME NEW e \in Drivers
               PROVE  (driverRow'[e].status = "RESERVED")
                        <=> (Cardinality(driverRow'[e].reserved) = Capacity[e])
    BY DEF StatusMatchesLoad, Load
  <2> HIDE DEF held
  <2>1. CASE e = d
    <3>1. Cardinality(held) >= Capacity[d] <=> Cardinality(held) = Capacity[d]
      BY <1>4
    <3>2. QED  BY <1>3, <2>1, <3>1
  <2>2. CASE e # d
    <3>1. driverRow'[e] = driverRow[e]
      BY <1>3, <2>2
    <3>2. QED  BY <3>1 DEF LedgerInv, StatusMatchesLoad, Load
  <2>3. QED  BY <2>1, <2>2
<1>7. QED  BY <1>5, <1>6 DEF LedgerInv

LEMMA CommitReleaseLedger ==
  ASSUME BusTypeOK, DriverTypeOK, DriverInv, LedgerInv, NEW o \in Orders, CommitRelease(o)
  PROVE  LedgerInv'
<1> DEFINE d == txn[o].driver
           kept == driverRow[d].reserved \ {o}
<1>1. /\ d \in Drivers
      /\ reservation[o] = [status |-> "ACTIVE", driver |-> d]
      /\ driverRow \in [Drivers -> [status : DriverStatuses, reserved : SUBSET Orders]]
      /\ reservation \in [Orders -> [status : {"NONE", "ACTIVE", "RELEASED"},
                                     driver : MaybeDriver]]
  BY DEF CommitRelease, DriverInv, OwnsItsRow, DriverTypeOK
<1>2. /\ driverRow' = [driverRow EXCEPT ![d] = Release(driverRow[d], o)]
      /\ reservation' = [reservation EXCEPT ![o].status = "RELEASED"]
  BY DEF CommitRelease
<1>3. o \in driverRow[d].reserved
  BY <1>1 DEF LedgerInv, ReservationCounted
<1>4. /\ driverRow'[d] = [status |-> "AVAILABLE", reserved |-> kept]
      /\ \A e \in Drivers : e # d => driverRow'[e] = driverRow[e]
  BY <1>1, <1>2, <1>3 DEF Release
<1>5. Cardinality(kept) # Capacity[d]
  <2>1. /\ Cardinality(kept) = Cardinality(driverRow[d].reserved) - 1
        /\ Cardinality(driverRow[d].reserved) \in Nat
    BY <1>1, <1>3, FS_RemoveElement, FS_CardinalityType DEF DriverInv
  <2>2. Cardinality(driverRow[d].reserved) <= Capacity[d] /\ Capacity[d] \in Nat
    BY <1>1, DriverAssumption DEF DriverInv, CapacityRespected, Load, DriverAssumption
  <2>3. QED  BY <2>1, <2>2
<1> HIDE DEF d
<1>6. ReservationCounted'
  <2> SUFFICES ASSUME NEW p \in Orders, reservation'[p].status = "ACTIVE"
               PROVE  p \in driverRow'[reservation'[p].driver].reserved
    BY DEF ReservationCounted
  <2>1. p # o /\ reservation'[p] = reservation[p]
    BY <1>1, <1>2
  <2>2. reservation[p].driver \in Drivers /\ p \in driverRow[reservation[p].driver].reserved
    BY <2>1 DEF DriverInv, LedgerInv, ReservationCounted
  <2>3. QED  BY <1>4, <2>1, <2>2
<1>7. StatusMatchesLoad'
  <2> SUFFICES ASSUME NEW e \in Drivers
               PROVE  (driverRow'[e].status = "RESERVED")
                        <=> (Cardinality(driverRow'[e].reserved) = Capacity[e])
    BY DEF StatusMatchesLoad, Load
  <2> HIDE DEF kept
  <2>1. CASE e = d
    BY <1>4, <1>5, <2>1
  <2>2. CASE e # d
    <3>1. driverRow'[e] = driverRow[e]
      BY <1>4, <2>2
    <3>2. QED  BY <3>1 DEF LedgerInv, StatusMatchesLoad, Load
  <2>3. QED  BY <2>1, <2>2
<1>8. QED  BY <1>6, <1>7 DEF LedgerInv

LEMMA LedgerInit == DriverInit => LedgerInv
<1> SUFFICES ASSUME DriverInit PROVE LedgerInv
  OBVIOUS
<1>1. ReservationCounted
  BY DEF DriverInit, NoReservation, ReservationCounted
<1>2. Cardinality({}) = 0 /\ \A d \in Drivers : Capacity[d] # 0
  BY FS_EmptySet, DriverAssumption DEF DriverAssumption
<1>3. StatusMatchesLoad
  BY <1>2 DEF DriverInit, StatusMatchesLoad, Load
<1>4. QED  BY <1>1, <1>3 DEF LedgerInv

LEMMA LedgerUnchanged ==
  ASSUME LedgerInv, UNCHANGED <<driverRow, reservation>>
  PROVE  LedgerInv'
  BY DEF LedgerInv, ReservationCounted, StatusMatchesLoad, Load

LEMMA LedgerNext ==
  ASSUME Requests = {}, BusTypeOK, DriverTypeOK, DriverInv, DriverInv', LedgerInv, DriverNext
  PROVE  LedgerInv'
  BY DriverRowWriters, LedgerUnchanged, CommitReserveLedger, CommitReleaseLedger

LEMMA LedgerWithinCapacity ==
  ASSUME DriverInv, LedgerInv
  PROVE  ReservationsWithinCapacity
<1> SUFFICES ASSUME NEW d \in Drivers
             PROVE  Cardinality(HeldBy(d)) <= Capacity[d]
  BY DEF ReservationsWithinCapacity
<1>1. HeldBy(d) \subseteq driverRow[d].reserved
  BY DEF LedgerInv, ReservationCounted, HeldBy
<1>2. IsFiniteSet(driverRow[d].reserved) /\ Cardinality(driverRow[d].reserved) <= Capacity[d]
  BY DEF DriverInv, CapacityRespected, Load
<1>3. Capacity[d] \in Nat
  BY DriverAssumption DEF DriverAssumption
<1>4. /\ Cardinality(HeldBy(d)) <= Cardinality(driverRow[d].reserved)
      /\ Cardinality(HeldBy(d)) \in Nat /\ Cardinality(driverRow[d].reserved) \in Nat
  BY <1>1, <1>2, FS_Subset, FS_CardinalityType
<1>5. QED  BY <1>2, <1>3, <1>4

-------------------------------------------------------------------------------
(* The reservation table implements the ledger.                            *)

(* What the query of reserve() sees is the state of the ledger.            *)
LEMMA LoadIsHeld ==
  ASSUME BusTypeOK, DriverTypeOK, DriverInv, LedgerInv, NEW d \in Drivers
  PROVE  HeldBy(d) = driverRow[d].reserved
<1>1. driverRow[d].reserved \subseteq Orders
  BY DEF DriverTypeOK
<1>2. \A o \in driverRow[d].reserved : reservation[o] = [status |-> "ACTIVE", driver |-> d]
  BY DEF DriverInv, NoPhantomLoad
<1>3. \A o \in Orders : reservation[o] = [status |-> "ACTIVE", driver |-> d]
                          => o \in driverRow[d].reserved
  BY DEF LedgerInv, ReservationCounted
<1>4. QED  BY <1>1, <1>2, <1>3 DEF HeldBy

LEMMA CommitReserveTakes ==
  ASSUME BusTypeOK, DriverTypeOK, DriverInv, LedgerInv, NEW o \in Orders, CommitReserve(o)
  PROVE  Ledger!Next
<1> DEFINE d == txn[o].driver
           table == [e \in Drivers |-> HeldBy(e)]
<1>1. d \in Drivers /\ HasRoom(d)
  BY DEF CommitReserve, DriverInv, OwnsItsRow
<1>2. /\ reservation \in [Orders -> [status : {"NONE", "ACTIVE", "RELEASED"},
                                     driver : MaybeDriver]]
      /\ reservation[o].status = "NONE"
      /\ reservation' = [reservation EXCEPT ![o] = [status |-> "ACTIVE", driver |-> d]]
  BY DEF CommitReserve, Insertable, DriverTypeOK
<1> HIDE DEF d
<1>3. \A e \in Drivers : o \notin HeldBy(e)
  BY <1>2 DEF HeldBy
<1>4. \A e \in Drivers : HeldBy(e)' = IF e = d THEN HeldBy(e) \cup {o} ELSE HeldBy(e)
  BY <1>2 DEF HeldBy
<1>5. Cardinality(HeldBy(d)) < Capacity[d]
  BY <1>1, LoadIsHeld DEF HasRoom, Load
<1>6. {p \in Orders : reservation'[p].status = "RELEASED"}
        = {p \in Orders : reservation[p].status = "RELEASED"}
  BY <1>2
<1>7. table' = [table EXCEPT ![d] = HeldBy(d) \cup {o}]
  BY <1>1, <1>4
<1>8. Ledger!Take(o, d)
  <2>1. table[d] = HeldBy(d) /\ \A e \in Drivers : table[e] = HeldBy(e)
    BY <1>1
  <2>2. Ledger!Cardinality(table[d]) < Capacity[d]
    BY <1>5, <2>1 DEF Ledger!Cardinality, Cardinality
  <2> HIDE DEF table
  <2>3. QED  BY <1>2, <1>3, <1>6, <1>7, <2>1, <2>2 DEF Ledger!Take, table
<1>9. QED  BY <1>1, <1>8 DEF Ledger!Next

LEMMA CommitReleaseGivesBack ==
  ASSUME BusTypeOK, DriverTypeOK, DriverInv, NEW o \in Orders, CommitRelease(o)
  PROVE  Ledger!Next
<1> DEFINE table == [e \in Drivers |-> HeldBy(e)]
<1>1. PICK d \in Drivers : reservation[o] = [status |-> "ACTIVE", driver |-> d]
  BY DEF CommitRelease, DriverInv, OwnsItsRow
<1>2. /\ reservation \in [Orders -> [status : {"NONE", "ACTIVE", "RELEASED"},
                                     driver : MaybeDriver]]
      /\ reservation' = [reservation EXCEPT ![o].status = "RELEASED"]
  BY DEF CommitRelease, DriverTypeOK
<1>3. \A e \in Drivers : HeldBy(e)' = IF e = d THEN HeldBy(e) \ {o} ELSE HeldBy(e)
  BY <1>1, <1>2 DEF HeldBy
<1>4. {p \in Orders : reservation'[p].status = "RELEASED"}
        = {p \in Orders : reservation[p].status = "RELEASED"} \cup {o}
  BY <1>2
<1>5. table' = [table EXCEPT ![d] = HeldBy(d) \ {o}]
  BY <1>1, <1>3
<1>6. Ledger!GiveBack(o, d)
  BY <1>1, <1>4, <1>5 DEF Ledger!GiveBack, HeldBy
<1>7. QED  BY <1>6 DEF Ledger!Next

LEMMA LedgerInitMaps == DriverInit => Ledger!Init
  BY DEF DriverInit, NoReservation, Ledger!Init, HeldBy

LEMMA LedgerStutters ==
  ASSUME UNCHANGED <<driverRow, reservation>>
  PROVE  UNCHANGED Ledger!ledgerVars
  BY DEF Ledger!ledgerVars, HeldBy

(* Each transaction that commits takes or gives back one place, and        *)
(* everything else is a stuttering step.                                   *)
LEMMA LedgerStepMaps ==
  ASSUME Requests = {}, BusTypeOK, DriverTypeOK, DriverInv, LedgerInv, DriverNext
  PROVE  Ledger!Next \/ UNCHANGED Ledger!ledgerVars
  BY DriverRowWriters, LedgerStutters, CommitReserveTakes, CommitReleaseGivesBack

-------------------------------------------------------------------------------
(* Waiting for row locks.                                                  *)

(* The release of order o waits for the transaction of order p, which      *)
(* holds the row of the driver.                                            *)
WaitsFor(o, p) == txn[o].phase = "waiting" /\ txn[o].driver \in txn[p].locked

WaitingIsShort ==
  \A o, p \in Orders : WaitsFor(o, p) =>
    /\ txn[p].phase \in {"reserving", "releasing"}
    /\ \A q \in Orders : ~ WaitsFor(p, q) /\ (WaitsFor(o, q) => q = p)

LEMMA NobodyWaitsForWaiters == DriverTypeOK /\ DriverInv => WaitingIsShort
<1> SUFFICES ASSUME DriverTypeOK, DriverInv,
                    NEW o \in Orders, NEW p \in Orders, WaitsFor(o, p)
             PROVE  /\ txn[p].phase \in {"reserving", "releasing"}
                    /\ \A q \in Orders : ~ WaitsFor(p, q) /\ (WaitsFor(o, q) => q = p)
  BY DEF WaitingIsShort
<1>1. txn[p].phase \in {"idle", "scan", "reserving", "waiting", "releasing"}
  BY DEF DriverTypeOK, Txns, NoTxn
<1>2. txn[p].phase \notin {"idle", "scan", "waiting"}
  BY DEF DriverInv, OwnsItsRow, WaitsFor
<1>3. ASSUME NEW q \in Orders, WaitsFor(o, q)
      PROVE  q = p
  BY <1>3 DEF DriverInv, RowLocksExclusive, WaitsFor
<1>4. QED  BY <1>1, <1>2, <1>3 DEF WaitsFor
===============================================================================
