-------------------------- MODULE DriverServiceProofs --------------------------
(***************************************************************************)
(* Safety of the driver service for every set of orders, drivers and       *)
(* candidate lists and all capacities, against the most general sender.    *)
(***************************************************************************)
EXTENDS DriverServiceEnv, DriverServiceLemmas

LEMMA CommandsType == Commands \subseteq Events
<1>1. ASSUME NEW o \in Orders, NEW list \in CandidateLists
      PROVE  ReservationRequest(o, list) \in Events
  <2>1. NewEvent(ReservationRequested, o, NoDriver) \in Events
    BY NewEventType DEF EventTypes, MaybeDriver
  <2>2. QED  BY <2>1, EnvAssumption DEF ReservationRequest, Events, EnvAssumption
<1>2. ASSUME NEW o \in Orders
      PROVE  NewEvent(ReleaseRequested, o, NoDriver) \in Events
  BY NewEventType DEF EventTypes, MaybeDriver
<1>3. QED  BY <1>1, <1>2 DEF Commands

(* Everything the environment does leaves the rows and transactions alone. *)
LEMMA EnvironmentInv ==
  ASSUME TypeOK, DriverInv,
         \/ \E m \in Commands : SendRequest(m)
         \/ \E m \in Answers : TakeAnswer(m)
         \/ ClearDeadLetters
  PROVE  TypeOK' /\ DriverInv'
<1>1. UNCHANGED driverVars
  BY DEF SendRequest, TakeAnswer, ClearDeadLetters
<1>2. DriverTypeOK'
  BY <1>1 DEF TypeOK, DriverTypeOK, driverVars
<1>3. BusTypeOK'
  BY CommandsType DEF TypeOK, BusTypeOK, SendRequest, Publish, TakeAnswer, Settled,
                      ClearDeadLetters
<1>4. DriverInv'
  BY <1>1, UnchangedInv DEF driverVars
<1>5. QED  BY <1>2, <1>3, <1>4 DEF TypeOK

(* Whatever requests arrive, in whatever order and however often, the      *)
(* state has its type and the inductive invariant holds.                   *)
THEOREM DriverInvariance == Spec => [](TypeOK /\ DriverInv)
<1>1. Init => TypeOK /\ DriverInv
  BY DriverInitType, DriverInitInv DEF Init, TypeOK
<1>2. TypeOK /\ DriverInv /\ [Next]_vars => TypeOK' /\ DriverInv'
  <2> SUFFICES ASSUME TypeOK, DriverInv, [Next]_vars PROVE TypeOK' /\ DriverInv'
    OBVIOUS
  <2>1. CASE DriverNext
    BY <2>1, DriverNextType, DriverNextInv DEF TypeOK
  <2>2. CASE UNCHANGED vars
    <3>1. TypeOK'
      BY <2>2 DEF vars, driverVars, TypeOK, BusTypeOK, DriverTypeOK
    <3>2. QED  BY <2>2, <3>1, UnchangedInv DEF vars, driverVars
  <2>3. QED  BY <2>1, <2>2, EnvironmentInv DEF Next
<1>3. QED  BY <1>1, <1>2, PTL DEF Spec

(* A release waits for one transaction only, which has all its row locks   *)
(* and only has to commit, so that waiting is never circular, nor even a   *)
(* chain.  A reservation that locks row by row does not wait (SKIP         *)
(* LOCKED), and a transaction that waits for a row holds none.             *)
THEOREM WaitingEnds == Spec => []WaitingIsShort
<1>1. QED  BY DriverInvariance, NobodyWaitsForWaiters, PTL DEF TypeOK

(* reserve(), release() and the unlocked availability change together      *)
(* never put more orders on a driver than it can carry.                    *)
THEOREM CapacityIsRespected == Spec => []CapacityRespected
<1>1. DriverInv => CapacityRespected
  BY DEF DriverInv
<1>2. QED  BY <1>1, DriverInvariance, PTL

(* Every order in a driver's list is there because of an ACTIVE reservation *)
(* of that driver.                                                         *)
THEOREM LoadIsReserved == Spec => []NoPhantomLoad
<1>1. DriverInv => NoPhantomLoad
  BY DEF DriverInv
<1>2. QED  BY <1>1, DriverInvariance, PTL

(* No sequence of duplicated, late or conflicting events moves a           *)
(* reservation to another driver or revives a released one.                *)
THEOREM ReservationLifecycle == Spec => ReservationsOnlyMoveForward
<1>1. TypeOK /\ DriverInv /\ [Next]_vars
        => [\A o \in Orders :
             \/ reservation'[o] = reservation[o]
             \/ reservation[o].status = "NONE" /\ reservation'[o].status = "ACTIVE"
             \/ /\ reservation[o].status = "ACTIVE"
                /\ reservation'[o] = [reservation[o] EXCEPT !.status = "RELEASED"]
           ]_driverVars
  <2>1. [Next]_vars => DriverNext \/ UNCHANGED driverVars
    BY DEF Next, vars, SendRequest, TakeAnswer, ClearDeadLetters
  <2>2. QED  BY <2>1, DriverNextForward DEF TypeOK
<1>2. QED  BY <1>1, DriverInvariance, PTL DEF Spec, ReservationsOnlyMoveForward

LEMMA LedgerInvariance ==
  ASSUME Requests = {}
  PROVE  Spec => []LedgerInv
<1>1. Init => LedgerInv
  BY LedgerInit DEF Init
<1>2. TypeOK /\ DriverInv /\ DriverInv' /\ LedgerInv /\ [Next]_vars => LedgerInv'
  <2>1. [Next]_vars => DriverNext \/ UNCHANGED driverVars
    BY DEF Next, vars, SendRequest, TakeAnswer, ClearDeadLetters
  <2>2. QED  BY <2>1, LedgerNext, LedgerUnchanged DEF TypeOK, driverVars
<1>3. QED  BY <1>1, <1>2, DriverInvariance, PTL DEF Spec

(* Without availability requests the load of a driver and the ACTIVE       *)
(* reservations are the same set, the status column says whether the       *)
(* driver is full, and hence reservations stay within capacity.            *)
THEOREM LedgerAgreement ==
  ASSUME Requests = {}
  PROVE  Spec => [](ReservationCounted /\ StatusMatchesLoad /\ ReservationsWithinCapacity)
<1>1. DriverInv /\ LedgerInv => ReservationsWithinCapacity
  BY LedgerWithinCapacity
<1>2. LedgerInv => ReservationCounted /\ StatusMatchesLoad
  BY DEF LedgerInv
<1>3. QED  BY <1>1, <1>2, LedgerInvariance, DriverInvariance, PTL

(* As long as nobody saves a driver without a lock, the driver service     *)
(* implements the ledger of places: each transaction that commits takes or *)
(* gives back one place, and everything else is a stuttering step.         *)
THEOREM LedgerImplemented ==
  ASSUME Requests = {}
  PROVE  Spec => ImplementsLedger
<1>1. Init => Ledger!Init
  BY LedgerInitMaps DEF Init
<1>2. TypeOK /\ DriverInv /\ LedgerInv /\ [Next]_vars => [Ledger!Next]_(Ledger!ledgerVars)
  <2>1. [Next]_vars => DriverNext \/ UNCHANGED driverVars
    BY DEF Next, vars, SendRequest, TakeAnswer, ClearDeadLetters
  <2>2. QED  BY <2>1, LedgerStepMaps, LedgerStutters DEF TypeOK, driverVars
<1>3. QED
  BY <1>1, <1>2, LedgerInvariance, DriverInvariance, PTL
  DEF Spec, ImplementsLedger, Ledger!Spec
===============================================================================
