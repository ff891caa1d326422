----------------------------- MODULE RequestsProofs -----------------------------
(***************************************************************************)
(* The components whose hazard is a request in flight, each for every      *)
(* value of its constants: the circuit breaker, the creation of orders     *)
(* under idempotency keys, the lists and routes of the console, and its    *)
(* guided demonstration; and that the composition MCRequests gives to TLC  *)
(* is each of them.                                                        *)
(***************************************************************************)
EXTENDS MCRequests, FiniteSetTheorems, TLAPS

-------------------------------------------------------------------------------
(* The circuit breaker, for any number of overlapping calls, any           *)
(* thresholds and any timeouts of which the one of a call is the shorter.  *)

(* While the breaker is OPEN, every call in flight is older than the last  *)
(* opening; so none is left when the reset timeout is over.                *)
CallsAreOlder == state = "OPEN" => \A c \in InFlight : age[c] >= sinceOpen

BreakerInv == BreakerTypeOK /\ HalfOpenAccounts /\ CallsAreOlder

-------------------------------------------------------------------------------
LEMMA BreakerInitInv == BreakerInit => BreakerInv
  BY BreakerAssumption
  DEF BreakerAssumption, BreakerInit, BreakerInv, BreakerTypeOK, HalfOpenAccounts,
      CallsAreOlder, NotInFlight

LEMMA InFlightFinite ==
  IsFiniteSet(InFlight) /\ Cardinality(InFlight) \in Nat
<1>1. InFlight \subseteq BreakerCalls
  BY DEF InFlight
<1>2. QED
  BY <1>1, BreakerAssumption, FS_Subset, FS_CardinalityType DEF BreakerAssumption

LEMMA TickInv ==
  ASSUME BreakerInv, Tick
  PROVE  BreakerInv'
<1> USE BreakerAssumption DEF BreakerAssumption, BreakerInv, Tick
<1>1. InFlight' = InFlight
  BY DEF InFlight, NotInFlight, BreakerTypeOK
<1>2. BreakerTypeOK'
  BY DEF InFlight, NotInFlight, BreakerTypeOK
<1>3. HalfOpenAccounts'
  BY <1>1 DEF HalfOpenAccounts
<1>4. CallsAreOlder'
  <2> SUFFICES ASSUME state = "OPEN", NEW c \in InFlight
               PROVE  age'[c] >= sinceOpen'
    BY <1>1 DEF CallsAreOlder
  <2>1. c \in BreakerCalls /\ age'[c] = age[c] + 1 /\ age[c] >= sinceOpen
    BY DEF InFlight, CallsAreOlder
  <2>2. age[c] \in 0..CallTimeout /\ sinceOpen \in Nat
    BY <2>1 DEF InFlight, NotInFlight, BreakerTypeOK
  <2>3. QED  BY <2>1, <2>2
<1>5. QED  BY <1>2, <1>3, <1>4

LEMMA AdmitInv ==
  ASSUME BreakerInv, NEW c \in BreakerCalls, Admit(c)
  PROVE  BreakerInv'
<1> USE BreakerAssumption DEF BreakerAssumption, BreakerInv, Admit, Start
<1>1. BreakerTypeOK'
  BY DEF BreakerTypeOK
<1>2. QED
  BY <1>1 DEF HalfOpenAccounts, CallsAreOlder

LEMMA AdmitProbeInv ==
  ASSUME BreakerInv, NEW c \in BreakerCalls, AdmitProbe(c)
  PROVE  BreakerInv'
<1> USE BreakerAssumption DEF BreakerAssumption, BreakerInv, AdmitProbe, Start
<1>1. BreakerTypeOK'
  BY DEF BreakerTypeOK, ProbeAllowed, NotInFlight
<1>2. ASSUME ProbeAllowed
      PROVE  Cardinality(InFlight') = Cardinality(InFlight) + 1
  <2>1. InFlight' = InFlight \cup {c} /\ c \notin InFlight
    BY <1>2 DEF InFlight, NotInFlight, BreakerTypeOK
  <2>2. QED  BY <2>1, InFlightFinite, FS_AddElement
<1>3. ProbeAllowed \/ (state = "HALF_OPEN" /\ InFlight' = InFlight)
  BY DEF ProbeAllowed, ResetIsDue, HalfOpenAccounts, InFlight
<1>4. probes = Cardinality(InFlight)
  <2>1. CASE state = "HALF_OPEN"
    BY <2>1 DEF HalfOpenAccounts
  <2>2. CASE ResetIsDue
    <3>1. \A d \in InFlight : age[d] \in 0..CallTimeout /\ age[d] >= sinceOpen
      BY <2>2 DEF ResetIsDue, CallsAreOlder, InFlight, BreakerTypeOK
    <3>2. sinceOpen \in Nat /\ sinceOpen > CallTimeout
      BY <2>2 DEF ResetIsDue, BreakerTypeOK
    <3>3. InFlight = {}
      BY <3>1, <3>2
    <3>4. probes = 0
      BY <2>2 DEF ResetIsDue, HalfOpenAccounts
    <3>5. QED  BY <3>3, <3>4, FS_EmptySet
  <2>3. QED  BY <2>1, <2>2
<1>5. HalfOpenAccounts'
  BY <1>2, <1>3, <1>4 DEF HalfOpenAccounts, ProbeAllowed, BreakerTypeOK
<1>6. QED
  BY <1>1, <1>5 DEF CallsAreOlder

LEMMA SucceedInv ==
  ASSUME BreakerInv, NEW c \in BreakerCalls, Succeed(c)
  PROVE  BreakerInv'
<1> USE BreakerAssumption DEF BreakerAssumption, BreakerInv, Succeed, Return
<1>1. BreakerTypeOK'
  BY DEF BreakerTypeOK
<1>2. QED
  BY <1>1 DEF HalfOpenAccounts, CallsAreOlder

LEMMA FailInv ==
  ASSUME BreakerInv, NEW c \in BreakerCalls, Fail(c)
  PROVE  BreakerInv'
<1> USE BreakerAssumption DEF BreakerAssumption, BreakerInv, Fail, Return
<1>1. BreakerTypeOK'
  BY DEF BreakerTypeOK, Open
<1>2. InFlight' \subseteq InFlight /\ \A d \in InFlight' : age'[d] = age[d]
  BY DEF InFlight, BreakerTypeOK
<1>3. CallsAreOlder'
  <2>1. CASE Open
    <3> SUFFICES ASSUME NEW d \in InFlight'  PROVE age'[d] >= sinceOpen'
      BY DEF CallsAreOlder
    <3>1. age'[d] \in 0..CallTimeout
      BY <1>1 DEF InFlight, BreakerTypeOK
    <3>2. QED  BY <2>1, <3>1 DEF Open
  <2>2. CASE ~Open
    BY <1>2, <2>2 DEF CallsAreOlder
  <2>3. QED  BY <2>1, <2>2
<1>4. HalfOpenAccounts'
  BY DEF HalfOpenAccounts, Open
<1>5. QED  BY <1>1, <1>3, <1>4

LEMMA BreakerNextInv ==
  ASSUME BreakerInv, [BreakerNext]_breakerVars
  PROVE  BreakerInv'
<1>1. CASE Tick
  BY <1>1, TickInv
<1>2. ASSUME NEW c \in BreakerCalls, Admit(c) \/ AdmitProbe(c) \/ Succeed(c) \/ Fail(c)
      PROVE  BreakerInv'
  BY <1>2, AdmitInv, AdmitProbeInv, SucceedInv, FailInv
<1>3. CASE UNCHANGED breakerVars
  BY <1>3 DEF breakerVars, BreakerInv, BreakerTypeOK, HalfOpenAccounts,
              CallsAreOlder, InFlight
<1>4. QED  BY <1>1, <1>2, <1>3 DEF BreakerNext

-------------------------------------------------------------------------------
(* The inductive invariant.                                                *)
THEOREM BreakerInvariance == BreakerSpec => []BreakerInv
<1>1. BreakerInv /\ [BreakerNext]_breakerVars => BreakerInv'
  BY BreakerNextInv
<1>2. QED  BY BreakerInitInv, <1>1, PTL DEF BreakerSpec

(* Every variable keeps its type: consecutiveFailures stays below the      *)
(* threshold, and no call outlives its timeout.                            *)
THEOREM BreakerTypes == BreakerSpec => []BreakerTypeOK
<1>1. BreakerInv => BreakerTypeOK
  BY DEF BreakerInv
<1>2. QED  BY BreakerInvariance, <1>1, PTL

(* HALF_OPEN lets through no more calls than configured, and no slot leaks *)
(* to a later phase, however long calls of earlier phases take.            *)
THEOREM SlotsAreSafe == BreakerSpec => []HalfOpenAccounts
<1>1. BreakerInv => HalfOpenAccounts
  BY DEF BreakerInv
<1>2. QED  BY BreakerInvariance, <1>1, PTL

(* A breaker that has been OPEN for longer than a call can take is not     *)
(* closed by the late success of a call.                                   *)
THEOREM OpenHolds == BreakerSpec => OpenAfterTimeoutsWaits
<1>1. ASSUME BreakerInv, [BreakerNext]_breakerVars, state = "OPEN", sinceOpen > CallTimeout
      PROVE  state' \in {"OPEN", "HALF_OPEN"}
  <2>1. \A c \in InFlight : age[c] \in 0..CallTimeout /\ age[c] >= sinceOpen
    BY <1>1 DEF BreakerInv, CallsAreOlder, InFlight, BreakerTypeOK
  <2>2. InFlight = {}
    BY <1>1, <2>1, BreakerAssumption DEF BreakerInv, BreakerTypeOK, BreakerAssumption
  <2>3. ASSUME NEW c \in BreakerCalls  PROVE ~Succeed(c) /\ ~Fail(c)
    BY <2>2 DEF InFlight, Succeed, Fail, Return
  <2>4. CASE Tick \/ UNCHANGED breakerVars
    BY <1>1, <2>4 DEF Tick, breakerVars
  <2>5. ASSUME NEW c \in BreakerCalls, Admit(c) \/ AdmitProbe(c)
        PROVE  state' \in {"OPEN", "HALF_OPEN"}
    BY <1>1, <2>5 DEF Admit, AdmitProbe
  <2>6. QED  BY <1>1, <2>3, <2>4, <2>5 DEF BreakerNext
<1>2. BreakerInv /\ [BreakerNext]_breakerVars
        => [state = "OPEN" /\ sinceOpen > CallTimeout => state' \in {"OPEN", "HALF_OPEN"}]_breakerVars
  BY <1>1
<1>3. QED
  BY BreakerInvariance, <1>2, PTL DEF BreakerSpec, OpenAfterTimeoutsWaits

-------------------------------------------------------------------------------
(* Idempotency keys and the outbox of the order service, for any number of *)
(* requests, any keys and whatever locks the hash of a key shares.         *)

(* The parts of the inductive invariant.                                   *)

(* The order service has seen nothing of what was not sent.                *)
UnsentIsUnknown ==
  \A r \in Requests : gate[r] = "unsent" => work[r] = "none" /\ status[r] = 0

(* The transaction that has stored an order has ended.                     *)
StoredIsCommitted == \A o \in stored : work[o] \in {"committed", "ended"}

Holds(r) == work[r] \in {"locked", "saving"}

(* Two transactions never hold the lock of their keys together.            *)
LocksExclude ==
  \A q, r \in Requests : SharesLock(q, r) /\ Holds(q) /\ Holds(r) => q = r

(* What a transaction found with its lock is true when it commits.         *)
SavingIsFirst == \A r \in Requests : work[r] = "saving" => ~Collides(r)

StoredKeysDiffer ==
  \A o, p \in stored : key[o] = key[p] /\ key[o] # Unkeyed => o = p

DraftIsStored ==
  \A r \in Requests : work[r] = "committed" => draft[r] \in Named(key[r])

AnswerIsStored ==
  \A r \in Requests : status[r] = 201 => answer[r] \in Named(key[r])

NoneCollides == \A r \in Requests : work[r] # "collided"

(* An order has its event, in the outbox or in RabbitMQ.                   *)
EventsFollowOrders == stored = pending \cup announced

IntakeInv ==
  /\ IntakeTypeOK /\ UnsentIsUnknown /\ StoredIsCommitted
  /\ LocksExclude /\ SavingIsFirst /\ StoredKeysDiffer
  /\ DraftIsStored /\ AnswerIsStored /\ NoneCollides /\ EventsFollowOrders

-------------------------------------------------------------------------------
LEMMA IntakeInvInit == IntakeInit => IntakeInv
<1> SUFFICES ASSUME IntakeInit PROVE IntakeInv
  OBVIOUS
<1> USE DEF IntakeInit
<1>1. IntakeTypeOK  BY DEF IntakeTypeOK, Forms
<1>2. UnsentIsUnknown /\ StoredIsCommitted /\ NoneCollides /\ EventsFollowOrders
  BY DEF UnsentIsUnknown, StoredIsCommitted, NoneCollides, EventsFollowOrders
<1>3. LocksExclude /\ SavingIsFirst /\ StoredKeysDiffer
  BY DEF LocksExclude, Holds, SavingIsFirst, StoredKeysDiffer
<1>4. DraftIsStored /\ AnswerIsStored  BY DEF DraftIsStored, AnswerIsStored
<1>5. QED  BY <1>1, <1>2, <1>3, <1>4 DEF IntakeInv

(* The key of a request is fixed before the order service hears of it.     *)
LEMMA PostInv ==
  ASSUME IntakeInv, NEW r \in Requests, NEW k \in Keys \cup {Unkeyed}, NEW f \in Forms,
         Post(r, k, f)
  PROVE  IntakeInv'
<1> USE DEF IntakeInv, Post, Respond, serviceState
<1>1. IntakeTypeOK'
  BY DEF IntakeTypeOK, AccessLogs
<1>2. work[r] = "none" /\ status[r] = 0 /\ status'[r] # 201 /\ gate'[r] # "unsent"
  BY DEF UnsentIsUnknown, IntakeTypeOK
<1>3. \A q \in Requests \ {r} :
        key'[q] = key[q] /\ status'[q] = status[q] /\ gate'[q] = gate[q] /\ answer'[q] = answer[q]
  BY DEF IntakeTypeOK
<1>4. r \notin stored /\ stored \subseteq Requests
  BY <1>2 DEF StoredIsCommitted, IntakeTypeOK
<1>5. UnsentIsUnknown' /\ StoredIsCommitted' /\ NoneCollides' /\ EventsFollowOrders'
  BY <1>2, <1>3 DEF UnsentIsUnknown, StoredIsCommitted, NoneCollides, EventsFollowOrders
<1>6. LocksExclude'
  BY <1>2, <1>3 DEF LocksExclude, Holds, SharesLock
<1>7. \A q \in Requests \ {r} : Named(key[q])' = Named(key[q])
  BY <1>3, <1>4 DEF Named
<1>8. SavingIsFirst'  BY <1>2, <1>3, <1>7 DEF SavingIsFirst, Collides
<1>9. StoredKeysDiffer'  BY <1>3, <1>4 DEF StoredKeysDiffer
<1>10. DraftIsStored'  BY <1>2, <1>3, <1>7 DEF DraftIsStored
<1>11. AnswerIsStored'  BY <1>2, <1>3, <1>7 DEF AnswerIsStored
<1>12. QED  BY <1>1, <1>5, <1>6, <1>8, <1>9, <1>10, <1>11

LEMMA UnavailableInv ==
  ASSUME IntakeInv, NEW r \in Requests, Unavailable(r)
  PROVE  IntakeInv'
<1> USE DEF IntakeInv, Unavailable, Respond, serviceState
<1>1. IntakeTypeOK'  BY DEF IntakeTypeOK, AccessLogs
<1>2. UnsentIsUnknown' /\ StoredIsCommitted' /\ NoneCollides' /\ EventsFollowOrders'
  BY DEF UnsentIsUnknown, StoredIsCommitted, NoneCollides, EventsFollowOrders, IntakeTypeOK
<1>3. LocksExclude' /\ SavingIsFirst' /\ StoredKeysDiffer'
  BY DEF LocksExclude, Holds, SharesLock, SavingIsFirst, Collides, Named, StoredKeysDiffer
<1>4. DraftIsStored' /\ AnswerIsStored'
  BY DEF DraftIsStored, AnswerIsStored, Named, IntakeTypeOK
<1>5. QED  BY <1>1, <1>2, <1>3, <1>4

(* Without a key there is no lock, and nothing to collide with.            *)
LEMMA ReceiveInv ==
  ASSUME IntakeInv, NEW r \in Requests, Receive(r)
  PROVE  IntakeInv'
<1> USE DEF IntakeInv, Receive, WorkOn, gatewayState
<1>1. IntakeTypeOK'  BY DEF IntakeTypeOK
<1>2. r \notin stored  BY DEF StoredIsCommitted
<1>3. UnsentIsUnknown' /\ StoredIsCommitted' /\ NoneCollides' /\ EventsFollowOrders'
  BY <1>2 DEF UnsentIsUnknown, StoredIsCommitted, NoneCollides, EventsFollowOrders, IntakeTypeOK
<1>4. LocksExclude'  BY DEF LocksExclude, Holds, SharesLock, IntakeTypeOK
<1>5. SavingIsFirst'  BY DEF SavingIsFirst, Collides, Named, IntakeTypeOK
<1>6. StoredKeysDiffer'  BY DEF StoredKeysDiffer
<1>7. DraftIsStored' /\ AnswerIsStored'
  BY DEF DraftIsStored, AnswerIsStored, Named, IntakeTypeOK
<1>8. QED  BY <1>1, <1>3, <1>4, <1>5, <1>6, <1>7

LEMMA LockInv ==
  ASSUME IntakeInv, NEW r \in Requests, Lock(r)
  PROVE  IntakeInv'
<1> USE DEF IntakeInv, Lock, WorkOn, gatewayState
<1>1. IntakeTypeOK'  BY DEF IntakeTypeOK
<1>2. r \notin stored  BY DEF StoredIsCommitted
<1>3. UnsentIsUnknown' /\ StoredIsCommitted' /\ NoneCollides' /\ EventsFollowOrders'
  BY <1>2 DEF UnsentIsUnknown, StoredIsCommitted, NoneCollides, EventsFollowOrders, IntakeTypeOK
<1>4. LocksExclude'
  BY DEF LocksExclude, Holds, SharesLock, LockFree, IntakeTypeOK
<1>5. SavingIsFirst'  BY DEF SavingIsFirst, Collides, Named, IntakeTypeOK
<1>6. StoredKeysDiffer'  BY DEF StoredKeysDiffer
<1>7. DraftIsStored' /\ AnswerIsStored'
  BY DEF DraftIsStored, AnswerIsStored, Named, IntakeTypeOK
<1>8. QED  BY <1>1, <1>3, <1>4, <1>5, <1>6, <1>7

(* What the transaction finds, or does not find, while it holds the lock.  *)
LEMMA FindInv ==
  ASSUME IntakeInv, NEW r \in Requests, FindExisting(r) \/ FindNone(r)
  PROVE  IntakeInv'
<1> USE DEF IntakeInv, FindExisting, FindNone, WorkOn, gatewayState
<1>1. IntakeTypeOK'  BY DEF IntakeTypeOK, Named
<1>2. r \notin stored  BY DEF StoredIsCommitted
<1>3. UnsentIsUnknown' /\ StoredIsCommitted' /\ NoneCollides' /\ EventsFollowOrders'
  BY <1>2 DEF UnsentIsUnknown, StoredIsCommitted, NoneCollides, EventsFollowOrders, IntakeTypeOK
<1>4. LocksExclude'  BY DEF LocksExclude, Holds, SharesLock, IntakeTypeOK
<1>5. SavingIsFirst'  BY DEF SavingIsFirst, Collides, Named, IntakeTypeOK
<1>6. StoredKeysDiffer'  BY DEF StoredKeysDiffer
<1>7. DraftIsStored'  BY DEF DraftIsStored, Named, IntakeTypeOK
<1>8. AnswerIsStored'  BY DEF AnswerIsStored, Named, IntakeTypeOK
<1>9. QED  BY <1>1, <1>3, <1>4, <1>5, <1>6, <1>7, <1>8

(* The one step that stores an order.  Nobody else is about to store one   *)
(* with the same key, for that transaction would hold the same lock.       *)
LEMMA CommitInv ==
  ASSUME IntakeInv, NEW r \in Requests, Commit(r)
  PROVE  IntakeInv'
<1> USE IntakeAssumption DEF IntakeInv, Commit, WorkOn, gatewayState
<1>1. ~Collides(r)  BY DEF SavingIsFirst
<1>2. IntakeTypeOK'  BY DEF IntakeTypeOK
<1>3. stored' = stored \cup {r} /\ work' = [work EXCEPT ![r] = "committed"]
  BY <1>1
<1>4. UnsentIsUnknown' /\ StoredIsCommitted' /\ NoneCollides'
  BY <1>3 DEF UnsentIsUnknown, StoredIsCommitted, NoneCollides, IntakeTypeOK
<1>5. EventsFollowOrders'  BY <1>1 DEF EventsFollowOrders
<1>6. LocksExclude'  BY <1>3 DEF LocksExclude, Holds, SharesLock, IntakeTypeOK
<1>7. SavingIsFirst'
  <2> SUFFICES ASSUME NEW q \in Requests, work'[q] = "saving", key[q] # Unkeyed
               PROVE  Named(key[q])' = {}
    BY DEF SavingIsFirst, Collides
  <2>1. q # r /\ work[q] = "saving"  BY <1>3 DEF IntakeTypeOK
  <2>2. Named(key[q]) = {}  BY <2>1 DEF SavingIsFirst, Collides
  <2>3. key[q] # key[r]
    BY <2>1 DEF LocksExclude, Holds, SharesLock, IntakeTypeOK
  <2>4. QED  BY <1>3, <2>2, <2>3 DEF Named
<1>8. StoredKeysDiffer'
  BY <1>1, <1>3 DEF StoredKeysDiffer, Collides, Named
<1>9. DraftIsStored'  BY <1>3 DEF DraftIsStored, Named, IntakeTypeOK
<1>10. AnswerIsStored'  BY <1>3 DEF AnswerIsStored, Named
<1>11. QED  BY <1>2, <1>4, <1>5, <1>6, <1>7, <1>8, <1>9, <1>10

(* A transaction ends without a trace.                                     *)
LEMMA EndInv ==
  ASSUME IntakeInv,
         CrashIntake \/ \E r \in Requests : RollBack(r)
  PROVE  IntakeInv'
<1> USE DEF IntakeInv, CrashIntake, RollBack, WorkOn, gatewayState
<1>1. IntakeTypeOK'  BY DEF IntakeTypeOK
<1>2. UnsentIsUnknown' /\ StoredIsCommitted' /\ NoneCollides' /\ EventsFollowOrders'
  BY DEF UnsentIsUnknown, StoredIsCommitted, NoneCollides, EventsFollowOrders, IntakeTypeOK
<1>3. LocksExclude'  BY DEF LocksExclude, Holds, SharesLock, IntakeTypeOK
<1>4. SavingIsFirst'  BY DEF SavingIsFirst, Collides, Named, IntakeTypeOK
<1>5. StoredKeysDiffer'  BY DEF StoredKeysDiffer
<1>6. DraftIsStored' /\ AnswerIsStored'
  BY DEF DraftIsStored, AnswerIsStored, Named, IntakeTypeOK
<1>7. QED  BY <1>1, <1>2, <1>3, <1>4, <1>5, <1>6

LEMMA ReplyInv ==
  ASSUME IntakeInv, NEW r \in Requests, Reply(r)
  PROVE  IntakeInv'
<1> USE DEF IntakeInv, Reply, WorkOn, Respond, LogReply
<1>1. IntakeTypeOK'  BY DEF IntakeTypeOK, AccessLogs
<1>2. UnsentIsUnknown' /\ StoredIsCommitted' /\ NoneCollides' /\ EventsFollowOrders'
  BY DEF UnsentIsUnknown, StoredIsCommitted, NoneCollides, EventsFollowOrders, IntakeTypeOK
<1>3. LocksExclude'  BY DEF LocksExclude, Holds, SharesLock, IntakeTypeOK
<1>4. SavingIsFirst'  BY DEF SavingIsFirst, Collides, Named, IntakeTypeOK
<1>5. StoredKeysDiffer'  BY DEF StoredKeysDiffer
<1>6. DraftIsStored'  BY DEF DraftIsStored, Named, IntakeTypeOK
<1>7. AnswerIsStored'  BY DEF DraftIsStored, AnswerIsStored, Named, IntakeTypeOK
<1>8. QED  BY <1>1, <1>2, <1>3, <1>4, <1>5, <1>6, <1>7

LEMMA AnnounceInv ==
  ASSUME IntakeInv, NEW r \in Requests, Announce(r)
  PROVE  IntakeInv'
<1> USE DEF IntakeInv, Announce, gatewayState
<1>1. IntakeTypeOK'  BY DEF IntakeTypeOK
<1>2. UnsentIsUnknown' /\ StoredIsCommitted' /\ NoneCollides' /\ EventsFollowOrders'
  BY DEF UnsentIsUnknown, StoredIsCommitted, NoneCollides, EventsFollowOrders
<1>3. LocksExclude' /\ SavingIsFirst' /\ StoredKeysDiffer' /\ DraftIsStored' /\ AnswerIsStored'
  BY DEF LocksExclude, Holds, SharesLock, SavingIsFirst, Collides, Named,
         StoredKeysDiffer, DraftIsStored, AnswerIsStored
<1>4. QED  BY <1>1, <1>2, <1>3

-------------------------------------------------------------------------------
(* The inductive invariant of order creation: locks exclude one another,   *)
(* what was looked up under a lock is still so at the commit, and drafts   *)
(* and answers name stored orders with the key of their request.           *)
THEOREM IntakeInvariance == IntakeSpec => []IntakeInv
<1>1. IntakeInit => IntakeInv  BY IntakeInvInit
<1>2. IntakeInv /\ [IntakeNext]_intakeVars => IntakeInv'
  <2> SUFFICES ASSUME IntakeInv, [IntakeNext]_intakeVars PROVE IntakeInv'
    OBVIOUS
  <2>1. ASSUME NEW r \in Requests, NEW k \in Keys \cup {Unkeyed}, NEW f \in Forms, Post(r, k, f)
        PROVE  IntakeInv'
    BY <2>1, PostInv
  <2>2. ASSUME NEW r \in Requests, Unavailable(r) PROVE IntakeInv'
    BY <2>2, UnavailableInv
  <2>3. ASSUME NEW r \in Requests, Receive(r) PROVE IntakeInv'
    BY <2>3, ReceiveInv
  <2>4. ASSUME NEW r \in Requests, Lock(r) PROVE IntakeInv'
    BY <2>4, LockInv
  <2>5. ASSUME NEW r \in Requests, FindExisting(r) \/ FindNone(r) PROVE IntakeInv'
    BY <2>5, FindInv
  <2>6. ASSUME NEW r \in Requests, Commit(r) PROVE IntakeInv'
    BY <2>6, CommitInv
  <2>7. ASSUME CrashIntake \/ \E r \in Requests : RollBack(r) PROVE IntakeInv'
    BY <2>7, EndInv
  <2>8. ASSUME NEW r \in Requests, Reply(r) PROVE IntakeInv'
    BY <2>8, ReplyInv
  <2>9. ASSUME NEW r \in Requests, Announce(r) PROVE IntakeInv'
    BY <2>9, AnnounceInv
  <2>10. CASE UNCHANGED intakeVars
    BY <2>10 DEF intakeVars, gatewayState, serviceState, IntakeInv, IntakeTypeOK,
       UnsentIsUnknown, StoredIsCommitted, LocksExclude, Holds, SharesLock, SavingIsFirst,
       Collides, Named, StoredKeysDiffer, DraftIsStored, AnswerIsStored, NoneCollides,
       EventsFollowOrders
  <2>11. QED
    BY <2>1, <2>2, <2>3, <2>4, <2>5, <2>6, <2>7, <2>8, <2>9, <2>10 DEF IntakeNext
<1>3. QED  BY <1>1, <1>2, PTL DEF IntakeSpec

(* However many requests with one key overlap, die or are repeated, and    *)
(* whichever keys share a lock, those that succeed are told one order, and *)
(* none is refused by the unique index.                                    *)
THEOREM OneOrderPerKey == IntakeSpec => []KeyNamesOneOrder
<1>1. IntakeInv => KeyNamesOneOrder
  BY DEF IntakeInv, KeyNamesOneOrder, NoneCollides, AnswerIsStored, StoredKeysDiffer, Named
<1>2. QED  BY <1>1, IntakeInvariance, PTL

(* An order answered with 201 is stored and its event not lost; what is    *)
(* announced exists.                                                       *)
THEOREM OrdersAreAnnounced == IntakeSpec => []CreatedOrdersAreAnnounced
<1>1. IntakeInv => CreatedOrdersAreAnnounced
  BY DEF IntakeInv, CreatedOrdersAreAnnounced, AnswerIsStored, Named, EventsFollowOrders
<1>2. QED  BY <1>1, IntakeInvariance, PTL

-------------------------------------------------------------------------------
(* The guided demonstration.                                               *)

(* Only the step the function is at is shown running, which it is as long  *)
(* as the demonstration runs; and a poll is left until it decides.         *)
DemoInv ==
  /\ DemoTypeOK
  /\ DemoIsHonest
  /\ demoRunning <=> current # 0
  /\ current \in 1..5 => polls < MaxDemoPolls

LEMMA DemoInvInit == DemoInit => DemoInv
<1> SUFFICES ASSUME DemoInit PROVE DemoInv
  OBVIOUS
<1>1. demoRunning = FALSE /\ current = 0
  BY DEF DemoInit
<1>2. demoRunning \in BOOLEAN /\ (demoRunning <=> current # 0)
  BY <1>1, Zenon
<1>3. DemoTypeOK
  BY <1>2, MaxDemoPollsAssumption
  DEF MaxDemoPollsAssumption, DemoInit, DemoTypeOK, AllPending, Steps, Refreshing
<1>4. DemoIsHonest
  BY DEF DemoInit, DemoIsHonest, AllPending, Steps
<1>5. current \notin 1..5
  BY <1>1
<1>6. QED  BY <1>2, <1>3, <1>4, <1>5, Zenon DEF DemoInv

LEMMA AdvanceInv ==
  ASSUME DemoInv, NEW i \in Steps, NEW outcome \in {"success", "error"},
         current = i, Advance(i, outcome), UNCHANGED demoRunning,
         polls' \in 0..MaxDemoPolls, i < 5 => polls' = polls
  PROVE  DemoInv'
<1>1. DemoTypeOK'
  BY DEF DemoInv, DemoTypeOK, Advance, Steps, Refreshing
<1>2. DemoIsHonest'
  BY DEF DemoInv, DemoTypeOK, DemoIsHonest, Advance, Steps
<1>3. demoRunning' = TRUE
  <2>1. current # 0
    BY DEF Steps
  <2>2. demoRunning = TRUE
    BY <2>1 DEF DemoInv, DemoTypeOK
  <2>3. QED  BY <2>2
<1>4. current' = i + 1 /\ i \in 1..6
  BY DEF Advance, Steps
<1>5. current' # 0
  BY <1>4
<1>6. current' \in 1..5 => polls' < MaxDemoPolls
  BY <1>4 DEF DemoInv
<1>7. demoRunning' <=> current' # 0
  BY <1>3, <1>5, Zenon
<1>8. QED  BY <1>1, <1>2, <1>6, <1>7, Zenon DEF DemoInv

(* The function has ended, and shows nothing running.                      *)
LEMMA DemoStopped ==
  ASSUME DemoInv, demoRunning' = FALSE, current' = 0, UNCHANGED <<polls, accomplished>>,
         demoSteps' \in [Steps -> {"pending", "running", "success", "error"}],
         \A i \in Steps : /\ demoSteps'[i] # "running"
                          /\ demoSteps'[i] = "success" => demoSteps[i] = "success"
  PROVE  DemoInv'
<1>1. demoRunning' \in BOOLEAN /\ (demoRunning' <=> current' # 0)
  BY Zenon
<1>2. current' \in 0..Refreshing /\ current' \notin 1..5
  BY DEF Refreshing
<1>3. DemoTypeOK'
  BY <1>1, <1>2 DEF DemoInv, DemoTypeOK
<1>4. DemoIsHonest'
  BY DEF DemoInv, DemoIsHonest
<1>5. QED  BY <1>1, <1>2, <1>3, <1>4, Zenon DEF DemoInv

LEMMA DemoNextInv ==
  ASSUME DemoInv, [DemoNext]_demoVars
  PROVE  DemoInv'
<1>1. CASE StartDemo
  BY <1>1, MaxDemoPollsAssumption
  DEF MaxDemoPollsAssumption, StartDemo, DemoInv, DemoTypeOK, DemoIsHonest, AllPending,
      Steps, Refreshing
<1>2. CASE CallAnswered
  BY <1>2, AdvanceInv DEF CallAnswered, DemoInv, DemoTypeOK, Steps
<1>3. CASE PollAgain
  BY <1>3, MaxDemoPollsAssumption
  DEF MaxDemoPollsAssumption, PollAgain, DemoInv, DemoTypeOK, DemoIsHonest
<1>4. ASSUME NEW assigned \in BOOLEAN, PollDecides(assigned)
      PROVE  DemoInv'
  <2>1. polls' \in 0..MaxDemoPolls
    BY <1>4, MaxDemoPollsAssumption
    DEF MaxDemoPollsAssumption, PollDecides, DemoInv, DemoTypeOK
  <2>2. QED  BY <1>4, <2>1, AdvanceInv DEF PollDecides, Steps
<1>5. CASE DecisionRead
  BY <1>5, AdvanceInv DEF DecisionRead, DemoInv, DemoTypeOK, Steps
<1>6. CASE DemoEnds
  <2>1. demoRunning' = FALSE /\ current' = 0 /\ UNCHANGED <<demoSteps, polls, accomplished>>
    BY <1>6 DEF DemoEnds
  <2>2. \A i \in Steps : demoSteps[i] # "running"
    BY <1>6 DEF DemoEnds, DemoInv, DemoIsHonest, Steps, Refreshing
  <2>3. QED  BY <2>1, <2>2, DemoStopped DEF DemoInv, DemoTypeOK
<1>7. CASE DemoFails
  <2>1. demoRunning' = FALSE /\ current' = 0 /\ UNCHANGED <<polls, accomplished>>
    BY <1>7 DEF DemoFails
  <2>2. /\ demoSteps' \in [Steps -> {"pending", "running", "success", "error"}]
        /\ \A i \in Steps : /\ demoSteps'[i] # "running"
                            /\ demoSteps'[i] = "success" => demoSteps[i] = "success"
    <3> SUFFICES ASSUME NEW i \in Steps
                 PROVE  LET shown == IF /\ demoSteps[i] = "running"
                                        /\ \A j \in 1..(i - 1) : demoSteps[j] # "running"
                                     THEN "error" ELSE demoSteps[i]
                        IN /\ shown \in {"pending", "running", "success", "error"}
                           /\ shown # "running"
                           /\ shown = "success" => demoSteps[i] = "success"
      BY <1>7 DEF DemoFails
    <3>1. demoSteps[i] = "running" => \A j \in 1..(i - 1) : demoSteps[j] # "running"
      BY DEF DemoInv, DemoIsHonest, Steps
    <3>2. QED  BY <3>1 DEF DemoInv, DemoTypeOK
  <2>3. QED  BY <2>1, <2>2, DemoStopped DEF DemoInv, DemoTypeOK
<1>8. CASE ChangeLanguage
  BY <1>8 DEF ChangeLanguage, DemoInv, DemoTypeOK, DemoIsHonest, AllPending, Steps
<1>9. CASE UNCHANGED demoVars
  BY <1>9 DEF demoVars, DemoInv, DemoTypeOK, DemoIsHonest
<1>10. QED
  BY <1>1, <1>2, <1>3, <1>4, <1>5, <1>6, <1>7, <1>8, <1>9 DEF DemoNext

(* Whatever fails and whenever the language is changed, the demonstration  *)
(* shows no step done that is not, and none running but the one it is at.  *)
THEOREM DemoStaysHonest == DemoSpec => [](DemoTypeOK /\ DemoIsHonest)
<1>1. DemoInv /\ [DemoNext]_demoVars => DemoInv'
  BY DemoNextInv
<1>2. DemoInv => DemoTypeOK /\ DemoIsHonest
  BY DEF DemoInv
<1>3. QED  BY <1>1, <1>2, DemoInvInit, PTL DEF DemoSpec

-------------------------------------------------------------------------------
(* The lists and routes of the console.                                    *)

(* A route is asked for one of the drivers; an idle slot is nobody's.      *)
Slots ==
  {slot \in [stage : {"idle", "locating", "planning", "eta"},
             by : {"none", "effect", "button", "dispatch"},
             driver : Fleet \cup {Nobody}, orders : SUBSET Deliveries] :
     IF slot.stage = "idle" THEN slot.by = "none" ELSE slot.driver \in Fleet}

Plans == [driver : Fleet \cup {Nobody}, orders : SUBSET Deliveries]

Keyings == [tab : Tabs \cup {"none"}, driver : Fleet \cup {Nobody},
            orders : SUBSET Deliveries]

Answers == [orders : SUBSET Assignments, drivers : SUBSET SUBSET Fleet]

ScreenTypeOK ==
  /\ tab \in Tabs
  /\ orders \in Assignments
  /\ drivers \subseteq Fleet /\ locations \subseteq Fleet
  /\ selected \in Fleet \cup {Nobody}

ServicesTypeOK ==
  /\ assignment \in Assignments
  /\ enrolled \subseteq Fleet
  /\ reassignments \in 0..MaxReassignments
  /\ refresh \in [Refreshes -> SUBSET Answers]
  /\ clicks \in 0..MaxClicks
  /\ chosen \in Fleet \cup {Nobody}

RoutingTypeOK ==
  /\ plan \in Plans
  /\ autoRouteKey \in Keyings
  /\ build \in [Builds -> Slots]

(* The effect has run on what the console shows: it has nothing to ask for *)
(* now, or has asked for it.                                               *)
KeyIsCurrent ==
  \/ selected = Nobody
  \/ tab = "other"
  \/ autoRouteKey = [tab |-> tab, driver |-> selected, orders |-> Candidates(orders, selected)]
  \/ Candidates(orders, selected) # {} /\ tab = "overview" /\ selected \notin locations

ConsoleInv == ScreenTypeOK /\ ServicesTypeOK /\ RoutingTypeOK /\ KeyIsCurrent

LEMMA ConsoleInvTypes == ConsoleInv => ConsoleTypeOK
  BY DEF ConsoleInv, ScreenTypeOK, ServicesTypeOK, RoutingTypeOK, ConsoleTypeOK, Plans,
         Keyings, Slots, Answers

LEMMA NothingIsTyped ==
  NoPlan \in Plans /\ NoKey \in Keyings /\ NotBuilding \in Slots
  BY DEF NoPlan, NoKey, NotBuilding, Plans, Keyings, Slots

LEMMA ConsoleInvInit == ConsoleInit => ConsoleInv
<1> SUFFICES ASSUME ConsoleInit PROVE ConsoleInv
  OBVIOUS
<1>1. ScreenTypeOK
  BY DEF ConsoleInit, ScreenTypeOK, Tabs, Assignments
<1>2. RoutingTypeOK
  BY NothingIsTyped DEF ConsoleInit, RoutingTypeOK
<1>3. ServicesTypeOK
  BY ConsoleBoundsAssumption DEF ConsoleBoundsAssumption, ConsoleInit, ServicesTypeOK
<1>4. KeyIsCurrent
  BY DEF ConsoleInit, KeyIsCurrent
<1>5. QED  BY <1>1, <1>2, <1>3, <1>4 DEF ConsoleInv

LEMMA CandidatesAreOrders ==
  ASSUME NEW list, NEW d
  PROVE  Candidates(list, d) \subseteq Deliveries
  BY DEF Candidates

LEMMA BeginBuildType ==
  ASSUME NEW others \in [Builds -> Slots], NEW d \in Fleet \cup {Nobody},
         NEW list \in SUBSET Deliveries, NEW by \in {"effect", "button", "dispatch"},
         drivers' \subseteq Fleet, BeginBuild(others, d, list, by)
  PROVE  build' \in [Builds -> Slots]
<1>1. \A stage \in {"planning", "locating"} :
        d \in Fleet => [stage |-> stage, by |-> by, driver |-> d, orders |-> list] \in Slots
  BY DEF Slots
<1>2. QED  BY <1>1 DEF BeginBuild

(* The effect leaves a key that is current.                                *)
LEMMA AutoRouteType ==
  ASSUME ScreenTypeOK', NEW before \in Keyings, NEW shown \in Plans,
         NEW others \in [Builds -> Slots],
         AutoRoute(before, shown, others)
  PROVE  RoutingTypeOK' /\ KeyIsCurrent'
<1> DEFINE asked == Candidates(orders', selected')
           now == [tab |-> tab', driver |-> selected', orders |-> asked]
           idle == \/ selected' = Nobody \/ tab' = "other" \/ before = now
                   \/ asked # {} /\ tab' = "overview" /\ selected' \notin locations'
<1>1. \/ idle /\ autoRouteKey' = before /\ plan' = shown /\ build' = others
      \/ ~idle /\ autoRouteKey' = now /\ plan' = NoPlan /\ build' = others
      \/ /\ ~idle /\ autoRouteKey' = now /\ plan' = shown
         /\ BeginBuild(others, selected', asked, "effect")
  BY DEF AutoRoute
<1>2. /\ asked \in SUBSET Deliveries /\ now \in Keyings
      /\ selected' \in Fleet \cup {Nobody} /\ drivers' \subseteq Fleet
  BY CandidatesAreOrders DEF ScreenTypeOK, Keyings
<1>3. (idle /\ autoRouteKey' = before) \/ autoRouteKey' = now => KeyIsCurrent'
  BY DEF KeyIsCurrent
<1> HIDE DEF idle, now, asked
<1>4. KeyIsCurrent'
  BY <1>1, <1>3
<1>5. QED  BY <1>1, <1>2, <1>4, NothingIsTyped, BeginBuildType DEF RoutingTypeOK

(* Where the screen stays and the effect does not run.                     *)
LEMMA KeyStays ==
  ASSUME ConsoleInv, UNCHANGED <<screenVars, autoRouteKey>>
  PROVE  ScreenTypeOK' /\ KeyIsCurrent'
  BY DEF ConsoleInv, screenVars, ScreenTypeOK, KeyIsCurrent, Candidates

LEMMA SlotMoves ==
  ASSUME ConsoleInv, NEW b \in Builds, build[b].stage # "idle",
         NEW stage \in {"planning", "eta"}
  PROVE  /\ [build EXCEPT ![b].stage = stage] \in [Builds -> Slots]
         /\ [build EXCEPT ![b] = NotBuilding] \in [Builds -> Slots]
         /\ build[b].driver \in Fleet
         /\ [driver |-> build[b].driver, orders |-> build[b].orders] \in Plans
<1>1. build \in [Builds -> Slots] /\ build[b] \in Slots
  BY DEF ConsoleInv, RoutingTypeOK
<1>2. [build[b] EXCEPT !.stage = stage] \in Slots
  BY <1>1 DEF Slots
<1>3. QED  BY <1>1, <1>2, NothingIsTyped DEF Slots, Plans

LEMMA EndBuildType ==
  ASSUME ConsoleInv, NEW b \in Builds, build[b].stage # "idle", EndBuild(b),
         UNCHANGED <<orders, drivers, selected>>, locations' \subseteq Fleet
  PROVE  ScreenTypeOK' /\ RoutingTypeOK' /\ KeyIsCurrent'
<1>1. tab' \in Tabs
  BY DEF ConsoleInv, ScreenTypeOK, EndBuild, Tabs
<1>2. ScreenTypeOK'
  BY <1>1 DEF ConsoleInv, ScreenTypeOK
<1>3. AutoRoute(autoRouteKey, plan, [build EXCEPT ![b] = NotBuilding])
  BY DEF EndBuild
<1>4. /\ autoRouteKey \in Keyings /\ plan \in Plans
      /\ [build EXCEPT ![b] = NotBuilding] \in [Builds -> Slots]
  BY SlotMoves DEF ConsoleInv, RoutingTypeOK
<1>5. QED  BY <1>2, <1>3, <1>4, AutoRouteType

LEMMA BuildsInv ==
  ASSUME ConsoleInv, NEW b \in Builds,
         OriginAnswered(b) \/ PlanAnswered(b) \/ EtaAnswered(b) \/ BuildFailed(b)
  PROVE  ConsoleInv'
<1>1. build[b].stage # "idle"
  BY DEF OriginAnswered, PlanAnswered, EtaAnswered, BuildFailed
<1>2. ServicesTypeOK'
  BY DEF ConsoleInv, ServicesTypeOK, OriginAnswered, PlanAnswered, EtaAnswered, BuildFailed
<1>3. autoRouteKey \in Keyings /\ plan \in Plans
  BY DEF ConsoleInv, RoutingTypeOK
<1>4. CASE OriginAnswered(b)
  <2>1. locations' = locations \cup {build[b].driver} /\ locations' \subseteq Fleet
    BY <1>1, <1>4, SlotMoves DEF OriginAnswered, ConsoleInv, ScreenTypeOK
  <2>2. CASE build[b].orders = {}
    BY <1>1, <1>2, <1>4, <2>1, <2>2, EndBuildType DEF OriginAnswered, ConsoleInv
  <2>3. CASE build[b].orders # {}
    <3>1. /\ UNCHANGED <<tab, selected, orders, drivers>>
          /\ AutoRoute(autoRouteKey, plan, [build EXCEPT ![b].stage = "planning"])
      BY <1>4, <2>3 DEF OriginAnswered
    <3>2. ScreenTypeOK'
      BY <2>1, <3>1 DEF ConsoleInv, ScreenTypeOK
    <3>3. QED  BY <1>1, <1>2, <1>3, <3>1, <3>2, SlotMoves, AutoRouteType DEF ConsoleInv
  <2>4. QED  BY <2>2, <2>3
<1>5. CASE PlanAnswered(b)
  <2>1. ScreenTypeOK'
    BY <1>1, <1>5, SlotMoves DEF PlanAnswered, ConsoleInv, ScreenTypeOK
  <2>2. AutoRoute(autoRouteKey, [driver |-> build[b].driver, orders |-> build[b].orders],
                  [build EXCEPT ![b].stage = "eta"])
    BY <1>5 DEF PlanAnswered
  <2>3. QED  BY <1>1, <1>2, <1>3, <2>1, <2>2, SlotMoves, AutoRouteType DEF ConsoleInv
<1>6. CASE EtaAnswered(b) \/ BuildFailed(b)
  <2>1. /\ EndBuild(b) /\ UNCHANGED <<orders, drivers, selected>>
        /\ locations' \subseteq Fleet
    BY <1>6 DEF EtaAnswered, BuildFailed, ConsoleInv, ScreenTypeOK
  <2>2. QED  BY <1>1, <1>2, <2>1, EndBuildType DEF ConsoleInv
<1>7. QED  BY <1>4, <1>5, <1>6

LEMMA ServicesInv ==
  ASSUME ConsoleInv,
         \/ \E o \in Deliveries, d \in Fleet \cup {Nobody} : Reassign(o, d)
         \/ \E r \in Refreshes, os \in {{}, {assignment}}, ds \in {{}, {enrolled}} :
              ReadLists(r, os, ds)
  PROVE  ConsoleInv'
<1>1. UNCHANGED <<screenVars, plan, autoRouteKey, build>>
  BY DEF Reassign, ReadLists
<1>2. ScreenTypeOK' /\ KeyIsCurrent' /\ RoutingTypeOK'
  BY <1>1, KeyStays DEF ConsoleInv, RoutingTypeOK
<1>3. ASSUME NEW o \in Deliveries, NEW d \in Fleet \cup {Nobody}, Reassign(o, d)
      PROVE  ServicesTypeOK'
  BY <1>3, ConsoleBoundsAssumption
  DEF ConsoleBoundsAssumption, Reassign, ConsoleInv, ServicesTypeOK, Assignments
<1>4. ASSUME NEW r \in Refreshes, NEW os \in {{}, {assignment}}, NEW ds \in {{}, {enrolled}},
             ReadLists(r, os, ds)
      PROVE  ServicesTypeOK'
  <2>1. [orders |-> os, drivers |-> ds] \in Answers
    BY DEF ConsoleInv, ServicesTypeOK, Answers
  <2>2. QED  BY <1>4, <2>1 DEF ReadLists, ConsoleInv, ServicesTypeOK
<1>5. QED  BY <1>2, <1>3, <1>4 DEF ConsoleInv

LEMMA ApplyListsInv ==
  ASSUME ConsoleInv, NEW r \in Refreshes, ApplyLists(r)
  PROVE  ConsoleInv'
<1> PICK read \in refresh[r] :
      /\ orders' = Listed(read.orders, orders, [o \in Deliveries |-> Nobody])
      /\ drivers' = Listed(read.drivers, drivers, {})
      /\ \/ selected' \in UNION read.drivers
         \/ UNCHANGED selected
      /\ UNCHANGED <<tab, locations>>
      /\ AutoRoute(autoRouteKey, plan, build)
      /\ refresh' = [refresh EXCEPT ![r] = {}]
      /\ UNCHANGED <<assignment, enrolled, reassignments, clicks, chosen>>
  BY DEF ApplyLists
<1>1. read.orders \subseteq Assignments /\ read.drivers \subseteq SUBSET Fleet
  BY DEF ConsoleInv, ServicesTypeOK, Answers
<1>2. orders' \in Assignments /\ drivers' \subseteq Fleet
  BY <1>1 DEF Listed, ConsoleInv, ScreenTypeOK
<1>3. selected' \in Fleet \cup {Nobody}
  BY <1>1 DEF ConsoleInv, ScreenTypeOK
<1>4. ScreenTypeOK'
  BY <1>2, <1>3 DEF ConsoleInv, ScreenTypeOK
<1>5. ServicesTypeOK'
  BY DEF ConsoleInv, ServicesTypeOK
<1>6. QED  BY <1>4, <1>5, AutoRouteType DEF ConsoleInv, RoutingTypeOK

LEMMA ClickType ==
  ASSUME ConsoleInv, Click
  PROVE  clicks' \in 0..MaxClicks
  BY ConsoleBoundsAssumption DEF ConsoleBoundsAssumption, ConsoleInv, ServicesTypeOK, Click

LEMMA OperatorInv ==
  ASSUME ConsoleInv,
         \/ \E t \in Tabs : OpenTab(t)
         \/ \E d \in Fleet : PositionShown(d) \/ SelectDriver(d) \/ DriverCreated(d)
         \/ \E d \in Fleet \cup {Nobody} : SelectInList(d)
  PROVE  ConsoleInv'
<1>1. ScreenTypeOK'
  BY DEF OpenTab, PositionShown, SelectDriver, DriverCreated, SelectInList, ConsoleInv,
         ScreenTypeOK
<1>2. ServicesTypeOK'
  BY ClickType DEF OpenTab, PositionShown, SelectDriver, DriverCreated, SelectInList,
                   ConsoleInv, ServicesTypeOK
<1>3. AutoRoute(autoRouteKey, plan, build) \/ AutoRoute(NoKey, plan, build)
  BY DEF OpenTab, PositionShown, SelectDriver, DriverCreated, SelectInList
<1>4. RoutingTypeOK' /\ KeyIsCurrent'
  BY <1>1, <1>3, NothingIsTyped, AutoRouteType DEF ConsoleInv, RoutingTypeOK
<1>5. QED  BY <1>1, <1>2, <1>4 DEF ConsoleInv

LEMMA RouteButtonsInv ==
  ASSUME ConsoleInv, BuildRoute \/ ClearPlan \/ \E o \in Deliveries : OpenDispatchRoute(o)
  PROVE  ConsoleInv'
<1>1. ServicesTypeOK'
  BY ClickType DEF BuildRoute, ClearPlan, OpenDispatchRoute, ConsoleInv, ServicesTypeOK
<1>2. CASE BuildRoute
  <2>1. UNCHANGED <<screenVars, plan, autoRouteKey>>
        /\ BeginBuild(build, selected, Candidates(orders, selected), "button")
    BY <1>2 DEF BuildRoute
  <2>2. build' \in [Builds -> Slots]
    BY <2>1, BeginBuildType, CandidatesAreOrders
    DEF ConsoleInv, RoutingTypeOK, ScreenTypeOK, screenVars
  <2>3. QED  BY <1>1, <2>1, <2>2, KeyStays DEF ConsoleInv, RoutingTypeOK
<1>3. CASE ClearPlan
  <2>1. UNCHANGED <<screenVars, build, autoRouteKey>> /\ plan' = NoPlan
    BY <1>3 DEF ClearPlan
  <2>2. QED  BY <1>1, <2>1, KeyStays, NothingIsTyped DEF ConsoleInv, RoutingTypeOK
<1>4. ASSUME NEW o \in Deliveries, OpenDispatchRoute(o)
      PROVE  ConsoleInv'
  <2>1. CASE orders[o] \in drivers
    <3>1. UNCHANGED <<screenVars, plan, autoRouteKey>>
          /\ BeginBuild(build, orders[o], {o}, "dispatch")
      BY <1>4, <2>1 DEF OpenDispatchRoute, screenVars
    <3>2. build' \in [Builds -> Slots]
      BY <2>1, <3>1, BeginBuildType DEF ConsoleInv, RoutingTypeOK, ScreenTypeOK, screenVars
    <3>3. QED  BY <1>1, <3>1, <3>2, KeyStays DEF ConsoleInv, RoutingTypeOK
  <2>2. CASE orders[o] \notin drivers
    <3>1. /\ AutoRoute(autoRouteKey, plan, build) /\ tab' = "tracking"
          /\ UNCHANGED <<orders, drivers, locations, selected>>
      BY <1>4, <2>2 DEF OpenDispatchRoute
    <3>2. ScreenTypeOK'
      BY <3>1 DEF ConsoleInv, ScreenTypeOK, Tabs
    <3>3. QED  BY <1>1, <3>1, <3>2, AutoRouteType DEF ConsoleInv, RoutingTypeOK
  <2>3. QED  BY <2>1, <2>2
<1>5. QED  BY <1>2, <1>3, <1>4

LEMMA ConsoleNextInv ==
  ASSUME ConsoleInv, [ConsoleNext]_consoleVars
  PROVE  ConsoleInv'
<1>1. CASE UNCHANGED consoleVars
  <2>1. UNCHANGED <<screenVars, autoRouteKey, plan, build, assignment, enrolled,
                    reassignments, refresh, clicks, chosen>>
    BY <1>1 DEF consoleVars
  <2>2. ServicesTypeOK' /\ RoutingTypeOK'
    BY <2>1 DEF ConsoleInv, ServicesTypeOK, RoutingTypeOK
  <2>3. QED  BY <2>1, <2>2, KeyStays DEF ConsoleInv
<1>2. CASE ConsoleNext
  BY <1>2, BuildsInv, ServicesInv, ApplyListsInv, OperatorInv, RouteButtonsInv
  DEF ConsoleNext, ConsoleStep
<1>3. QED  BY <1>1, <1>2

THEOREM ConsoleInvariance == ConsoleSpec => []ConsoleInv
<1>1. ConsoleInv /\ [ConsoleNext]_consoleVars => ConsoleInv'
  BY ConsoleNextInv
<1>2. QED  BY <1>1, ConsoleInvInit, PTL DEF ConsoleSpec

(* When what it looks at stays as it is, the effect asks for nothing.      *)
LEMMA SameViewAsksNothing ==
  ASSUME ConsoleInv, UNCHANGED <<tab, selected>>,
         Candidates(orders', selected) = Candidates(orders, selected),
         selected \notin locations' \ locations,
         NEW shown, NEW others, AutoRoute(autoRouteKey, shown, others)
  PROVE  build' = others
<1>1. \/ selected' = Nobody
      \/ tab' = "other"
      \/ autoRouteKey = [tab |-> tab', driver |-> selected',
                         orders |-> Candidates(orders', selected')]
      \/ /\ Candidates(orders', selected') # {} /\ tab' = "overview"
         /\ selected' \notin locations'
  BY DEF ConsoleInv, KeyIsCurrent
<1>2. QED  BY <1>1 DEF AutoRoute

(* For each tab, driver and set of deliveries that it comes to show, the   *)
(* console asks for a route by itself at most once: not again at a refresh *)
(* or for every position of a driver.                                      *)
THEOREM EffectAsksOnce == ConsoleSpec => AutoRouteOnce
<1> DEFINE Asked(b) ==
      build[b].stage = "idle" /\ build'[b].by = "effect" =>
        \/ tab' # tab
        \/ selected' # selected
        \/ Candidates(orders', selected) # Candidates(orders, selected)
        \/ selected \in locations' \ locations
<1>1. ConsoleInv /\ [ConsoleNext]_consoleVars => [\A b \in Builds : Asked(b)]_consoleVars
  <2> SUFFICES ASSUME ConsoleInv, ConsoleNext, NEW b \in Builds,
                      build[b].stage = "idle", build'[b].by = "effect",
                      UNCHANGED <<tab, selected>>,
                      Candidates(orders', selected) = Candidates(orders, selected),
                      selected \notin locations' \ locations
               PROVE  FALSE
    BY Zenon
  <2>1. build \in [Builds -> Slots] /\ build[b].by = "none" /\ NotBuilding.by = "none"
    BY DEF ConsoleInv, RoutingTypeOK, Slots, NotBuilding
  <2>2. ASSUME NEW shown, AutoRoute(autoRouteKey, shown, build)
        PROVE  FALSE
    BY <2>1, <2>2, SameViewAsksNothing
  <2>3. ASSUME NEW c \in Builds, EndBuild(c)
        PROVE  FALSE
    <3>1. build' = [build EXCEPT ![c] = NotBuilding]
      BY <2>3, SameViewAsksNothing DEF EndBuild
    <3>2. QED  BY <2>1, <3>1
  <2>4. ASSUME NEW c \in Builds, build[c].stage # "idle", NEW stage, NEW shown,
               AutoRoute(autoRouteKey, shown, [build EXCEPT ![c].stage = stage])
        PROVE  FALSE
    <3>1. build' = [build EXCEPT ![c].stage = stage]
      BY <2>4, SameViewAsksNothing
    <3>2. QED  BY <2>1, <2>4, <3>1
  <2>5. ASSUME NEW d, NEW list, NEW by \in {"button", "dispatch"},
               BeginBuild(build, d, list, by)
        PROVE  FALSE
    BY <2>1, <2>5 DEF BeginBuild
  <2>6. ASSUME NEW c \in Builds,
               OriginAnswered(c) \/ PlanAnswered(c) \/ EtaAnswered(c) \/ BuildFailed(c)
        PROVE  FALSE
    BY <2>3, <2>4, <2>6 DEF OriginAnswered, PlanAnswered, EtaAnswered, BuildFailed
  <2>7. build' # build
    BY <2>1
  <2>8. QED
    BY <2>2, <2>5, <2>6, <2>7
    DEF ConsoleNext, ConsoleStep, Reassign, ReadLists, ApplyLists, OpenTab, PositionShown,
        SelectDriver, DriverCreated, SelectInList, OpenDispatchRoute, BuildRoute, ClearPlan
<1>2. QED  BY <1>1, ConsoleInvariance, PTL DEF ConsoleSpec, AutoRouteOnce

(* The console keeps its types: a route is only ever asked for one of the  *)
(* drivers, whatever has become of the lists since.                        *)
THEOREM ConsoleTypes == ConsoleSpec => []ConsoleTypeOK
  BY ConsoleInvTypes, ConsoleInvariance, PTL

-------------------------------------------------------------------------------
(* The composition.                                                        *)

(* A behaviour of MCRequests is a behaviour of each of its components.     *)
THEOREM RequestsCompose ==
  RequestsSpec => BreakerSpec /\ IntakeSpec /\ ConsoleSpec /\ DemoSpec
<1>1. RequestsInit => BreakerInit /\ IntakeInit /\ ConsoleInit /\ DemoInit
  BY DEF RequestsInit
<1>2. [RequestsNext]_requestsVars =>
        /\ [BreakerNext]_breakerVars /\ [IntakeNext]_intakeVars
        /\ [ConsoleNext]_consoleVars /\ [DemoNext]_demoVars
  BY DEF RequestsNext, requestsVars
<1>3. QED
  BY <1>1, <1>2, PTL DEF RequestsSpec, BreakerSpec, IntakeSpec, ConsoleSpec, DemoSpec

(* So what TLC checks of their types on one instance holds for every       *)
(* value of the constants.                                                 *)
THEOREM RequestsTypes == RequestsSpec => []RequestsTypeOK
<1>1. IntakeInv => IntakeTypeOK
  BY DEF IntakeInv
<1>2. BreakerTypeOK /\ IntakeTypeOK /\ ConsoleTypeOK /\ DemoTypeOK => RequestsTypeOK
  BY DEF RequestsTypeOK
<1>3. QED
  BY <1>1, <1>2, RequestsCompose, BreakerTypes, IntakeInvariance, ConsoleTypes,
     DemoStaysHonest, PTL
===============================================================================
