----------------------------- MODULE CircuitBreaker -----------------------------
(***************************************************************************)
(* The circuit breaker around the calls of the dispatch service to the     *)
(* driver service and to the tracking service.  There is one per           *)
(* dependency and process.  Calls overlap: execute() decides on admission, *)
(* awaits the operation, and applies the result to whatever state the      *)
(* breaker is in by then.  Each of the two halves runs without a break.    *)
(*                                                                         *)
(* Time is counted in ticks.  The HTTP clients end every call after        *)
(* DEPENDENCY_TIMEOUT_MS, which is shorter than the reset timeout.         *)
(***************************************************************************)
EXTENDS Integers, FiniteSets

CONSTANTS
  BreakerCalls,       \* slots for calls in flight
  FailureThreshold,
  HalfOpenMaxCalls,
  ResetTimeout,
  CallTimeout

ASSUME BreakerAssumption ==
  /\ IsFiniteSet(BreakerCalls)
  /\ FailureThreshold \in Nat \ {0}
  /\ HalfOpenMaxCalls \in Nat \ {0}
  /\ ResetTimeout \in Nat
  /\ CallTimeout \in Nat
  /\ CallTimeout < ResetTimeout

VARIABLES
  state,              \* CLOSED, OPEN or HALF_OPEN
  failures,           \* consecutiveFailures
  probes,             \* halfOpenInFlight
  sinceOpen,          \* ticks since openedAtMs, up to ResetTimeout
  age                 \* ticks each call has been in flight, or NotInFlight

breakerVars == <<state, failures, probes, sinceOpen, age>>

NotInFlight == -1

InFlight == {c \in BreakerCalls : age[c] # NotInFlight}

BreakerTypeOK ==
  /\ state \in {"CLOSED", "OPEN", "HALF_OPEN"}
  /\ failures \in 0..(FailureThreshold - 1)
  /\ probes \in 0..HalfOpenMaxCalls
  /\ sinceOpen \in 0..ResetTimeout
  /\ age \in [BreakerCalls -> {NotInFlight} \cup 0..CallTimeout]

(* openedAtMs is 0, so the reset timeout counts as over.                   *)
BreakerInit ==
  /\ state = "CLOSED"
  /\ failures = 0
  /\ probes = 0
  /\ sinceOpen = ResetTimeout
  /\ age = [c \in BreakerCalls |-> NotInFlight]

-------------------------------------------------------------------------------
(* moveToHalfOpenWhenReady, as the state in which admission is decided.    *)
(* Mutation of ResetIsDue: the breaker does not wait.                      *)
ResetIsDueAtOnce == state = "OPEN"

ResetIsDue == state = "OPEN" /\ sinceOpen >= ResetTimeout

(* Mutation of ProbeAllowed: one probe too many.                           *)
ProbeAllowedOffByOne == probes <= HalfOpenMaxCalls

ProbeAllowed == probes < HalfOpenMaxCalls

Start(c) ==
  /\ age[c] = NotInFlight
  /\ age' = [age EXCEPT ![c] = 0]

(* execute() up to the await.                                              *)
Admit(c) ==
  /\ state = "CLOSED"
  /\ Start(c)
  /\ UNCHANGED <<state, failures, probes, sinceOpen>>

(* A call that gets no slot is refused, as is every call while OPEN.       *)
AdmitProbe(c) ==
  /\ state = "HALF_OPEN" \/ ResetIsDue
  /\ state' = "HALF_OPEN"
  /\ IF ProbeAllowed
     THEN Start(c) /\ probes' = probes + 1
     ELSE UNCHANGED <<age, probes>>
  /\ UNCHANGED <<failures, sinceOpen>>

Return(c) ==
  /\ age[c] # NotInFlight
  /\ age' = [age EXCEPT ![c] = NotInFlight]

(* onSuccess, also for a response with a 4xx status.                       *)
Succeed(c) ==
  /\ Return(c)
  /\ state' = "CLOSED"
  /\ failures' = 0
  /\ probes' = IF state = "CLOSED" THEN probes ELSE 0
  /\ UNCHANGED sinceOpen

(* Mutation of Open: openedAtMs is not set.                                *)
OpenWithoutTime ==
  /\ state' = "OPEN"
  /\ failures' = 0
  /\ probes' = IF state = "OPEN" THEN probes ELSE 0
  /\ UNCHANGED sinceOpen

Open ==
  /\ state' = "OPEN"
  /\ failures' = 0
  /\ sinceOpen' = 0
  /\ probes' = IF state = "OPEN" THEN probes ELSE 0

(* Mutation of Fail: a failed probe only counts towards the threshold.     *)
FailCounting(c) ==
  /\ Return(c)
  /\ IF failures + 1 >= FailureThreshold
     THEN Open
     ELSE failures' = failures + 1 /\ UNCHANGED <<state, probes, sinceOpen>>

(* onFailure.  A breaker that is OPEN counts on, and opens once more.      *)
Fail(c) ==
  /\ Return(c)
  /\ IF state = "HALF_OPEN" \/ failures + 1 >= FailureThreshold
     THEN Open
     ELSE failures' = failures + 1 /\ UNCHANGED <<state, probes, sinceOpen>>

(* Time does not go on past the timeout of a call.                         *)
Tick ==
  /\ \A c \in InFlight : age[c] < CallTimeout
  /\ age' = [c \in BreakerCalls |-> IF c \in InFlight THEN age[c] + 1 ELSE NotInFlight]
  /\ sinceOpen' = IF sinceOpen < ResetTimeout THEN sinceOpen + 1 ELSE sinceOpen
  /\ UNCHANGED <<state, failures, probes>>

BreakerNext == Tick \/ \E c \in BreakerCalls : Admit(c) \/ AdmitProbe(c) \/ Succeed(c) \/ Fail(c)

BreakerSpec == BreakerInit /\ [][BreakerNext]_breakerVars

-------------------------------------------------------------------------------
(* In HALF_OPEN the dependency gets at least one and at most               *)
(* HalfOpenMaxCalls calls, and each of them has a slot: no call of an      *)
(* earlier phase is around that could leak a slot or take one away.        *)
(* Outside HALF_OPEN no slot stays taken.                                  *)
HalfOpenAccounts ==
  /\ state = "HALF_OPEN" => probes = Cardinality(InFlight) /\ probes \in 1..HalfOpenMaxCalls
  /\ state # "HALF_OPEN" => probes = 0

(* OPEN is only left for HALF_OPEN, after the reset timeout, once the      *)
(* calls that were in flight when the breaker opened have returned; such a *)
(* call closes it early when it succeeds.                                  *)
OpenAfterTimeoutsWaits ==
  [][state = "OPEN" /\ sinceOpen > CallTimeout => state' \in {"OPEN", "HALF_OPEN"}]_breakerVars

(* HALF_OPEN is never for good: the probe decides.                         *)
HalfOpenEnds == (state = "HALF_OPEN") ~> (state # "HALF_OPEN")
===============================================================================
