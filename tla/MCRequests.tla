------------------------------ MODULE MCRequests ------------------------------
(***************************************************************************)
(* Instances for TLC of the components whose hazard is a request in        *)
(* flight: others are sent before it is answered, and the answer is        *)
(* applied to whatever the state is by then.  They share nothing, so a     *)
(* behaviour is one of a single component.                                 *)
(***************************************************************************)
EXTENDS CircuitBreaker, OrderIntake, OpsConsole, GuidedDemo

VARIABLE component

requestsVars == <<component, breakerVars, intakeVars, consoleVars, demoVars>>

(* Two keys with one lock, as hashtext may have it.                        *)
OneLock == [k \in Keys |-> CHOOSE l \in Locks : TRUE]

RequestsInit ==
  /\ BreakerInit /\ IntakeInit /\ ConsoleInit /\ DemoInit
  /\ \/ component = "console"
     \/ /\ component \in {"breaker", "intake", "demo"}
        /\ assignment = [o \in Deliveries |-> Nobody]

RequestsNext ==
  /\ UNCHANGED component
  /\ \/ /\ component = "breaker" /\ BreakerNext
        /\ UNCHANGED <<intakeVars, consoleVars, demoVars>>
     \/ /\ component = "intake" /\ IntakeNext
        /\ UNCHANGED <<breakerVars, consoleVars, demoVars>>
     \/ /\ component = "console" /\ ConsoleNext
        /\ UNCHANGED <<breakerVars, intakeVars, demoVars>>
     \/ /\ component = "demo" /\ DemoNext
        /\ UNCHANGED <<breakerVars, intakeVars, consoleVars>>

(* Calls through the breaker return, by the timeout at the latest.         *)
(* PostgreSQL serves those that wait for a lock in turn, and a transaction *)
(* that has its lock goes on.  Of the refreshes of the console, which go   *)
(* on for ever, some get all the lists they ask for, and what has been     *)
(* read is applied; its requests for a route end.                          *)
RequestsFairness ==
  /\ WF_breakerVars(component = "breaker" /\ Tick)
  /\ \A c \in BreakerCalls :
       WF_breakerVars(component = "breaker" /\ (Succeed(c) \/ Fail(c)))
  /\ \A r \in Requests : /\ WF_intakeVars(component = "intake" /\ Transact(r))
                         /\ WF_intakeVars(component = "intake" /\ Reply(r))
  /\ \A r \in Refreshes :
       /\ WF_consoleVars(component = "console" /\ ApplyLists(r))
       /\ SF_consoleVars(component = "console" /\ ReadLists(r, {assignment}, {enrolled}))
  /\ \A b \in Builds :
       WF_consoleVars(component = "console"
         /\ (OriginAnswered(b) \/ PlanAnswered(b) \/ EtaAnswered(b) \/ BuildFailed(b)))

RequestsSpec == RequestsInit /\ [][RequestsNext]_requestsVars /\ RequestsFairness

(* Types of all of them.                                                   *)
RequestsTypeOK ==
  /\ BreakerTypeOK
  /\ IntakeTypeOK
  /\ ConsoleTypeOK
  /\ DemoTypeOK
===============================================================================
