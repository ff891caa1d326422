------------------------------- MODULE GuidedDemo -------------------------------
(***************************************************************************)
(* The guided demonstration of the console: six steps, one after the       *)
(* other, each a call of the API, and the progress it shows.  What it sets *)
(* of the screen (the driver it creates and its position) are steps of     *)
(* OpsConsole.  The language may be changed while it runs.                 *)
(***************************************************************************)
EXTENDS Naturals

CONSTANT MaxDemoPolls         \* 24 in the code

ASSUME MaxDemoPollsAssumption == MaxDemoPolls \in Nat \ {0}

VARIABLES
  demoRunning,
  demoSteps,                  \* the state shown of each step
  current,                    \* the step the function is at, 0 when it does not run
  polls,                      \* times the dispatch was asked for
  accomplished                \* history variable: steps this run has got done

demoVars == <<demoRunning, demoSteps, current, polls, accomplished>>

Steps == 1..6
Refreshing == 7

AllPending == [i \in Steps |-> "pending"]

DemoTypeOK ==
  /\ demoRunning \in BOOLEAN
  /\ demoSteps \in [Steps -> {"pending", "running", "success", "error"}]
  /\ current \in 0..Refreshing
  /\ polls \in 0..MaxDemoPolls
  /\ accomplished \subseteq Steps

DemoInit ==
  /\ demoRunning = FALSE
  /\ demoSteps = AllPending
  /\ current = 0
  /\ polls = 0
  /\ accomplished = {}

(* Mutation of StartDemo: the steps are not reset.                         *)
StartDemoOnTop ==
  /\ ~demoRunning
  /\ demoRunning' = TRUE
  /\ demoSteps' = [demoSteps EXCEPT ![1] = "running"]
  /\ current' = 1 /\ polls' = 0 /\ accomplished' = {}

StartDemo ==
  /\ ~demoRunning
  /\ demoRunning' = TRUE
  /\ demoSteps' = [AllPending EXCEPT ![1] = "running"]
  /\ current' = 1 /\ polls' = 0 /\ accomplished' = {}

(* The end of step i, shown as outcome, and the beginning of the next.     *)
Advance(i, outcome) ==
  /\ demoSteps' = [j \in Steps |-> CASE j = i     -> outcome
                                     [] j = i + 1 -> "running"
                                     [] OTHER     -> demoSteps[j]]
  /\ current' = i + 1
  /\ accomplished' = IF outcome = "success" THEN accomplished \cup {i} ELSE accomplished

(* A driver, its availability, its position, an order.                     *)
CallAnswered ==
  /\ current \in 1..4
  /\ Advance(current, "success")
  /\ UNCHANGED <<demoRunning, polls>>

(* The dispatch is read; the last time decides, or the first time it is    *)
(* final.                                                                  *)
PollAgain ==
  /\ current = 5 /\ polls + 1 < MaxDemoPolls
  /\ polls' = polls + 1
  /\ UNCHANGED <<demoRunning, demoSteps, current, accomplished>>

PollDecides(assigned) ==
  /\ current = 5
  /\ Advance(5, IF assigned THEN "success" ELSE "error")
  /\ polls' = polls + 1
  /\ UNCHANGED demoRunning

(* The decision is read; the lists are refreshed before the demo ends.     *)
DecisionRead ==
  /\ current = 6
  /\ Advance(6, "success")
  /\ UNCHANGED <<demoRunning, polls>>

DemoEnds ==
  /\ current = Refreshing
  /\ demoRunning' = FALSE
  /\ current' = 0
  /\ UNCHANGED <<demoSteps, polls, accomplished>>

(* A call fails, or the last poll has found no dispatch: the first step    *)
(* shown running, if there is one, is shown as failed.                     *)
DemoFails ==
  /\ current \in Steps
  /\ demoSteps' = [i \in Steps |->
       IF demoSteps[i] = "running" /\ \A j \in 1..(i - 1) : demoSteps[j] # "running"
       THEN "error" ELSE demoSteps[i]]
  /\ demoRunning' = FALSE
  /\ current' = 0
  /\ UNCHANGED <<polls, accomplished>>

(* The steps are shown in the new language, and anew.                      *)
ChangeLanguage ==
  /\ demoSteps' = AllPending
  /\ UNCHANGED <<demoRunning, current, polls, accomplished>>

DemoNext ==
  \/ StartDemo
  \/ CallAnswered
  \/ PollAgain
  \/ \E assigned \in BOOLEAN : PollDecides(assigned)
  \/ DecisionRead
  \/ DemoEnds
  \/ DemoFails
  \/ ChangeLanguage

DemoSpec == DemoInit /\ [][DemoNext]_demoVars

-------------------------------------------------------------------------------
(* What the demo shows has happened in this run: no step is shown done     *)
(* that is not, only the step it is at is shown running, and none when it  *)
(* has ended, even if calls fail or the language changes on the way.       *)
DemoIsHonest ==
  \A i \in Steps :
    /\ demoSteps[i] = "success" => i \in accomplished
    /\ demoSteps[i] = "running" => demoRunning /\ current = i
===============================================================================
