--------------------------- MODULE ReservationLedger ---------------------------
(***************************************************************************)
(* What the driver service promises to dispatch: an order takes one place  *)
(* of one driver that has room, once, and gives it back once.              *)
(***************************************************************************)
EXTENDS Naturals, FiniteSets

CONSTANTS Orders, Drivers, Capacity

VARIABLES
  held,            \* the orders that have a place of each driver
  spent            \* the orders that have given their place back

ledgerVars == <<held, spent>>

Init ==
  /\ held = [d \in Drivers |-> {}]
  /\ spent = {}

Take(o, d) ==
  /\ o \notin spent
  /\ \A e \in Drivers : o \notin held[e]
  /\ Cardinality(held[d]) < Capacity[d]
  /\ held' = [held EXCEPT ![d] = @ \cup {o}]
  /\ UNCHANGED spent

GiveBack(o, d) ==
  /\ o \in held[d]
  /\ held' = [held EXCEPT ![d] = @ \ {o}]
  /\ spent' = spent \cup {o}

Next == \E o \in Orders, d \in Drivers : Take(o, d) \/ GiveBack(o, d)

Spec == Init /\ [][Next]_ledgerVars
===============================================================================
