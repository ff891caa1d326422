----------------------------- MODULE MCDispatchSaga -----------------------------
(* Instances of the saga for TLC.                                          *)
EXTENDS DispatchSaga, TLC

CONSTANTS o1, d1

OneEach == [d \in Drivers |-> 1]

OneOrNone == {<<d1>>, <<>>}

One == {<<d1>>}

(* The search ends where a stale save has changed an order; this step is   *)
(* still checked.                                                          *)
NothingOverwritten == overwritten = {}

(* The workers only differ in their names.                                 *)
WorkerSymmetry == Permutations(Workers)
===============================================================================
