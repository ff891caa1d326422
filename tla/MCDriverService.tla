---------------------------- MODULE MCDriverService ----------------------------
(* Instances of the driver service for TLC.                                *)
EXTENDS DriverServiceEnv, TLC

CONSTANTS o1, o2, d1, d2

OneEach == [d \in Drivers |-> 1]

OneOrNoList == {<<d1>>, NoList}

Ranked == {<<d1, d2>>}

RankedAndNoList == {<<d1, d2>>, NoList}

OrderSymmetry == Permutations(Orders)
===============================================================================
