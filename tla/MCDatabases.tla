---------------------------- MODULE MCDatabases ----------------------------
(* Instances of Databases for TLC.                                         *)
EXTENDS Databases, TLC

CONSTANTS i1, i2, r1, r2, e1, e2, e3

(* Two instances start on an empty catalog with different endpoints.       *)
MCInitial == [i \in Instance |-> IF i = i1 THEN {e1} ELSE {e2}]

Symmetry == Permutations(Request)
=============================================================================
