------------------------- MODULE MCDependencyTable -------------------------
(* Instance of DependencyTable: three files are enough for a cycle, for an  *)
(* order of the rows that needs several sweeps, and for an include of a     *)
(* file that has left the snapshot.                                         *)
EXTENDS DependencyTable, TLC

CONSTANTS a, b, c

ThreeFiles == {a, b, c}
=============================================================================
