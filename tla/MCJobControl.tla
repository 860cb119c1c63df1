---------------------------- MODULE MCJobControl ----------------------------
(* Model-checking instance of JobControl: two processes are a pipeline of   *)
(* two or two single commands.                                             *)
EXTENDS JobControl, TLC

CONSTANTS p1, p2

MCProc == {p1, p2}
Symmetry == Permutations(MCProc)
NoLeavers == {}
=============================================================================
