------------------------------ MODULE MC_Socket ------------------------------
(* Instantiates Socket for TLC: two callers, model values for the         *)
(* goroutines, and a symmetry over the callers for the safety runs.       *)
EXTENDS Socket

CONSTANTS c1, c2

MCCallers == {c1, c2}

CallerSymmetry == Permutations(MCCallers)
=============================================================================
