------------------------------ MODULE MCTimer -------------------------------
(* Instances of Timer for TLC.                                             *)
EXTENDS Timer, TLC

CONSTANTS e1, e2, p1, p2, c1, c2

TimerSymmetry == Permutations(Entries) \cup Permutations(Projects) \cup Permutations(Calls)
=============================================================================
