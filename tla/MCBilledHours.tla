---------------------------- MODULE MCBilledHours ----------------------------
(* Instances of BilledHours for TLC: one hour tracked, of two units; a      *)
(* split writes the second.                                                 *)
EXTENDS BilledHours, TLC

CONSTANTS u1, u2, l1, l2, l3, i1, i2, r1, r2

OneHour == [h \in Hours |-> IF h = 1 THEN {u1, u2} ELSE {}]

HoursSymmetry == Permutations(Units) \cup Permutations(Lines) \cup Permutations(Invoices) \cup Permutations(Requests)
=============================================================================
