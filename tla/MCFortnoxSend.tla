---------------------------- MODULE MCFortnoxSend ----------------------------
(* Instances of FortnoxSend for TLC.  A tick stands for half a minute.      *)
EXTENDS FortnoxSend, TLC

CONSTANTS r1, r2

RunSymmetry == Permutations(Runs)
=============================================================================
