---------------------------- MODULE MCShareLink ----------------------------
(* Instances of ShareLink for TLC.                                          *)
EXTENDS ShareLink, TLC

CONSTANTS l1, l2, g1, g2, m1, m2, r1, r2

ShareSymmetry == Permutations(Links) \cup Permutations(Logins) \cup Permutations(Members) \cup Permutations(Requests)

(* Bound: a code is mailed for one of the links; the other is there to be   *)
(* made, locked and ended beside it.                                        *)
OneCoded == \A l, k \in Links : link[l].sent > 0 /\ link[k].sent > 0 => l = k
=============================================================================
