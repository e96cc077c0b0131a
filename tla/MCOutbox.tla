------------------------------ MODULE MCOutbox ------------------------------
(* Instances of Outbox for TLC.  A tick stands for two minutes of the code. *)
EXTENDS Outbox, TLC

CONSTANTS r1, r2, d1, d2

KindReport  == r1 :> "summary" @@ r2 :> "report"
KindLive    == r1 :> "work"    @@ r2 :> "summary"
KindKick    == r1 :> "report"  @@ r2 :> "report"

MCBackoff == [n \in 0 .. MaxAttempts - 1 |-> 2 ^ n]

DrainSymmetry == Permutations(Drains)
=============================================================================
