-------------------------- MODULE MCCommandPlane --------------------------
(* Instances of CommandPlane for TLC. *)
EXTENDS CommandPlane, TLC

CONSTANTS a1, a2, s1, w1, w2, c1, c2

OneTenant == [k \in Keys |-> "tenant"]

\* Every command retrains one pair.
OnePair == [k \in Keys |-> "pair"]

WorkerSymmetry == Permutations(Workers)
=============================================================================
