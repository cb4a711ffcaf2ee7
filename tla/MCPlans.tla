------------------------------ MODULE MCPlans ------------------------------
(* Instances of Plans for TLC. *)
EXTENDS Plans, TLC

CONSTANTS a1, a2, same, other

Symmetry == Permutations(Appliers) \cup Permutations(Worlds)
=============================================================================
