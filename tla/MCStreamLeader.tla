--------------------------- MODULE MCStreamLeader ---------------------------
(* Instances of StreamLeader for TLC. *)
EXTENDS StreamLeader, TLC

CONSTANTS r1, r2, t1, t2, t3

Symmetry == Permutations(Replicas) \cup Permutations(Tokens)
=============================================================================
