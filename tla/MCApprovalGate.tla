-------------------------- MODULE MCApprovalGate --------------------------
(* Instances of ApprovalGate for TLC. *)
EXTENDS ApprovalGate, TLC

CONSTANTS t1, t2, t3

ThreadSymmetry == Permutations(Threads)
=============================================================================
