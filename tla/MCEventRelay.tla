--------------------------- MODULE MCEventRelay ---------------------------
(* Instances of EventRelay for TLC. *)
EXTENDS EventRelay

CONSTANTS r1, r2
=============================================================================
