-------------------------- MODULE MCEventConsumer --------------------------
(* Instances of EventConsumer for TLC: messages 1 and 2 are copies of one  *)
(* event, later ones cannot be decoded.                                    *)
EXTENDS EventConsumer

CONSTANTS c1, c2, event, garbage

TwoCopiesAndGarbage == [m \in Messages |-> IF m <= 2 THEN event ELSE garbage]
=============================================================================
