------------------------------ MODULE HandOver ------------------------------
(***************************************************************************)
(* One stage of the event path: an item is taken, passed on, and then      *)
(* closed, and no item skips a stage or goes back. Passing an item on more *)
(* than once is no step here: this is what at-least-once delivery promises *)
(* of an event, whoever crashes, retries or answers late.                  *)
(***************************************************************************)
CONSTANT Items

VARIABLES
    taken,   \* committed to the stage
    passed,  \* where the stage has to bring them, once at least
    closed   \* done with: the stage does not look at them again

stage == <<taken, passed, closed>>

Init == taken = {} /\ passed = {} /\ closed = {}

\* Several items may move in one step.
Next ==
    /\ taken \subseteq taken' /\ taken' \subseteq Items
    /\ passed \subseteq passed' /\ passed' \subseteq taken
    /\ closed \subseteq closed' /\ closed' \subseteq passed

Spec == Init /\ [][Next]_stage

\* An item is closed only where it was passed on, and passed on only if it was
\* committed.
InOrder == closed \subseteq passed /\ passed \subseteq taken /\ taken \subseteq Items
=============================================================================
