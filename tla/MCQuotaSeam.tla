---------------------------- MODULE MCQuotaSeam ----------------------------
(* Instances of QuotaSeam for TLC. *)
EXTENDS QuotaSeam

CONSTANTS j1, j2, b1

\* The larger job takes the whole of the limit.
OneBig == [r \in Requests |-> IF r = j1 THEN 2 ELSE 1]
=============================================================================
