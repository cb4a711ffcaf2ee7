--------------------------- MODULE CommandLedger ---------------------------
(***************************************************************************)
(* What the control plane promises of a command, whoever dispatches,       *)
(* retries, crashes or answers late: an accepted command is decided once;  *)
(* it succeeds only with a run; each decision is told once on the outbox;  *)
(* and two asynchronous commands of one pair are never in progress         *)
(* together. CommandPlane implements it.                                   *)
(***************************************************************************)
EXTENDS Naturals

CONSTANTS Keys, AsyncKeys, PairOf, Null

VARIABLES
    status,   \* none, open, or how the command was decided
    runs,     \* the commands Prefect has a run for
    outcome,  \* what is recorded of a succeeded command's run
    told      \* how often each topic was published for each command

ledger == <<status, runs, outcome, told>>

Outcomes == {"RUNNING", "COMPLETED", "MISSING"}
Final    == {"COMPLETED", "MISSING"}
Topics   == {"retrain.scheduled", "retrain.run_ended", "operation.cancelled"}

InProgress(k) ==
    \/ status[k] = "open"
    \/ status[k] = "succeeded" /\ outcome[k] \notin Final

Tell(k, topic) == told' = [told EXCEPT ![k][topic] = @ + 1]

Init ==
    /\ status = [k \in Keys |-> "none"]
    /\ runs = {}
    /\ outcome = [k \in Keys |-> Null]
    /\ told = [k \in Keys |-> [t \in Topics |-> 0]]

Accept(k) ==
    /\ status[k] = "none"
    /\ k \in AsyncKeys =>
         \A j \in AsyncKeys \ {k} : PairOf[j] = PairOf[k] => ~InProgress(j)
    /\ status' = [status EXCEPT ![k] = "open"]
    /\ UNCHANGED <<runs, outcome, told>>

\* A dispatch may reach Prefect at any time after acceptance, even after the
\* command was given up or withdrawn.
RunAppears(k) ==
    /\ status[k] # "none"
    /\ runs' = runs \cup {k}
    /\ UNCHANGED <<status, outcome, told>>

Succeed(k) ==
    /\ status[k] = "open" /\ k \in runs
    /\ status' = [status EXCEPT ![k] = "succeeded"]
    /\ Tell(k, "retrain.scheduled")
    /\ UNCHANGED <<runs, outcome>>

Withdraw(k) ==
    /\ k \in AsyncKeys /\ status[k] = "open"
    /\ status' = [status EXCEPT ![k] = "cancelled"]
    /\ Tell(k, "operation.cancelled")
    /\ UNCHANGED <<runs, outcome>>

\* Several commands may be given up in one sweep; no event is published.
GiveUp(B) ==
    /\ \A k \in B : status[k] = "open"
    /\ status' = [k \in Keys |-> IF k \in B THEN "dead" ELSE status[k]]
    /\ UNCHANGED <<runs, outcome, told>>

Follow(k, o) ==
    /\ status[k] = "succeeded" /\ outcome[k] \notin Final
    /\ outcome' = [outcome EXCEPT ![k] = o]
    /\ IF o \in Final THEN Tell(k, "retrain.run_ended") ELSE UNCHANGED told
    /\ UNCHANGED <<status, runs>>

Next ==
    \/ \E k \in Keys : \/ Accept(k) \/ RunAppears(k) \/ Succeed(k) \/ Withdraw(k)
                       \/ \E o \in Outcomes : Follow(k, o)
    \/ \E B \in SUBSET AsyncKeys : GiveUp(B)

Spec == Init /\ [][Next]_ledger

LedgerTypeOK ==
    /\ status \in [Keys -> {"none", "open", "succeeded", "dead", "cancelled"}]
    /\ runs \subseteq Keys
    /\ outcome \in [Keys -> Outcomes \cup {Null}]
    /\ told \in [Keys -> [Topics -> Nat]]

\* Each decision, and the end of each run, is told exactly once.
ToldOnce ==
    \A k \in Keys :
        /\ told[k]["retrain.scheduled"] = IF status[k] = "succeeded" THEN 1 ELSE 0
        /\ told[k]["operation.cancelled"] = IF status[k] = "cancelled" THEN 1 ELSE 0
        /\ told[k]["retrain.run_ended"] = IF outcome[k] \in Final THEN 1 ELSE 0

\* Two asynchronous commands of one pair are never in progress together.
OneInProgress ==
    \A j, k \in AsyncKeys :
        j # k /\ PairOf[j] = PairOf[k] => ~(InProgress(j) /\ InProgress(k))

\* A decision is not revised, and neither is the end of a run.
DecisionsStand ==
    [][\A k \in Keys :
        /\ status[k] \in {"succeeded", "dead", "cancelled"} => status'[k] = status[k]
        /\ outcome[k] \in Final => outcome'[k] = outcome[k]]_ledger
=============================================================================
