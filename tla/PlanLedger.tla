----------------------------- MODULE PlanLedger -----------------------------
(***************************************************************************)
(* What plan and apply promise of a call that needs care: each planning of *)
(* it is claimed once, executed once and only by its claim, and by nobody  *)
(* unless policy allows the call or a human approved the plan no later     *)
(* than that planning. Which reads, resets, late finishes and crashes lie  *)
(* between is the business of Plans, which implements it.                  *)
(***************************************************************************)
EXTENDS Naturals, Sequences

CONSTANT Calls   \* planned calls, named by their hash

VARIABLES
    policy,   \* what policy says of the call
    planned,  \* times each call was planned
    open,     \* calls whose last planning waits for its apply
    granted,  \* plannings <<call, number>> a human approved
    held,     \* plannings an apply has claimed and may execute
    done      \* executions, in order: of which planning, by whose leave

ledger == <<policy, planned, open, granted, held, done>>

Last(c) == <<c, planned[c]>>

Init ==
    /\ planned = [c \in Calls |-> 0]
    /\ open = {} /\ granted = {} /\ held = {} /\ done = <<>>

\* A new planning of a call; the one before is no longer to be claimed.
Plan(c) ==
    /\ planned' = [planned EXCEPT ![c] = @ + 1]
    /\ open' = open \cup {c}
    /\ UNCHANGED <<policy, granted, held, done>>

Grant(c) ==
    /\ c \in open
    /\ granted' = granted \cup {Last(c)}
    /\ UNCHANGED <<policy, planned, open, held, done>>

Claim(c) ==
    /\ c \in open
    /\ open' = open \ {c} /\ held' = held \cup {Last(c)}
    /\ UNCHANGED <<policy, planned, granted, done>>

\* A planning ends unclaimed.
Close(c) ==
    /\ c \in open
    /\ open' = open \ {c}
    /\ UNCHANGED <<policy, planned, granted, held, done>>

\* A claim ends without execution. It ends the call's plan, also where that
\* was planned again.
Drop(p) ==
    /\ p \in held /\ held' = held \ {p}
    /\ open' = open \/ open' = open \ {p[1]}
    /\ UNCHANGED <<policy, planned, granted, done>>

Leave(p, by) ==
    \/ by = "policy" /\ policy = "allow"
    \/ by = "human" /\ \E g \in granted : g[1] = p[1] /\ g[2] <= p[2]

Execute(p) ==
    /\ p \in held /\ held' = held \ {p}
    /\ \E by \in {"policy", "human"} :
          Leave(p, by) /\ done' = Append(done, [planning |-> p, by |-> by])
    /\ UNCHANGED <<policy, planned, open, granted>>

ChangePolicy == UNCHANGED <<planned, open, held, granted, done>>

Next ==
    \/ ChangePolicy
    \/ \E c \in Calls : Plan(c) \/ Grant(c) \/ Claim(c) \/ Close(c)
    \/ \E p \in held : Drop(p) \/ Execute(p)

Spec == Init /\ [][Next]_ledger

\* No planning is executed twice, nor while another apply may execute it, and
\* an execution by a human's leave is of a plan the human had approved.
Once ==
    /\ \A i, j \in 1 .. Len(done) : i # j => done[i].planning # done[j].planning
    /\ \A i \in 1 .. Len(done) : done[i].planning \notin held
Approved ==
    \A i \in 1 .. Len(done) :
        done[i].by = "human" =>
            \E g \in granted : g[1] = done[i].planning[1] /\ g[2] <= done[i].planning[2]
=============================================================================
