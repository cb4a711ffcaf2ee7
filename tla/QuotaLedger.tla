---------------------------- MODULE QuotaLedger ----------------------------
(***************************************************************************)
(* What the reservation table promises of a project's GPUs, whoever        *)
(* crashes, waits or forgets: GPUs are taken only while they fit; a        *)
(* request takes its own once, and what was given back is never taken up   *)
(* again; and no sweep, release or reconcile gives back the GPUs of a job  *)
(* at work. QuotaSeam implements it.                                       *)
(***************************************************************************)
EXTENDS Naturals

CONSTANTS
    Requests, Limit,
    Gpus,        \* GPUs each request asks for
    GpusOf(_)    \* GPUs a set of requests asks for together

VARIABLES
    taken,     \* requests whose GPUs count against the limit
    returned,  \* requests whose GPUs were given back
    working    \* jobs that run on GPUs that are theirs for good

quota == <<taken, returned, working>>

Init == taken = {} /\ returned = {} /\ working = {}

\* GPUs that nobody works on go back.
Frees(B) ==
    /\ B \in SUBSET (taken \ working)
    /\ returned' = returned \cup B

\* Whoever takes GPUs gives back, in the same step, what it does not count.
Take(r, B) ==
    /\ r \notin taken \cup returned
    /\ GpusOf(taken \ B) + Gpus[r] <= Limit
    /\ Frees(B)
    /\ taken' = (taken \ B) \cup {r}
    /\ UNCHANGED working

GiveBack(B) ==
    /\ Frees(B)
    /\ taken' = taken \ B
    /\ UNCHANGED working

StartWork(r) ==
    /\ r \in taken
    /\ working' = working \cup {r}
    /\ UNCHANGED <<taken, returned>>

\* The job ends, or is taken for ended; its GPUs may go back at once.
EndWork(r) ==
    /\ r \in working
    /\ working' = working \ {r}
    /\ \/ UNCHANGED <<taken, returned>>
       \/ taken' = taken \ {r} /\ returned' = returned \cup {r}

Next ==
    \/ \E r \in Requests : StartWork(r) \/ EndWork(r)
    \/ \E B \in SUBSET taken : GiveBack(B) \/ \E r \in Requests : Take(r, B)

Spec == Init /\ [][Next]_quota

\* The GPUs taken fit the limit, those of a job at work are among them, and
\* nothing is both taken and given back.
WithinLimit == GpusOf(taken) <= Limit
WorkIsPaid  == working \subseteq taken
TakenOnce   == taken \cap returned = {}
=============================================================================
