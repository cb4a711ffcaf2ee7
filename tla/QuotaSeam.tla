----------------------------- MODULE QuotaSeam -----------------------------
(***************************************************************************)
(* Two-phase GPU quota of one project (examlops/admission_seam over        *)
(* examlops/data/quota_reservations.py). A request reserves its GPUs for a *)
(* while; a job that the scheduler accepts takes the reservation over      *)
(* (bind_and_commit) and holds it until its end is recorded, it is         *)
(* stopped, or `exa admission reconcile` finds it ended. A block of code   *)
(* run under admitted() keeps the reservation as it is and gives it back.  *)
(*                                                                         *)
(* One action is one transaction of the reservation table, one reading of  *)
(* the clock before it, or one call of the scheduler. Every store call     *)
(* takes its time before it waits for the table's write lock, so it may    *)
(* act on a time that has passed. The verdict of the policies is a choice; *)
(* GPU-hours, tenants and audit records are left out.                      *)
(***************************************************************************)
EXTENDS Naturals, FiniteSets

CONSTANTS
    Requests,   \* requests for admission
    Blocks,     \* those that run in the caller's own block (admitted)
    Gpus,       \* GPUs each asks for
    Limit,      \* the project's gpu_limit
    MaxFaults   \* bound: crashes, lost answers, failed calls, requeued jobs

ASSUME QuotaAssumption ==
    /\ IsFiniteSet(Requests) /\ Blocks \subseteq Requests
    /\ Gpus \in [Requests -> Nat] /\ Limit \in Nat /\ MaxFaults \in Nat

VARIABLES
    row,        \* quota_reservations: state, whether the holder is the job, whether the TTL is ahead
    call,       \* where the admitting call is
    fresh,      \* requests whose bind read the clock before their TTL had passed
    job,        \* the scheduler's job
    adrift,     \* jobs that run on after they were taken for ended
    holders,    \* jobs a running reconcile has still to ask about
    faults

vars == <<row, call, fresh, job, adrift, holders, faults>>

NoRow == [state |-> "none", bound |-> FALSE, live |-> FALSE]

Init ==
    /\ row = [r \in Requests |-> NoRow]
    /\ call = [r \in Requests |-> "idle"]
    /\ job = [r \in Requests |-> "none"]
    /\ fresh = {} /\ adrift = {} /\ holders = {} /\ faults = 0

UseFault == faults < MaxFaults /\ faults' = faults + 1

\* Rows the store counts or resolves; those that hold quota now (_HOLDING).
Resolvable(r) == row[r].state \in {"reserved", "committed"}
Holds(r) == row[r].state = "committed" \/ (row[r].state = "reserved" /\ row[r].live)
Lapsed == {r \in Requests : row[r].state = "reserved" /\ ~row[r].live}

GpusOf(S) == Cardinality(UNION {{r} \X (1 .. Gpus[r]) : r \in S})

----------------------------------------------------------------------------
(* Admission *)

\* reserve: the rows its clock saw lapse are expired in the transaction that
\* counts the rest.
SweptByFilter(S) == row
Swept(S) == [r \in Requests |-> IF r \in S THEN [row[r] EXCEPT !.state = "expired"] ELSE row[r]]
Counted(S) == {r \in Requests : Resolvable(r)} \ S

Reserve(r, S) ==
    /\ call[r] = "idle" /\ S \subseteq Lapsed
    /\ GpusOf(Counted(S)) + Gpus[r] <= Limit
    /\ row' = [Swept(S) EXCEPT ![r] = [state |-> "reserved", bound |-> FALSE, live |-> TRUE]]
    /\ call' = [call EXCEPT ![r] = "admitted"]
    /\ UNCHANGED <<fresh, job, adrift, holders, faults>>

\* A policy queues or rejects the request, or its GPUs do not fit.
Refuse(r, S) ==
    /\ call[r] = "idle" /\ S \subseteq Lapsed
    /\ row' = Swept(S)
    /\ call' = [call EXCEPT ![r] = "refused"]
    /\ UNCHANGED <<fresh, job, adrift, holders, faults>>

\* expires_at passes; it means nothing to a row that is no longer reserved.
Lapse(r) ==
    /\ row[r].state = "reserved" /\ row[r].live
    /\ row' = [row EXCEPT ![r].live = FALSE]
    /\ UNCHANGED <<call, fresh, job, adrift, holders, faults>>

\* release_by_holder: the rows of r's job, or of the call that admitted r.
Released(r, ofJob) ==
    IF Resolvable(r) /\ row[r].bound = ofJob THEN [row EXCEPT ![r].state = "released"] ELSE row

\* A release the database refuses is logged and left to TTL or reconcile.
TryRelease(r, ofJob) ==
    \/ row' = Released(r, ofJob) /\ UNCHANGED faults
    \/ UseFault /\ UNCHANGED row

----------------------------------------------------------------------------
(* The caller's own block *)

\* admitted: however the block ends, its finally gives the quota back.
BlockEnds(r) ==
    /\ r \in Blocks /\ call[r] = "admitted"
    /\ TryRelease(r, FALSE)
    /\ call' = [call EXCEPT ![r] = "over"]
    /\ UNCHANGED <<fresh, job, adrift, holders>>

----------------------------------------------------------------------------
(* Submission *)

Submit(r) ==
    /\ r \notin Blocks /\ call[r] = "admitted"
    /\ job' = [job EXCEPT ![r] = "running"]
    /\ call' = [call EXCEPT ![r] = "submitted"]
    /\ UNCHANGED <<row, fresh, adrift, holders, faults>>

\* submit() raises: the quota goes back, and if it was the answer that was
\* lost, the job runs without it.
SubmitFails(r) ==
    /\ r \notin Blocks /\ call[r] = "admitted"
    /\ \/ TryRelease(r, FALSE) /\ UNCHANGED job
       \/ UseFault /\ row' = Released(r, FALSE) /\ job' = [job EXCEPT ![r] = "running"]
    /\ call' = [call EXCEPT ![r] = "over"]
    /\ UNCHANGED <<fresh, adrift, holders>>

\* bind_and_commit reads the clock, and then waits for the lock.
ReadClock(r) ==
    /\ call[r] = "submitted"
    /\ fresh' = IF row[r].live THEN fresh \cup {r} ELSE fresh
    /\ call' = [call EXCEPT ![r] = "binding"]
    /\ UNCHANGED <<row, job, adrift, holders, faults>>

\* One statement commits the row and hands it to the job; no row matches if
\* the reservation had lapsed or was swept.
BoundToTheCall(r) ==
    IF row[r].state = "reserved" /\ r \in fresh THEN [row EXCEPT ![r].state = "committed"] ELSE row
BoundIfFresh(r) ==
    IF r \in fresh THEN [row EXCEPT ![r].state = "committed", ![r].bound = TRUE] ELSE row
Bound(r) ==
    IF row[r].state = "reserved" /\ r \in fresh
    THEN [row EXCEPT ![r].state = "committed", ![r].bound = TRUE]
    ELSE row

Bind(r) ==
    /\ call[r] = "binding"
    /\ row' = Bound(r)
    /\ call' = [call EXCEPT ![r] = "waiting"]
    /\ fresh' = fresh \ {r}
    /\ UNCHANGED <<job, adrift, holders, faults>>

\* The statement fails, or its answer is lost; the job id is returned anyway.
BindFails(r) ==
    /\ call[r] = "binding" /\ UseFault
    /\ row' \in {row, Bound(r)}
    /\ call' = [call EXCEPT ![r] = "waiting"]
    /\ fresh' = fresh \ {r}
    /\ UNCHANGED <<job, adrift, holders>>

\* The process dies: no finally, no bind, no record of the job.
Crash(r) ==
    /\ call[r] \in {"admitted", "submitted", "binding"} /\ UseFault
    /\ call' = [call EXCEPT ![r] = "dead"]
    /\ fresh' = fresh \ {r}
    /\ UNCHANGED <<row, job, adrift, holders>>

----------------------------------------------------------------------------
(* The end of a job *)

\* The scheduler ends it.
End(r) ==
    /\ job[r] \in {"running", "ending"}
    /\ job' = [job EXCEPT ![r] = "ended"]
    /\ UNCHANGED <<row, call, fresh, adrift, holders, faults>>

\* A job that was preempted, or lost its node, is queued again by the scheduler.
Requeue(r) ==
    /\ job[r] = "ended" /\ UseFault
    /\ job' = [job EXCEPT ![r] = "running"]
    /\ adrift' = adrift \cup {r}
    /\ UNCHANGED <<row, call, fresh, holders>>

\* finish_job: the end is recorded in hpc_jobs and the job's quota released.
Finish(r) ==
    /\ call[r] = "waiting" /\ job[r] = "ended"
    /\ TryRelease(r, TRUE)
    /\ call' = [call EXCEPT ![r] = "over"]
    /\ UNCHANGED <<fresh, job, adrift, holders>>

\* A wait that fails cancels the job as best it can and records TIMEOUT.
GiveUp(r) ==
    /\ call[r] = "waiting" /\ job[r] = "running"
    /\ \/ TryRelease(r, TRUE) /\ job' = [job EXCEPT ![r] = "ending"] /\ UNCHANGED adrift
       \/ /\ UseFault /\ row' = Released(r, TRUE)
          /\ UNCHANGED job /\ adrift' = adrift \cup {r}
    /\ call' = [call EXCEPT ![r] = "over"]
    /\ UNCHANGED <<fresh, holders>>

\* stop cancels a server's job and gives its quota back.
Stop(r) ==
    /\ call[r] = "waiting" /\ job[r] \in {"running", "ended"}
    /\ job' = [job EXCEPT ![r] = IF @ = "running" THEN "ending" ELSE @]
    /\ TryRelease(r, TRUE)
    /\ call' = [call EXCEPT ![r] = "over"]
    /\ UNCHANGED <<fresh, adrift, holders>>

----------------------------------------------------------------------------
(* exa admission reconcile *)

\* It sweeps the lapsed reservations and lists the committed jobs.
JobHolders == {r \in Requests : row[r].state = "committed" /\ row[r].bound}

Reconcile(S) ==
    /\ holders = {} /\ S \subseteq Lapsed
    /\ S \cup JobHolders # {}
    /\ row' = Swept(S)
    /\ holders' = JobHolders
    /\ UNCHANGED <<call, fresh, job, adrift, faults>>

\* It asks the scheduler about one: only a job known to have ended is released.
Ask(r) ==
    /\ r \in holders
    /\ row' = IF job[r] = "ended" THEN Released(r, TRUE) ELSE row
    /\ holders' = holders \ {r}
    /\ UNCHANGED <<call, fresh, job, adrift, faults>>

\* The scheduler does not answer, or does not know: the quota is kept.
AskFailsReleasing(r) ==
    /\ r \in holders /\ UseFault
    /\ row' = Released(r, TRUE)
    /\ holders' = holders \ {r}
    /\ UNCHANGED <<call, fresh, job, adrift>>
AskFails(r) ==
    /\ r \in holders /\ UseFault
    /\ holders' = holders \ {r}
    /\ UNCHANGED <<row, call, fresh, job, adrift>>

\* reconcile runs as a process of its own and may be interrupted.
ReconcileDies ==
    /\ holders # {} /\ UseFault
    /\ holders' = {}
    /\ UNCHANGED <<row, call, fresh, job, adrift>>

----------------------------------------------------------------------------
Next ==
    \/ \E r \in Requests :
         \/ \E S \in SUBSET Lapsed : Reserve(r, S) \/ Refuse(r, S)
         \/ Lapse(r) \/ BlockEnds(r)
         \/ Submit(r) \/ SubmitFails(r) \/ ReadClock(r) \/ Bind(r) \/ BindFails(r) \/ Crash(r)
         \/ End(r) \/ Requeue(r) \/ Finish(r) \/ GiveUp(r) \/ Stop(r)
         \/ Ask(r) \/ AskFails(r)
    \/ \E S \in SUBSET Lapsed : Reconcile(S)
    \/ ReconcileDies

Spec == Init /\ [][Next]_vars

\* Time passes, a call that answers is answered, and reconcile is run again
\* and again: its help asks for a schedule. No caller has to finish.
Fairness ==
    /\ \A r \in Requests : WF_vars(Lapse(r)) /\ WF_vars(Ask(r))
    /\ WF_vars(\E S \in SUBSET Lapsed : Reconcile(S))

FairSpec == Spec /\ Fairness

----------------------------------------------------------------------------
Calls == {"idle", "refused", "admitted", "submitted", "binding", "waiting", "over", "dead"}

TypeOK ==
    /\ row \in [Requests -> [state : {"none", "reserved", "committed", "released", "expired"},
                             bound : BOOLEAN, live : BOOLEAN]]
    /\ call \in [Requests -> Calls]
    /\ job \in [Requests -> {"none", "running", "ending", "ended"}]
    /\ fresh \subseteq Requests /\ adrift \subseteq Requests /\ holders \subseteq Requests
    /\ faults \in 0 .. MaxFaults

\* The project never holds more GPUs than its limit, although a bind may
\* commit a reservation that lapsed while it waited for the lock: whoever
\* reserved the freed GPUs had expired the row first (reserve).
LimitHolds == GpusOf({r \in Requests : Holds(r)}) <= Limit

\* "releasing quota under a job that may still hold the GPUs is the invisible
\* failure" (reconcile_job_reservations): a job that runs has its quota, from
\* its submission while the TTL is ahead and for good once bound, unless it
\* was requeued or its wait failed with the cancellation.
Guarded(r) == row[r].bound \/ (row[r].live /\ call[r] \in {"submitted", "binding"})
RunningIsHeld == \A r \in Requests : job[r] = "running" /\ Guarded(r) /\ r \notin adrift => Holds(r)

\* The reservation table implements the ledger of the project's GPUs: a row
\* counts until it is given back, and a job is at work on its own GPUs once it
\* is bound.
Taken    == {r \in Requests : Resolvable(r)}
Returned == {r \in Requests : row[r].state \in {"released", "expired"}}
Working  == {r \in Requests : row[r].bound /\ job[r] = "running" /\ r \notin adrift}
Ledger == INSTANCE QuotaLedger WITH taken <- Taken, returned <- Returned, working <- Working
ImplementsQuota == Ledger!Spec

\* Quota without a running job comes back, whoever died or failed to say so,
\* provided the scheduler answers in the end. One that no longer knows the job
\* (UNKNOWN, not found) never does, and the row is then held for ever: the
\* reconciler keeps what it cannot verify.
QuotaComesBack ==
    \A r \in Requests :
        Holds(r) /\ job[r] \in {"none", "ended"} ~> ~Holds(r) \/ job[r] = "running"
=============================================================================
