--------------------------- MODULE CommandPlane ---------------------------
(***************************************************************************)
(* The durable Prefect command of the control plane                        *)
(* (src/platform/services/control_plane/app.py): the command table, the    *)
(* admission queue that shares its transactions, the worker pool behind    *)
(* POST /v1/retrain, the synchronous POST /retrain callers, cancellation,  *)
(* the sweep of abandoned claims, the run reconciler, and Prefect as these *)
(* see it.                                                                 *)
(*                                                                         *)
(* One action is one database transaction or one exchange with Prefect:    *)
(* every transaction takes begin_immediate("admission"), so it is atomic,  *)
(* and anything may happen between two of them.                            *)
(***************************************************************************)
EXTENDS Naturals, FiniteSets

CONSTANTS
    Keys,          \* command keys (the primary key of control_plane_commands)
    AsyncKeys,     \* those of mode 'async' (/v1); the others are mode 'sync'
    PairOf,        \* the tenant's (model, dataset) pair a command retrains
    TenantOf,      \* the tenant of a command
    Workers,       \* command-worker threads, over all replicas
    Callers,       \* threads serving POST /retrain, each in its own replica
    MaxAttempts,   \* COMMAND_MAX_ATTEMPTS
    MaxRunning,    \* admission_max_running()
    PerTenantCap,  \* admission_per_tenant_cap()
    MaxFaults,     \* bound: crashes and timers that run out on a live holder
    MaxCalls,      \* bound: calls of POST /retrain
    Null           \* SQL NULL, "nobody", "no command"

ASSUME ConstantsAssumption ==
    /\ IsFiniteSet(Keys) /\ IsFiniteSet(Workers) /\ AsyncKeys \subseteq Keys
    /\ Workers \cap Callers = {}
    /\ MaxAttempts \in Nat \ {0}
    /\ MaxRunning \in Nat /\ PerTenantCap \in Nat
    /\ MaxFaults \in Nat /\ MaxCalls \in Nat
    /\ DOMAIN PairOf = Keys /\ DOMAIN TenantOf = Keys
    /\ Null \notin Keys \cup Workers \cup Callers \cup {"RUNNING", "COMPLETED", "MISSING"}

VARIABLES
    \* the row of control_plane_commands
    state, attempts, runState,
    \* what its updated_at says: the dispatch lease ran out, the backoff runs
    lapsed, cooling,
    \* its admission_queue row, its outbox events, its orphan note
    adm, emitted, noted,
    \* Prefect: the run of a command key, and POSTs that may still land
    prefect, inflight,
    \* the coordinator's lease on a pair (POST /retrain)
    retrainLock,
    \* the threads: control point, command, attempt, worker's batch, Prefect's reading
    pc, job, att, todo, saw,
    \* what the bounds count
    faults, calls

rowVars     == <<state, attempts, runState, lapsed, cooling, adm, emitted, noted>>
prefectVars == <<prefect, inflight>>
threadVars  == <<pc, job, att, todo, saw>>
bounds      == <<faults, calls>>
vars == <<rowVars, prefectVars, retrainLock, threadVars, bounds>>

SyncKeys == Keys \ AsyncKeys
Threads  == Workers \cup Callers
Pairs    == {PairOf[k] : k \in Keys}

States      == {"none", "pending", "dispatching", "failed",
                "succeeded", "dead", "cancelled"}
Terminal    == {"succeeded", "dead", "cancelled"}
AdmStates   == {"none", "queued", "running", "done", "failed", "deferred"}
\* COMPLETED stands for every run state Prefect ends in, RUNNING for every
\* state of _RUN_ACTIVE_SQL; MISSING is the 404.
RunTerminal == {"COMPLETED", "MISSING"}
RunStates   == {"RUNNING"} \cup RunTerminal
Topics      == {"retrain.scheduled", "retrain.run_ended", "operation.cancelled"}
ControlPoints == {"idle", "locked", "claimed", "sent", "answered", "failing",
                  "burying", "releasing", "polled"}

Init ==
    /\ state = [k \in Keys |-> "none"]
    /\ attempts = [k \in Keys |-> 0]
    /\ runState = [k \in Keys |-> Null]
    /\ lapsed = {} /\ cooling = {}
    /\ adm = [k \in Keys |-> "none"]
    /\ emitted = [k \in Keys |-> [t \in Topics |-> 0]]
    /\ noted = {}
    /\ prefect = [k \in Keys |-> "none"]
    /\ inflight = {}
    /\ retrainLock = [p \in Pairs |-> Null]
    /\ pc = [d \in Threads |-> "idle"]
    /\ job = [d \in Threads |-> Null]
    /\ att = [d \in Threads |-> 0]
    /\ todo = [w \in Workers |-> {}]
    /\ saw = [w \in Workers |-> Null]
    /\ faults = 0 /\ calls = 0

Goto(d, point) == pc' = [pc EXCEPT ![d] = point]

\* The thread leaves the command it worked on: a worker takes the next of its
\* batch, a caller goes on to release its guards.
Leave(d) ==
    IF d \in Workers
    THEN /\ Goto(d, "idle")
         /\ job' = [job EXCEPT ![d] = Null]
         /\ att' = [att EXCEPT ![d] = 0]
    ELSE Goto(d, "releasing") /\ UNCHANGED <<job, att>>

Emit(k, topic) == emitted' = [emitted EXCEPT ![k][topic] = @ + 1]

\* The thread that holds the current claim of k and has not given it up.
Holds(d, k) == /\ job[d] = k /\ att[d] = attempts[k]
               /\ pc[d] \in {"claimed", "sent", "answered", "failing", "burying"}
HasHolder(k) == \E d \in Threads : Holds(d, k)

(***************************************************************************)
(* Accepting and withdrawing a command (/v1).                              *)
(***************************************************************************)

\* A command still dispatching or training its pair.
ActiveUnlessFailed(k) ==
    \/ state[k] \in {"pending", "dispatching"}
    \/ state[k] = "succeeded" /\ runState[k] \in {Null, "RUNNING"}
Active(k) ==
    \/ state[k] \in {"pending", "dispatching"}
    \/ state[k] = "failed" /\ k \in AsyncKeys
    \/ state[k] = "succeeded" /\ runState[k] \in {Null, "RUNNING"}

\* The 409 of a refused submission changes nothing, and neither does
\* submitting an existing key again.
Submit(k) ==
    /\ k \in AsyncKeys /\ state[k] = "none"
    /\ \A j \in Keys \ {k} : PairOf[j] = PairOf[k] => ~Active(j)
    /\ state' = [state EXCEPT ![k] = "pending"]
    /\ UNCHANGED <<attempts, runState, lapsed, cooling, adm, emitted, noted,
                   prefectVars, retrainLock, threadVars, bounds>>

Cancel(k) ==
    /\ k \in AsyncKeys /\ state[k] \in {"pending", "failed"}
    /\ state' = [state EXCEPT ![k] = "cancelled"]
    /\ cooling' = cooling \ {k}
    /\ Emit(k, "operation.cancelled")
    /\ UNCHANGED <<attempts, runState, lapsed, adm, noted,
                   prefectVars, retrainLock, threadVars, bounds>>

(***************************************************************************)
(* Claiming a command, by a worker or by a caller.                         *)
(***************************************************************************)

\* Still claimed, and nobody renewed it: its dispatcher stopped, or is late.
Abandoned(k) == state[k] = "dispatching" /\ k \in lapsed

\* The queue after the slots no live claim holds are freed.
ReleasedQueuedOnly ==
    [k \in Keys |-> IF adm[k] = "queued" THEN "deferred" ELSE adm[k]]
Released ==
    [k \in Keys |->
        CASE adm[k] = "running" /\ Abandoned(k) -> "failed"
          [] adm[k] = "queued" -> "deferred"
          [] OTHER -> adm[k]]

RunningRows(rows) == {k \in Keys : rows[k] = "running"}

HasCapacityTotalOnly(k, rows) == Cardinality(RunningRows(rows)) < MaxRunning
HasCapacity(k, rows) ==
    /\ Cardinality(RunningRows(rows)) < MaxRunning
    /\ Cardinality({j \in RunningRows(rows) : TenantOf[j] = TenantOf[k]}) < PerTenantCap

Reclaimable(k) ==
    \/ state[k] \in {"none", "pending", "failed"}
    \/ Abandoned(k)

\* Thread d is about to claim k: k is next in the worker's batch, or is the
\* command of the caller's request.
Claiming(d, k) ==
    \/ d \in Workers /\ pc[d] = "idle" /\ k \in todo[d]
    \/ d \in Callers /\ pc[d] = "locked" /\ k = job[d]

Taken(d, k) == [w \in Workers |-> IF w = d THEN todo[w] \ {k} ELSE todo[w]]

\* attempts=attempts+1: a takeover of a lapsed claim is a new attempt too.
NextAttemptOfFailed(k) == IF state[k] = "dispatching" THEN attempts[k] ELSE attempts[k] + 1
NextAttempt(k) == attempts[k] + 1

ClaimWon(d, k) ==
    /\ Claiming(d, k) /\ Reclaimable(k) /\ HasCapacity(k, Released)
    /\ state' = [state EXCEPT ![k] = "dispatching"]
    /\ attempts' = [attempts EXCEPT ![k] = NextAttempt(k)]
    /\ lapsed' = lapsed \ {k}
    /\ cooling' = cooling \ {k}
    /\ adm' = [Released EXCEPT ![k] = "running"]
    /\ Goto(d, "claimed")
    /\ job' = [job EXCEPT ![d] = k]
    /\ att' = [att EXCEPT ![d] = NextAttempt(k)]
    /\ todo' = Taken(d, k)
    /\ UNCHANGED <<runState, emitted, noted, prefectVars, retrainLock, saw, bounds>>

\* Refused for capacity: the caller answers 429, the worker drops the rest of
\* its batch. The row the claim inserted stays.
ClaimRefused(d, k) ==
    /\ Claiming(d, k) /\ Reclaimable(k) /\ ~HasCapacity(k, Released)
    /\ state' = [state EXCEPT ![k] = IF @ = "none" THEN "pending" ELSE @]
    /\ adm' = [Released EXCEPT ![k] = "deferred"]
    /\ Leave(d)
    /\ todo' = [w \in Workers |-> IF w = d THEN {} ELSE todo[w]]
    /\ UNCHANGED <<attempts, runState, lapsed, cooling, emitted, noted,
                   prefectVars, retrainLock, saw, bounds>>

\* Busy, or already succeeded and replayed. A busy command without a queue
\* row is given one before the claim looks at its state.
ClaimLost(d, k) ==
    /\ Claiming(d, k) /\ ~Reclaimable(k)
    /\ adm' = [adm EXCEPT ![k] = IF @ = "none" /\ state[k] # "succeeded"
                                 THEN "queued" ELSE @]
    /\ Leave(d)
    /\ todo' = Taken(d, k)
    /\ UNCHANGED <<state, attempts, runState, lapsed, cooling, emitted, noted,
                   prefectVars, retrainLock, saw, bounds>>

Claim(d, k) == ClaimWon(d, k) \/ ClaimRefused(d, k) \/ ClaimLost(d, k)

(***************************************************************************)
(* One dispatch: a POST with the command key as Prefect's idempotency key. *)
(* The gateway's own tries inside one budget are one POST here.            *)
(***************************************************************************)

\* No deployment, an open circuit or a spent budget: nothing was sent.
DispatchRefused(d) ==
    /\ pc[d] = "claimed"
    /\ Goto(d, "failing")
    /\ UNCHANGED <<rowVars, prefectVars, retrainLock, job, att, todo, saw, bounds>>

Dispatch(d) ==
    /\ pc[d] = "claimed"
    /\ Goto(d, "sent")
    /\ inflight' = inflight \cup {job[d]}
    /\ UNCHANGED <<rowVars, prefect, retrainLock, job, att, todo, saw, bounds>>

\* The answer names the run, so there is one.
RunExists(k) == prefect[k] # "none"

Answered(d) ==
    /\ pc[d] = "sent" /\ RunExists(job[d])
    /\ Goto(d, "answered")
    /\ UNCHANGED <<rowVars, prefectVars, retrainLock, job, att, todo, saw, bounds>>

\* A timeout, a reset, a 5xx: whether the POST landed, or will, is not known.
Unanswered(d) ==
    /\ pc[d] = "sent"
    /\ Goto(d, "failing")
    /\ UNCHANGED <<rowVars, prefectVars, retrainLock, job, att, todo, saw, bounds>>

(***************************************************************************)
(* Recording what became of the dispatch.                                  *)
(***************************************************************************)

\* WHERE state='dispatching' AND attempts=?
Fenced(d) == state[job[d]] = "dispatching" /\ attempts[job[d]] = att[d]

Complete(d) ==
    /\ pc[d] = "answered" /\ Fenced(d)
    /\ state' = [state EXCEPT ![job[d]] = "succeeded"]
    /\ adm' = [adm EXCEPT ![job[d]] = "done"]
    /\ lapsed' = lapsed \ {job[d]}
    /\ Emit(job[d], "retrain.scheduled")
    /\ Leave(d)
    /\ UNCHANGED <<attempts, runState, cooling, noted,
                   prefectVars, retrainLock, todo, saw, bounds>>

\* Superseded, or the transaction failed: the exception handler is next.
CompleteFails(d) ==
    /\ pc[d] = "answered"
    /\ Goto(d, "failing")
    /\ UNCHANGED <<rowVars, prefectVars, retrainLock, job, att, todo, saw, bounds>>

\* After _fail_command: a worker that used the last attempt buries the command.
PastTheLast(d) == att[d] > MaxAttempts
LastAttempt(d) == att[d] >= MaxAttempts
AfterFail(d) ==
    IF d \in Workers /\ LastAttempt(d)
    THEN Goto(d, "burying") /\ UNCHANGED <<job, att>>
    ELSE Leave(d)

Fail(d) ==
    /\ pc[d] = "failing"
    /\ \/ /\ Fenced(d)
          /\ state' = [state EXCEPT ![job[d]] = "failed"]
          /\ adm' = [adm EXCEPT ![job[d]] = "failed"]
          /\ lapsed' = lapsed \ {job[d]}
          /\ cooling' = cooling \cup ({job[d]} \cap AsyncKeys)
       \/ /\ ~Fenced(d)
          /\ UNCHANGED <<state, adm, lapsed, cooling>>
    /\ AfterFail(d)
    /\ UNCHANGED <<attempts, runState, emitted, noted,
                   prefectVars, retrainLock, todo, saw, bounds>>

MarkDead(w) ==
    /\ pc[w] = "burying"
    /\ LET k == job[w]
           buried == state[k] = "failed" /\ attempts[k] = att[w]
       IN  /\ state' = [state EXCEPT ![k] = IF buried THEN "dead" ELSE @]
           /\ cooling' = IF buried THEN cooling \ {k} ELSE cooling
    /\ Leave(w)
    /\ UNCHANGED <<attempts, runState, lapsed, adm, emitted, noted,
                   prefectVars, retrainLock, todo, saw, bounds>>

\* At burial and again on every sweep while the window is open: Prefect is
\* asked for a run under the dead command's key.
SuspectBeforeBurial(k) == state[k] = "failed" /\ k \notin noted
Suspect(k) == state[k] = "dead" /\ k \notin noted

NoteOrphan(k) ==
    /\ Suspect(k) /\ prefect[k] # "none"
    /\ noted' = noted \cup {k}
    /\ UNCHANGED <<state, attempts, runState, lapsed, cooling, adm, emitted,
                   prefectVars, retrainLock, threadVars, bounds>>

(***************************************************************************)
(* The worker's cycle: sweep the abandoned claims, then select the due     *)
(* asynchronous commands. The batch is a snapshot; its order is left open. *)
(***************************************************************************)

SweptState(k) ==
    IF ~Abandoned(k) THEN state[k]
    ELSE IF k \in SyncKeys THEN "failed"
    ELSE IF attempts[k] >= MaxAttempts THEN "dead"
    ELSE "dispatching"

DueUnclaimed(k) ==
    /\ k \in AsyncKeys
    /\ \/ state[k] = "pending"
       \/ state[k] = "failed" /\ k \notin cooling
Due(k) ==
    /\ k \in AsyncKeys
    /\ \/ state[k] = "pending"
       \/ state[k] = "failed" /\ k \notin cooling
       \/ Abandoned(k)

StartCycle(w) ==
    /\ pc[w] = "idle" /\ todo[w] = {}
    /\ state' = [k \in Keys |-> SweptState(k)]
    /\ adm' = Released
    /\ lapsed' = {k \in lapsed : SweptState(k) = "dispatching"}
    /\ todo' = [todo EXCEPT ![w] = {k \in Keys : Due(k) /\ SweptState(k) # "dead"}]
    /\ UNCHANGED <<attempts, runState, cooling, emitted, noted, prefectVars,
                   retrainLock, pc, job, att, saw, bounds>>

(***************************************************************************)
(* A call of POST /retrain around its claim and dispatch.                  *)
(***************************************************************************)

\* A lock already held is a 409 and no step. k is a fresh key, or the key of
\* an earlier call that is tried again.
StartCall(c, k) ==
    /\ k \in SyncKeys /\ pc[c] = "idle" /\ calls < MaxCalls
    /\ retrainLock[PairOf[k]] = Null
    /\ retrainLock' = [retrainLock EXCEPT ![PairOf[k]] = c]
    /\ Goto(c, "locked")
    /\ job' = [job EXCEPT ![c] = k]
    /\ calls' = calls + 1
    /\ UNCHANGED <<rowVars, prefectVars, att, todo, saw, faults>>

\* unlock compares the holder: a lease that ran out frees nothing.
Release(c) ==
    /\ pc[c] = "releasing"
    /\ LET p == PairOf[job[c]]
       IN  retrainLock' = [retrainLock EXCEPT ![p] = IF @ = c THEN Null ELSE @]
    /\ Goto(c, "idle")
    /\ job' = [job EXCEPT ![c] = Null]
    /\ att' = [att EXCEPT ![c] = 0]
    /\ UNCHANGED <<rowVars, prefectVars, todo, saw, bounds>>

(***************************************************************************)
(* The reconciler: read a dispatched run, then record what was read. A     *)
(* reading equal to the recorded state, or that failed, changes nothing.   *)
(***************************************************************************)
NeverPolled(k) == state[k] = "succeeded" /\ runState[k] = Null
Unsettled(k) == state[k] = "succeeded" /\ runState[k] \notin RunTerminal

Poll(w, k) ==
    /\ pc[w] = "idle" /\ todo[w] = {}
    /\ Unsettled(k) /\ prefect[k] # runState[k]
    /\ saw' = [saw EXCEPT ![w] = prefect[k]]
    /\ Goto(w, "polled")
    /\ job' = [job EXCEPT ![w] = k]
    /\ UNCHANGED <<rowVars, prefectVars, retrainLock, att, todo, bounds>>

\* The UPDATE's guard: a settled run is not recorded again.
AlwaysRecorded(k) == TRUE
StillOpen(k) == runState[k] \notin RunTerminal

Record(w) ==
    /\ pc[w] = "polled"
    /\ LET k == job[w]
           changed == StillOpen(k)
       IN  /\ runState' = [runState EXCEPT ![k] = IF changed THEN saw[w] ELSE @]
           /\ IF changed /\ saw[w] \in RunTerminal
              THEN Emit(k, "retrain.run_ended")
              ELSE UNCHANGED emitted
    /\ saw' = [saw EXCEPT ![w] = Null]
    /\ Leave(w)
    /\ UNCHANGED <<state, attempts, lapsed, cooling, adm, noted,
                   prefectVars, retrainLock, todo, bounds>>

(***************************************************************************)
(* The environment: Prefect, time and crashes. A timer that runs out while *)
(* the thread it supervises is alive, and a crash, use up a fault.         *)
(***************************************************************************)

\* A key Prefect knows returns the run it has: a second POST adds nothing.
Land(k) ==
    /\ k \in inflight
    /\ inflight' = inflight \ {k}
    /\ prefect' = [prefect EXCEPT ![k] = IF @ = "none" THEN "RUNNING" ELSE @]
    /\ UNCHANGED <<rowVars, retrainLock, threadVars, bounds>>

Drop(k) ==
    /\ k \in inflight
    /\ inflight' = inflight \ {k}
    /\ UNCHANGED <<rowVars, prefect, retrainLock, threadVars, bounds>>

RunEnds(k) ==
    /\ prefect[k] = "RUNNING"
    /\ prefect' = [prefect EXCEPT ![k] = "COMPLETED"]
    /\ UNCHANGED <<rowVars, inflight, retrainLock, threadVars, bounds>>

\* Retention deletes an ended run: from now on its reading is a 404.
RunForgotten(k) ==
    /\ prefect[k] = "COMPLETED" /\ state[k] = "succeeded"
    /\ prefect' = [prefect EXCEPT ![k] = "MISSING"]
    /\ UNCHANGED <<rowVars, inflight, retrainLock, threadVars, bounds>>

UseFault(used) == /\ used => faults < MaxFaults
                  /\ faults' = IF used THEN faults + 1 ELSE faults

\* updated_at + COMMAND_LEASE_SECONDS is past
LeaseLapses(k) ==
    /\ state[k] = "dispatching" /\ k \notin lapsed
    /\ UseFault(HasHolder(k))
    /\ lapsed' = lapsed \cup {k}
    /\ UNCHANGED <<state, attempts, runState, cooling, adm, emitted, noted,
                   prefectVars, retrainLock, threadVars, calls>>

\* _backoff_elapsed
BackoffElapses(k) ==
    /\ k \in cooling
    /\ UseFault(HasHolder(k))
    /\ cooling' = cooling \ {k}
    /\ UNCHANGED <<state, attempts, runState, lapsed, adm, emitted, noted,
                   prefectVars, retrainLock, threadVars, calls>>

\* RETRAIN_LOCK_SECONDS is past
LockLapses(p) ==
    /\ retrainLock[p] # Null
    /\ UseFault(LET c == retrainLock[p]
                IN job[c] # Null /\ PairOf[job[c]] = p)
    /\ retrainLock' = [retrainLock EXCEPT ![p] = Null]
    /\ UNCHANGED <<rowVars, prefectVars, threadVars, calls>>

\* The thread dies between two steps and starts again with nothing.
Crash(d) ==
    /\ pc[d] # "idle" \/ (d \in Workers /\ todo[d] # {})
    /\ UseFault(TRUE)
    /\ Goto(d, "idle")
    /\ job' = [job EXCEPT ![d] = Null]
    /\ att' = [att EXCEPT ![d] = 0]
    /\ todo' = [w \in Workers |-> IF w = d THEN {} ELSE todo[w]]
    /\ saw' = [w \in Workers |-> IF w = d THEN Null ELSE saw[w]]
    /\ UNCHANGED <<rowVars, prefectVars, retrainLock, calls>>

\* The claim's, or the failure's, transaction fails under a caller, which goes
\* to its finally clause. A worker's does as a crash: its batch is abandoned.
CallAborts(c) ==
    /\ pc[c] \in {"locked", "failing"}
    /\ UseFault(TRUE)
    /\ Goto(c, "releasing")
    /\ UNCHANGED <<rowVars, prefectVars, retrainLock, job, att, todo, saw, calls>>

ThreadStep(d) ==
    \/ \E k \in Keys : Claim(d, k)
    \/ DispatchRefused(d) \/ Dispatch(d) \/ Answered(d) \/ Unanswered(d)
    \/ Complete(d) \/ CompleteFails(d) \/ Fail(d)

WorkerStep(w) ==
    \/ StartCycle(w) \/ MarkDead(w) \/ Record(w)
    \/ \E k \in Keys : Poll(w, k)

CallerStep(c) == Release(c) \/ CallAborts(c) \/ \E k \in Keys : StartCall(c, k)

Environment ==
    \/ \E k \in Keys : \/ Submit(k) \/ Cancel(k) \/ NoteOrphan(k)
                       \/ Land(k) \/ Drop(k) \/ RunEnds(k) \/ RunForgotten(k)
                       \/ LeaseLapses(k) \/ BackoffElapses(k)
    \/ \E p \in Pairs : LockLapses(p)
    \/ \E d \in Threads : Crash(d)

Next ==
    \/ \E d \in Threads : ThreadStep(d)
    \/ \E w \in Workers : WorkerStep(w)
    \/ \E c \in Callers : CallerStep(c)
    \/ Environment

Spec == Init /\ [][Next]_vars

(***************************************************************************)
(* Fairness: a thread that can step does (the daemon loop never exits and  *)
(* every exchange has a timeout), clocks advance, POSTs land or are lost,  *)
(* runs end, and the orphan sweep asks again while its window is open.     *)
(* Nothing obliges a client to submit, cancel or call again, or a thread   *)
(* to crash.                                                               *)
(***************************************************************************)
Fairness ==
    /\ \A d \in Threads :
        /\ WF_vars(\E k \in Keys : Claim(d, k))
        /\ WF_vars(DispatchRefused(d) \/ Dispatch(d))
        /\ WF_vars(Answered(d) \/ Unanswered(d))
        /\ WF_vars(Complete(d) \/ CompleteFails(d))
        /\ WF_vars(Fail(d))
    /\ \A w \in Workers :
        /\ WF_vars(StartCycle(w)) /\ WF_vars(MarkDead(w)) /\ WF_vars(Record(w))
        /\ WF_vars(\E k \in Keys : Poll(w, k))
    /\ \A c \in Callers : WF_vars(Release(c))
    /\ \A k \in Keys :
        /\ WF_vars(NoteOrphan(k)) /\ WF_vars(Land(k) \/ Drop(k)) /\ WF_vars(RunEnds(k))
        /\ WF_vars(LeaseLapses(k)) /\ WF_vars(BackoffElapses(k))
    /\ \A p \in Pairs : WF_vars(LockLapses(p))

FairSpec == Spec /\ Fairness

(***************************************************************************)
(* Properties.                                                             *)
(***************************************************************************)

\* Every variable keeps its type.
TypeOK ==
    /\ state \in [Keys -> States]
    /\ attempts \in [Keys -> Nat]
    /\ runState \in [Keys -> RunStates \cup {Null}]
    /\ lapsed \subseteq Keys /\ cooling \subseteq AsyncKeys
    /\ adm \in [Keys -> AdmStates]
    /\ emitted \in [Keys -> [Topics -> Nat]]
    /\ noted \subseteq Keys
    /\ prefect \in [Keys -> RunStates \cup {"none"}]
    /\ inflight \subseteq Keys
    /\ retrainLock \in [Pairs -> Callers \cup {Null}]
    /\ pc \in [Threads -> ControlPoints]
    /\ job \in [Threads -> Keys \cup {Null}]
    /\ att \in [Threads -> Nat]
    /\ todo \in [Workers -> SUBSET AsyncKeys]
    /\ saw \in [Workers -> RunStates \cup {Null}]
    /\ faults \in 0 .. MaxFaults /\ calls \in 0 .. MaxCalls

Dispatching(d) == pc[d] \in {"claimed", "sent", "answered", "failing"}

\* A claim (a command and its attempt number) is held by one thread at most,
\* however often leases lapse under live dispatchers: the fence of
\* _complete_command and _fail_command tells any two dispatchers apart.
FencedClaims ==
    /\ \A d, e \in Threads :
         Dispatching(d) /\ Dispatching(e) /\ job[d] = job[e] /\ att[d] = att[e]
            => d = e
    /\ \A d \in Threads : Dispatching(d) => att[d] <= attempts[job[d]]

\* An admission slot is held exactly by a live claim: a running row belongs to
\* a dispatching command, and a dispatching command whose lease runs has one.
\* Neither a crash, a cancel nor a refused claim leaks a slot, and the caps
\* bound the claims that run.
SlotsFollowClaims ==
    /\ \A k \in Keys : adm[k] = "running" => state[k] = "dispatching"
    /\ \A k \in Keys : state[k] = "dispatching" /\ k \notin lapsed => adm[k] = "running"

\* The admission caps of the platform and of each tenant hold at every moment.
CapsHold ==
    /\ Cardinality(RunningRows(adm)) <= MaxRunning
    /\ \A k \in Keys :
         Cardinality({j \in RunningRows(adm) : TenantOf[j] = TenantOf[k]}) <= PerTenantCap

\* Two asynchronous commands of one pair are never in progress together,
\* whichever replicas accepted, retried, buried or settled them.
ExclusivePair ==
    \A j, k \in AsyncKeys :
        j # k /\ PairOf[j] = PairOf[k] => ~(Active(j) /\ Active(k))

\* The outbox tells each command's story exactly once: one scheduled event of
\* a succeeded command, one run event of a settled run, one cancelled event of
\* a cancelled command, and no other, whoever retried, crashed or lost a lease.
EventsMatchRows ==
    \A k \in Keys :
        /\ emitted[k]["retrain.scheduled"] = IF state[k] = "succeeded" THEN 1 ELSE 0
        /\ emitted[k]["operation.cancelled"] = IF state[k] = "cancelled" THEN 1 ELSE 0
        /\ emitted[k]["retrain.run_ended"] = IF runState[k] \in RunTerminal THEN 1 ELSE 0

\* A command is recorded as succeeded, and its run as followed, only if
\* Prefect has that run.
SuccessHasRun ==
    \A k \in Keys :
        /\ state[k] = "succeeded" => prefect[k] # "none"
        /\ runState[k] # Null => state[k] = "succeeded"

\* A command is buried only after all its attempts were claimed, and its
\* attempts end: the claim itself looks at no limit, and failure and burial are
\* two transactions, so that other workers may claim past the limit what they
\* selected before the burial, each once; and again when a fault (a crash in
\* between, a lease or a backoff that runs out under a live worker) puts the
\* burial off.
AttemptsEnd ==
    /\ \A k \in Keys : state[k] = "dead" => attempts[k] >= MaxAttempts
    /\ \A k \in AsyncKeys :
         attempts[k] <= MaxAttempts + Cardinality(Workers) * (faults + 1) - 1

\* No late worker, caller, sweep or reconciler takes a command out of a
\* terminal state, or a run out of a terminal run state.
TerminalIsFinal ==
    [][\A k \in Keys :
        /\ state[k] \in Terminal => state'[k] = state[k]
        /\ runState[k] \in RunTerminal => runState'[k] = runState[k]]_vars

\* The command table, with Prefect, implements the ledger of decided commands.
Decided == [k \in Keys |-> IF state[k] \in {"pending", "dispatching", "failed"}
                           THEN "open" ELSE state[k]]
Started == {k \in Keys : prefect[k] # "none"}
Ledger  == INSTANCE CommandLedger WITH
              status <- Decided, runs <- Started, outcome <- runState, told <- emitted
ImplementsLedger == Ledger!Spec

\* Every accepted command ends: succeeded, dead or cancelled.
AcceptedSettles ==
    \A k \in AsyncKeys : state[k] = "pending" ~> state[k] \in Terminal

\* The run of an asynchronous command does not stay unknown to the platform:
\* it is recorded, or its dead command is annotated, or the command was
\* withdrawn by its submitter.
RunIsAccounted ==
    \A k \in AsyncKeys :
        prefect[k] # "none" ~> state[k] \in {"succeeded", "cancelled"} \/ k \in noted

\* A dispatched run is followed to a terminal run state.
RunSettles ==
    \A k \in Keys : state[k] = "succeeded" ~> runState[k] \in RunTerminal

\* No slot is held for ever: a claim, its dispatcher alive or not, is given up.
SlotIsFreed ==
    \A k \in Keys : adm[k] = "running" ~> adm[k] # "running"
=============================================================================
