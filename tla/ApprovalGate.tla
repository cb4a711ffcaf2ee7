--------------------------- MODULE ApprovalGate ---------------------------
(***************************************************************************)
(* The approval gate of the control plane                                  *)
(* (src/platform/services/control_plane/app.py): the approvals of one      *)
(* model, opened by CI, decided by operators over HTTP (approve, reject,   *)
(* retract) or by age, and the durable command 'approval:<id>' that an     *)
(* approval dispatches.                                                    *)
(*                                                                         *)
(* Opening, rejecting and retracting take the lock "approvals"; claiming,  *)
(* completing and failing the command take the lock "admission"; expiry    *)
(* takes none. On Postgres these are different locks, so a transaction of  *)
(* one kind may commit between the SELECT and the UPDATE of another, and   *)
(* the read and the write of a rejection or a retraction are two actions.  *)
(* The command's claim is CommandPlane's, without its queue row: whether   *)
(* the caps admit it is open.                                              *)
(***************************************************************************)
EXTENDS Naturals, FiniteSets

CONSTANTS
    Approvals,  \* ids in the order of requested_at
    Threads,    \* HTTP requests that decide, over all replicas
    MaxClaims,  \* bound: claims of one approval's command
    MaxFaults,  \* bound: crashes, failed writes, leases lapsing under a holder
    Null        \* no approval, no thread

ASSUME ApprovalAssumption ==
    /\ Approvals \subseteq Nat
    /\ MaxClaims \in Nat /\ MaxFaults \in Nat
    /\ Null \notin Approvals \cup Threads

VARIABLES
    \* pending_approvals.status
    status,
    \* the command of each approval: state, attempts, claims past their lease
    command, attempts, lapsed,
    \* decisions told through the outbox (and the audit chain, same rows)
    told,
    \* Prefect: keys with a run, POSTs that may still land
    runs, inflight,
    \* the lock "approvals"
    lock,
    \* the requests: control point, approval, attempt of the claim
    pc, job, att,
    \* what the bound counts
    faults

commandVars == <<command, attempts, lapsed>>
prefectVars == <<runs, inflight>>
vars == <<status, commandVars, told, prefectVars, lock, pc, job, att, faults>>

Refused  == {"rejected", "retracted", "expired"}
Decided  == {"approved"} \cup Refused
Statuses == {"none", "pending", "approving"} \cup Decided
Commands == {"none", "pending", "dispatching", "failed", "succeeded"}
Topics   == {"approved", "rejected", "retracted"}

Init ==
    /\ status = [a \in Approvals |-> "none"]
    /\ command = [a \in Approvals |-> "none"]
    /\ attempts = [a \in Approvals |-> 0]
    /\ lapsed = {}
    /\ told = [a \in Approvals |-> [t \in Topics |-> 0]]
    /\ runs = {} /\ inflight = {}
    /\ lock = Null
    /\ pc = [t \in Threads |-> "idle"]
    /\ job = [t \in Threads |-> Null]
    /\ att = [t \in Threads |-> 0]
    /\ faults = 0

Goto(t, point) == pc' = [pc EXCEPT ![t] = point]
UseFault(used) == /\ used => faults < MaxFaults
                  /\ faults' = IF used THEN faults + 1 ELSE faults

\* The request is answered.
Answer(t) ==
    /\ Goto(t, "idle")
    /\ job' = [job EXCEPT ![t] = Null]
    /\ att' = [att EXCEPT ![t] = 0]

Tell(a, topic) == told' = [told EXCEPT ![a][topic] = @ + 1]

\* ORDER BY requested_at DESC LIMIT 1
Newest(a, S) == a \in S /\ \A b \in S : b <= a

WithStatus(S) == {a \in Approvals : status[a] \in S}

(***************************************************************************)
(* CI opens an approval unless one is pending; approvals expire by age.    *)
(***************************************************************************)
NotifyChange(a) ==
    /\ lock = Null
    /\ status[a] = "none" /\ \A b \in Approvals : b < a => status[b] # "none"
    /\ WithStatus({"pending"}) = {}
    /\ status' = [status EXCEPT ![a] = "pending"]
    /\ UNCHANGED <<commandVars, told, prefectVars, lock, pc, job, att, faults>>

\* Every pending approval older than the cutoff, a being the youngest of them.
Expires(b, a) == status[b] = "pending" /\ b <= a

Expire(a) ==
    /\ Expires(a, a)
    /\ status' = [b \in Approvals |-> IF Expires(b, a) THEN "expired" ELSE status[b]]
    /\ UNCHANGED <<commandVars, told, prefectVars, lock, pc, job, att, faults>>

(***************************************************************************)
(* POST /approve: select, claim the command, dispatch, complete or fail.   *)
(***************************************************************************)
ApproveRead(t, a) ==
    /\ pc[t] = "idle"
    /\ Newest(a, WithStatus({"pending", "approving"}))
    /\ Goto(t, "approving")
    /\ job' = [job EXCEPT ![t] = a]
    /\ UNCHANGED <<status, commandVars, told, prefectVars, lock, att, faults>>

Reclaimable(a) ==
    \/ command[a] \in {"none", "pending", "failed"}
    \/ command[a] = "dispatching" /\ a \in lapsed

\* WHERE ... status IN ('pending', 'approving')
OpenAlways(a) == TRUE
Open(a) == status[a] \in {"pending", "approving"}

ClaimWon(t) ==
    LET a == job[t] IN
    /\ pc[t] = "approving" /\ Reclaimable(a) /\ Open(a)
    /\ attempts[a] < MaxClaims
    /\ status' = [status EXCEPT ![a] = "approving"]
    /\ command' = [command EXCEPT ![a] = "dispatching"]
    /\ attempts' = [attempts EXCEPT ![a] = @ + 1]
    /\ lapsed' = lapsed \ {a}
    /\ att' = [att EXCEPT ![t] = attempts[a] + 1]
    /\ Goto(t, "claimed")
    /\ UNCHANGED <<told, prefectVars, lock, job, faults>>

\* Busy or replayed; or decided meanwhile, and the claim rolls back.
ClaimLost(t) ==
    /\ pc[t] = "approving"
    /\ ~Reclaimable(job[t]) \/ ~Open(job[t])
    /\ Answer(t)
    /\ UNCHANGED <<status, commandVars, told, prefectVars, lock, faults>>

\* No capacity: the row the claim inserted stays, the approval is not looked at.
ClaimRefused(t) ==
    LET a == job[t] IN
    /\ pc[t] = "approving" /\ Reclaimable(a)
    /\ command' = [command EXCEPT ![a] = IF @ = "none" THEN "pending" ELSE @]
    /\ Answer(t)
    /\ UNCHANGED <<status, attempts, lapsed, told, prefectVars, lock, faults>>

\* Nothing was sent.
DispatchRefused(t) ==
    /\ pc[t] = "claimed"
    /\ Goto(t, "failing")
    /\ UNCHANGED <<status, commandVars, told, prefectVars, lock, job, att, faults>>

Dispatch(t) ==
    /\ pc[t] = "claimed"
    /\ inflight' = inflight \cup {job[t]}
    /\ Goto(t, "sent")
    /\ UNCHANGED <<status, commandVars, told, runs, lock, job, att, faults>>

\* The answer names the run, so there is one.
RunOnItsWay(a) == a \in runs \cup inflight
RunExists(a)   == a \in runs

Answered(t) ==
    /\ pc[t] = "sent" /\ RunExists(job[t])
    /\ Goto(t, "answered")
    /\ UNCHANGED <<status, commandVars, told, prefectVars, lock, job, att, faults>>

\* A timeout or an error: the POST may have landed, or may land later.
Unanswered(t) ==
    /\ pc[t] = "sent"
    /\ Goto(t, "failing")
    /\ UNCHANGED <<status, commandVars, told, prefectVars, lock, job, att, faults>>

\* WHERE state='dispatching' AND attempts=?
FencedNever(t) == TRUE
Fenced(t) == command[job[t]] = "dispatching" /\ attempts[job[t]] = att[t]

\* The approval's own UPDATE has no condition on its status.
Complete(t) ==
    LET a == job[t] IN
    /\ pc[t] = "answered" /\ Fenced(t)
    /\ command' = [command EXCEPT ![a] = "succeeded"]
    /\ status' = [status EXCEPT ![a] = "approved"]
    /\ lapsed' = lapsed \ {a}
    /\ Tell(a, "approved")
    /\ Answer(t)
    /\ UNCHANGED <<attempts, prefectVars, lock, faults>>

\* Superseded, or the transaction failed: the exception handler is next.
CompleteFails(t) ==
    /\ pc[t] = "answered"
    /\ UseFault(Fenced(t))
    /\ Goto(t, "failing")
    /\ UNCHANGED <<status, commandVars, told, prefectVars, lock, job, att>>

Fail(t) ==
    LET a == job[t] IN
    /\ pc[t] = "failing"
    /\ \/ /\ Fenced(t)
          /\ command' = [command EXCEPT ![a] = "failed"]
          /\ lapsed' = lapsed \ {a}
          /\ status' = [status EXCEPT ![a] = IF @ = "approving" THEN "pending" ELSE @]
       \/ /\ ~Fenced(t)
          /\ UNCHANGED <<command, lapsed, status>>
    /\ Answer(t)
    /\ UNCHANGED <<attempts, told, prefectVars, lock, faults>>

(***************************************************************************)
(* POST /reject and DELETE /approvals/{id}: one transaction each, whose    *)
(* SELECT and UPDATE see what other transactions committed.                *)
(***************************************************************************)
RejectRead(t, a) ==
    /\ pc[t] = "idle" /\ lock = Null
    /\ Newest(a, WithStatus({"pending"}))
    /\ lock' = t
    /\ Goto(t, "rejecting")
    /\ job' = [job EXCEPT ![t] = a]
    /\ UNCHANGED <<status, commandVars, told, prefectVars, att, faults>>

\* WHERE ... status='pending', and the number of rows is looked at.
StillPendingAlways(a) == TRUE
StillPending(a) == status[a] = "pending"

RejectWrite(t) ==
    LET a == job[t] IN
    /\ pc[t] = "rejecting"
    /\ \/ /\ StillPending(a)
          /\ status' = [status EXCEPT ![a] = "rejected"]
          /\ Tell(a, "rejected")
       \/ /\ ~StillPending(a)
          /\ UNCHANGED <<status, told>>
    /\ lock' = Null
    /\ Answer(t)
    /\ UNCHANGED <<commandVars, prefectVars, faults>>

RetractRead(t, a) ==
    /\ pc[t] = "idle" /\ lock = Null
    /\ status[a] = "pending"
    /\ lock' = t
    /\ Goto(t, "retracting")
    /\ job' = [job EXCEPT ![t] = a]
    /\ UNCHANGED <<status, commandVars, told, prefectVars, att, faults>>

\* The number of rows is not looked at: the retraction is told either way.
RetractWrite(t) ==
    LET a == job[t] IN
    /\ pc[t] = "retracting"
    /\ status' = [status EXCEPT ![a] = IF @ = "pending" THEN "retracted" ELSE @]
    /\ Tell(a, "retracted")
    /\ lock' = Null
    /\ Answer(t)
    /\ UNCHANGED <<commandVars, prefectVars, faults>>

(***************************************************************************)
(* Time, crashes, the sweep of a command worker, and Prefect.              *)
(***************************************************************************)

\* A synchronous command whose dispatcher stopped is failed; its approval
\* stays 'approving'.
Sweep(a) ==
    /\ command[a] = "dispatching" /\ a \in lapsed
    /\ command' = [command EXCEPT ![a] = "failed"]
    /\ lapsed' = lapsed \ {a}
    /\ UNCHANGED <<status, attempts, told, prefectVars, lock, pc, job, att, faults>>

Dispatching(t) == pc[t] \in {"claimed", "sent", "answered", "failing"}
Held(a) == \E t \in Threads : Dispatching(t) /\ job[t] = a /\ att[t] = attempts[a]

LeaseLapses(a) ==
    /\ command[a] = "dispatching" /\ a \notin lapsed
    /\ UseFault(Held(a))
    /\ lapsed' = lapsed \cup {a}
    /\ UNCHANGED <<status, command, attempts, told, prefectVars, lock, pc, job, att>>

\* The process dies, or a transaction of the request raises: what it had not
\* committed is gone, and with it the lock.
AfterRollback(t) == IF lock = t THEN Null ELSE lock

Crash(t) ==
    /\ pc[t] # "idle"
    /\ UseFault(TRUE)
    /\ lock' = AfterRollback(t)
    /\ Answer(t)
    /\ UNCHANGED <<status, commandVars, told, prefectVars>>

\* A key Prefect knows returns the run it has.
Land(a) ==
    /\ a \in inflight
    /\ inflight' = inflight \ {a}
    /\ runs' = runs \cup {a}
    /\ UNCHANGED <<status, commandVars, told, lock, pc, job, att, faults>>

Drop(a) ==
    /\ a \in inflight
    /\ inflight' = inflight \ {a}
    /\ UNCHANGED <<status, commandVars, told, runs, lock, pc, job, att, faults>>

Approve(t) ==
    \/ \E a \in Approvals : ApproveRead(t, a)
    \/ ClaimWon(t) \/ ClaimLost(t) \/ ClaimRefused(t)
    \/ DispatchRefused(t) \/ Dispatch(t) \/ Answered(t) \/ Unanswered(t)
    \/ Complete(t) \/ CompleteFails(t) \/ Fail(t)

Refuse(t) ==
    \/ \E a \in Approvals : RejectRead(t, a) \/ RetractRead(t, a)
    \/ RejectWrite(t) \/ RetractWrite(t)

Next ==
    \/ \E t \in Threads : Approve(t) \/ Refuse(t) \/ Crash(t)
    \/ \E a \in Approvals : \/ NotifyChange(a) \/ Expire(a) \/ Sweep(a)
                            \/ LeaseLapses(a) \/ Land(a) \/ Drop(a)

Spec == Init /\ [][Next]_vars

(***************************************************************************)
(* Properties.                                                             *)
(***************************************************************************)

\* Every variable keeps its type; a request past "idle" has its approval, and
\* the lock is held by the request that rejects or retracts.
TypeOK ==
    /\ status \in [Approvals -> Statuses]
    /\ command \in [Approvals -> Commands]
    /\ attempts \in [Approvals -> Nat]
    /\ lapsed \subseteq Approvals
    /\ told \in [Approvals -> [Topics -> Nat]]
    /\ runs \subseteq Approvals /\ inflight \subseteq Approvals
    /\ lock \in Threads \cup {Null}
    /\ pc \in [Threads -> {"idle", "approving", "claimed", "sent", "answered",
                           "failing", "rejecting", "retracting"}]
    /\ job \in [Threads -> Approvals \cup {Null}]
    /\ att \in [Threads -> Nat]
    /\ faults \in 0 .. MaxFaults
    /\ \A t \in Threads : pc[t] # "idle" => job[t] \in Approvals
    /\ \A t \in Threads : pc[t] \in {"rejecting", "retracting"} <=> lock = t

\* The approval and its command, written by different transactions, never
\* disagree: a training run is dispatched for an approval nobody can refuse at
\* that moment, it is approved exactly when its command succeeded, and a
\* refused or expired approval has no dispatch under way.
StatusFollowsCommand ==
    \A a \in Approvals :
        /\ command[a] = "dispatching" => status[a] = "approving"
        /\ status[a] = "approving" => command[a] \in {"dispatching", "failed"}
        /\ status[a] = "approved" <=> command[a] = "succeeded"

\* An approval is decided once: no late dispatcher, no second operator and no
\* expiry changes a decision, though the completing UPDATE does not look.
DecisionIsFinal ==
    [][\A a \in Approvals : status[a] \in Decided => status'[a] = status[a]]_vars

\* An approval or a rejection goes out once, and only if it is what happened.
DecisionIsTold ==
    \A a \in Approvals :
        /\ told[a]["approved"] = IF status[a] = "approved" THEN 1 ELSE 0
        /\ told[a]["rejected"] = IF status[a] = "rejected" THEN 1 ELSE 0

\* An approval is recorded with the run it started.
ApprovalHasRun == \A a \in Approvals : status[a] = "approved" => a \in runs

\* The command of an approval, with Prefect, is a synchronous command of the
\* ledger; the topic that announces its success is the caller's to choose, and
\* here it is the approval's.
Settlement == [a \in Approvals |->
                 IF command[a] \in {"none", "succeeded"} THEN command[a] ELSE "open"]
Announced  == [a \in Approvals |->
                 [topic \in {"retrain.scheduled", "retrain.run_ended", "operation.cancelled"} |->
                    IF topic = "retrain.scheduled" THEN told[a]["approved"] ELSE 0]]
Ledger == INSTANCE CommandLedger WITH
             Keys <- Approvals, AsyncKeys <- {}, PairOf <- [a \in Approvals |-> Null],
             status <- Settlement, told <- Announced,
             outcome <- [a \in Approvals |-> Null]
ImplementsLedger == Ledger!Spec
=============================================================================
