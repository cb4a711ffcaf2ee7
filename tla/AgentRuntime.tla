--------------------------- MODULE AgentRuntime ---------------------------
(***************************************************************************)
(* The agent runtime (examlops/agent_runtime): workers that step the runs  *)
(* of one agent thread. A run is a program of one node that calls one tool *)
(* through the gateway; every step writes a checkpoint, a tool's answer is *)
(* journaled under a key derived from the checkpoint, a call that needs a  *)
(* human parks the run, and a lease keeps two workers apart.               *)
(*                                                                         *)
(* The tool takes an idempotency key, so a gateway call is a call of       *)
(* Idempotency by the worker. One action is one transaction of the state   *)
(* store, or several that write rows no other actor writes in between.     *)
(* Session lifecycle (sweep, close, quotas), retirements, snapshots and    *)
(* sandboxes are left out.                                                 *)
(***************************************************************************)
EXTENDS Idempotency, FiniteSetsExt

CONSTANTS
    Workers,     \* lease holders: worker_id#thread
    Runs,        \* run numbers, in the order of rt_runs.seq
    Gated,       \* runs whose tool call needs a human's approval
    Strategies,  \* multitask strategies an agent may declare
    MaxCp,       \* bound: checkpoint ids
    MaxFaults    \* bound: crashes, stalls, lapsed keys, failures of the tool and
                 \* of the key store, and cancellations, together

ASSUME RuntimeAssumption ==
    /\ MaxCp \in Nat \ {0} /\ MaxFaults \in Nat
    /\ IsFiniteSet(Runs) /\ Runs \subseteq Nat \ {0} /\ Gated \subseteq Runs
    /\ Callers = Workers /\ Requests = Runs /\ Keys = 1 .. MaxCp
    /\ None \notin Workers

VARIABLES
    strategy,          \* policy.multitask_strategy of the agent
    run,               \* rt_runs: status, stop_requested, base_checkpoint_id
    cps,               \* rt_checkpoints: whose run and whether the program has ended
    interrupt,         \* rt_interrupts by key
    journal,           \* rt_tool_results by key: the answer and the run that stored it
    lease,             \* rt_leases: holder, and whether expires_at is ahead
    todo,              \* runs whose execute is queued on the background pool
    cancelling,        \* a cancel that has read the run: what it is about to write
    pc, cur, base, cp, \* a worker: control point, run, the base it read, its checkpoint
    overrun,           \* workers whose lease lapsed under them since they took it
    performed,         \* <<run, key>> of every effect of a tool
    faults

runVars    == <<strategy, run, cps, interrupt, journal, lease>>
workerVars == <<pc, cur, base, cp, overrun>>
vars == <<keyVars, runVars, todo, cancelling, workerVars, performed, faults>>

Active == {"pending", "running", "interrupted"}
Settled == {"success", "error", "superseded", "rolled_back", "cancelled"}
NoInterrupt == [state |-> "none", run |-> None, approve |-> FALSE]
NoBase == -1
NoLease == [holder |-> None, live |-> FALSE]

Init ==
    /\ KeyInit
    /\ strategy \in Strategies
    /\ run = [r \in Runs |-> [status |-> "none", stop |-> None, base |-> NoBase]]
    /\ cps = [k \in Keys |-> [run |-> None, end |-> FALSE]]
    /\ interrupt = [k \in Keys |-> NoInterrupt]
    /\ journal = [k \in Keys |-> None]
    /\ lease = NoLease
    /\ todo = {} /\ cancelling = [r \in Runs |-> None]
    /\ pc = [w \in Workers |-> "idle"] /\ cur = [w \in Workers |-> None]
    /\ base = [w \in Workers |-> NoBase] /\ cp = [w \in Workers |-> 0]
    /\ overrun = {} /\ performed = {} /\ faults = 0

Goto(w, point) == pc' = [pc EXCEPT ![w] = point]
UseFault == faults < MaxFaults /\ faults' = faults + 1
Latest == Max({0} \cup {k \in Keys : cps[k].run # None})
\* discard_after: the run's checkpoints newer than its base.
Discarded(r, b) == [k \in Keys |-> IF cps[k].run = r /\ k > b THEN [run |-> None, end |-> FALSE] ELSE cps[k]]
Below(b) == IF b = NoBase THEN 0 ELSE b

----------------------------------------------------------------------------
(* Requests: submit, resume and cancel *)

\* submit: the strategy decides in the transaction that inserts the run; the
\* HTTP handler then queues execute. The checkpoints of a run that is rolled back
\* are discarded right after it.
Others(r) == {s \in Runs : run[s].status \in Active}
Decided(s) ==
    CASE run[s].status = "running" -> [run[s] EXCEPT !.stop = strategy]
      [] run[s].status # "running" /\ strategy = "interrupt" -> [run[s] EXCEPT !.status = "superseded"]
      [] OTHER -> [run[s] EXCEPT !.status = "rolled_back"]
Submit(r) ==
    /\ run[r].status = "none" /\ \A s \in Runs : s < r => run[s].status # "none"
    /\ strategy = "reject" => Others(r) = {}
    /\ run' = [s \in Runs |->
                CASE s = r -> [run[r] EXCEPT !.status = "pending"]
                  [] s \in Others(r) /\ strategy \in {"interrupt", "rollback"} -> Decided(s)
                  [] OTHER -> run[s]]
    /\ cps' = [k \in Keys |->
                IF strategy = "rollback" /\ \E s \in Others(r) :
                       run[s].status # "running" /\ cps[k].run = s /\ k > Below(run[s].base)
                THEN [run |-> None, end |-> FALSE] ELSE cps[k]]
    /\ todo' = todo \cup {r}
    /\ UNCHANGED <<keyVars, strategy, interrupt, journal, lease, cancelling, workerVars, performed, faults>>

\* resume: a human answers the open interrupt of a parked run.
Resume(r) ==
    /\ run[r].status = "interrupted"
    /\ \E k \in Keys, approve \in BOOLEAN :
        /\ interrupt[k].state = "open" /\ interrupt[k].run = r
        /\ interrupt' = [interrupt EXCEPT ![k] = [state |-> "resolved", run |-> r, approve |-> approve]]
    /\ run' = [run EXCEPT ![r].status = "pending"]
    /\ todo' = todo \cup {r}
    /\ UNCHANGED <<keyVars, strategy, cps, journal, lease, cancelling, workerVars, performed, faults>>

\* cancel reads the run, then writes by what it read. (Its action "interrupt"
\* differs from "cancel" in the name of the status alone.)
CancelRead(r) ==
    /\ run[r].status \in Active /\ cancelling[r] = None
    /\ UseFault
    /\ \E action \in {"cancel", "rollback"} :
        cancelling' = [cancelling EXCEPT ![r] = [running |-> run[r].status = "running", action |-> action,
                                                 base |-> Below(run[r].base)]]
    /\ UNCHANGED <<keyVars, runVars, todo, workerVars, performed>>
CancelWrite(r) ==
    /\ cancelling[r] # None
    /\ run' = [run EXCEPT ![r] = IF cancelling[r].running THEN [@ EXCEPT !.stop = cancelling[r].action]
                                 ELSE [@ EXCEPT !.status = IF cancelling[r].action = "cancel"
                                                           THEN "cancelled" ELSE "rolled_back"]]
    /\ cps' = IF ~cancelling[r].running /\ cancelling[r].action = "rollback"
              THEN Discarded(r, cancelling[r].base) ELSE cps
    /\ cancelling' = [cancelling EXCEPT ![r] = None]
    /\ UNCHANGED <<keyVars, strategy, interrupt, journal, lease, todo, workerVars, performed, faults>>

----------------------------------------------------------------------------
(* A worker executes *)

\* execute reads the run; it takes the lease afterwards.
Read(w, r) ==
    /\ pc[w] = "idle" /\ run[r].status \in {"pending", "running"}
    /\ Goto(w, "acquire")
    /\ cur' = [cur EXCEPT ![w] = r] /\ base' = [base EXCEPT ![w] = run[r].base]
    /\ UNCHANGED <<keyVars, runVars, cancelling, cp, overrun, performed, faults>>
Execute(w, r) == r \in todo /\ todo' = todo \ {r} /\ Read(w, r)
\* The background call finds a run that is already settled or parked.
ExecuteNothing(r) ==
    /\ r \in todo /\ run[r].status \notin {"pending", "running"}
    /\ todo' = todo \ {r}
    /\ UNCHANGED <<keyVars, runVars, cancelling, workerVars, performed, faults>>
\* recover: orphaned_runs, the running runs of a thread with no live lease.
OrphanOfNoLease(r) == run[r].status = "running" /\ lease.holder = None
Orphan(r)          == run[r].status = "running" /\ ~lease.live
Recover(w, r) == Orphan(r) /\ Read(w, r) /\ todo' = todo

\* A worker is done with the thread.
Leaves(w) ==
    /\ Goto(w, "idle")
    /\ cur' = [cur EXCEPT ![w] = None] /\ base' = [base EXCEPT ![w] = NoBase] /\ cp' = [cp EXCEPT ![w] = 0]
    /\ overrun' = overrun \ {w}

\* acquire_lease: free, lapsed, or one's own. It also renews.
AcquirableBySome(w) == TRUE
Acquirable(w)       == lease.holder \in {None, w} \/ ~lease.live
Held(w) == [holder |-> w, live |-> TRUE]

Acquire(w) ==
    /\ pc[w] = "acquire"
    /\ \/ Acquirable(w) /\ lease' = Held(w) /\ Goto(w, "enter") /\ UNCHANGED <<cur, base, cp, overrun>>
       \/ ~Acquirable(w) /\ lease' = lease /\ Leaves(w)
    /\ UNCHANGED <<keyVars, strategy, run, cps, interrupt, journal, todo, cancelling, performed, faults>>

\* _execute_one up to the adapter: the base, status running, and the answered
\* interrupts, which are consumed and make it a resume. The adapter goes on from
\* the latest checkpoint when it is the run's own.
Answered(r) == {k \in Keys : interrupt[k].run = r /\ interrupt[k].state = "resolved"}
Continues(r) == Latest # 0 /\ cps[Latest].run = r
Enter(w) ==
    LET r == cur[w]
        b == IF Continues(r) THEN 0 ELSE Latest
        stuck == Answered(r) # {} /\ ~Continues(r)
    IN /\ pc[w] = "enter"
       /\ run' = [run EXCEPT ![r].base = IF base[w] = NoBase THEN b ELSE @,
                             ![r].status = IF stuck THEN "error" ELSE "running"]
       /\ base' = [base EXCEPT ![w] = IF @ = NoBase THEN b ELSE @]
       /\ interrupt' = [k \in Keys |-> IF k \in Answered(r) THEN [interrupt[k] EXCEPT !.state = "consumed"]
                                      ELSE interrupt[k]]
       /\ cp' = [cp EXCEPT ![w] = IF Continues(r) THEN Latest ELSE 0]
       /\ Goto(w, IF Continues(r) THEN IF cps[Latest].end THEN "ended" ELSE "loop"
                  ELSE IF stuck THEN "next" ELSE "hold input")
       /\ UNCHANGED <<keyVars, strategy, cps, journal, lease, todo, cancelling, cur, overrun, performed, faults>>

\* hold_lease: before every tool call and every checkpoint. A worker that lost
\* the lease leaves the run as it is.
AfterHold(point) == CASE point = "hold input" -> "put input" [] point = "hold call" -> "gateway"
                      [] point = "hold approved" -> "approved" [] point = "hold node" -> "put node"
Hold(w) ==
    /\ pc[w] \in {"hold input", "hold call", "hold approved", "hold node"}
    /\ \/ Acquirable(w) /\ lease' = Held(w) /\ Goto(w, AfterHold(pc[w]))
       \/ ~Acquirable(w) /\ lease' = lease /\ Goto(w, "release")
    /\ UNCHANGED <<keyVars, strategy, run, cps, interrupt, journal, todo, cancelling, cur, base, cp, overrun, performed, faults>>

\* put_checkpoint: MAX(checkpoint_id) + 1, after the input or after the node.
Put(w) ==
    /\ pc[w] \in {"put input", "put node"} /\ Latest < MaxCp
    /\ cps' = [cps EXCEPT ![Latest + 1] = [run |-> cur[w], end |-> pc[w] = "put node"]]
    /\ cp' = [cp EXCEPT ![w] = Latest + 1]
    /\ Goto(w, IF pc[w] = "put node" THEN "ended" ELSE "loop")
    /\ UNCHANGED <<keyVars, strategy, run, interrupt, journal, lease, todo, cancelling, cur, base, overrun, performed, faults>>

\* _loop: the program has ended, or a stop was asked for at a step boundary;
\* _settle writes the outcome, whatever the row says by now.
StatusOf(stop) == CASE stop = "interrupt" -> "superseded" [] stop = "rollback" -> "rolled_back"
                    [] OTHER -> "cancelled"
Finish(w) ==
    /\ pc[w] = "ended"
    /\ run' = [run EXCEPT ![cur[w]].status = "success"]
    /\ Goto(w, "next")
    /\ UNCHANGED <<keyVars, strategy, cps, interrupt, journal, lease, todo, cancelling, cur, base, cp, overrun, performed, faults>>
Stop(w) ==
    /\ pc[w] = "loop" /\ run[cur[w]].stop # None
    /\ run' = [run EXCEPT ![cur[w]].status = StatusOf(run[cur[w]].stop)]
    /\ cps' = IF run[cur[w]].stop = "rollback" THEN Discarded(cur[w], base[w]) ELSE cps
    /\ Goto(w, "next")
    /\ UNCHANGED <<keyVars, strategy, interrupt, journal, lease, todo, cancelling, cur, base, cp, overrun, performed, faults>>

\* call_tool: the journal answers, a human's refusal answers, or the tool is
\* called, with or without the approval.
Entry(w, how, of) == [run |-> cur[w], how |-> how, of |-> of]
Journaled(k, entry) == IF journal[k] = None THEN [journal EXCEPT ![k] = entry] ELSE journal
Replayed(k) == journal[k] # None
Decision(k) == interrupt[k].state \in {"resolved", "consumed"}
ApprovedOnceAnswered(k) == TRUE
Approved(k) == interrupt[k].approve
CallTool(w) ==
    LET k == cp[w]
    IN /\ pc[w] = "loop" /\ run[cur[w]].stop = None
       /\ journal' = IF ~Replayed(k) /\ Decision(k) /\ ~Approved(k)
                     THEN Journaled(k, Entry(w, "rejected", None)) ELSE journal
       /\ Goto(w, CASE Replayed(k) \/ (Decision(k) /\ ~Approved(k)) -> "hold node"
                    [] ~Replayed(k) /\ Decision(k) /\ Approved(k) -> "hold approved"
                    [] OTHER -> "hold call")
       /\ UNCHANGED <<keyVars, strategy, run, cps, interrupt, lease, todo, cancelling, cur, base, cp, overrun, performed, faults>>

\* The gateway asks for an approval: put_interrupt (INSERT OR IGNORE), and the
\* run is parked.
Park(w) ==
    /\ pc[w] = "gateway" /\ cur[w] \in Gated
    /\ interrupt' = [interrupt EXCEPT ![cp[w]] =
                        IF @ = NoInterrupt THEN [state |-> "open", run |-> cur[w], approve |-> FALSE] ELSE @]
    /\ run' = [run EXCEPT ![cur[w]].status = "interrupted"]
    /\ Goto(w, "next")
    /\ UNCHANGED <<keyVars, strategy, cps, journal, lease, todo, cancelling, cur, base, cp, overrun, performed, faults>>

\* The gateway calls the tool under the derived key.
Invoke(w) ==
    /\ pc[w] = "approved" \/ (pc[w] = "gateway" /\ cur[w] \notin Gated)
    /\ \/ Claim(w, cp[w], cur[w]) /\ faults' = faults
       \/ ClaimUnavailable(w, cp[w], cur[w]) /\ UseFault
    /\ Goto(w, "tool")
    /\ UNCHANGED <<runVars, todo, cancelling, cur, base, cp, overrun, performed>>
ToolActs(w) ==
    /\ pc[w] = "tool" /\ Act(w)
    /\ performed' = performed \cup {<<cur[w], cp[w]>>}
    /\ UNCHANGED <<runVars, todo, cancelling, workerVars, faults>>
ToolAnswers(w) ==
    /\ pc[w] = "tool"
    /\ \/ Succeed(w, TRUE) /\ faults' = faults
       \/ UseFault /\ \/ Succeed(w, FALSE)
                      \/ \E stored \in BOOLEAN : Fail(w, stored) \/ FailAfterAct(w, stored)
    /\ UNCHANGED <<runVars, todo, cancelling, workerVars, performed>>
\* put_tool_result (INSERT OR IGNORE) of whatever the tool answered.
Record(w) ==
    /\ pc[w] = "tool" /\ Return(w)
    /\ journal' = Journaled(cp[w], Entry(w, call[w].answer.how, call[w].answer.of))
    /\ Goto(w, "hold node")
    /\ UNCHANGED <<strategy, run, cps, interrupt, lease, todo, cancelling, cur, base, cp, overrun, performed, faults>>

\* _next_pending: enqueued work waits behind a run parked on a human.
Waiting == {r \in Runs : run[r].status = "pending"}
Parked  == {r \in Runs : run[r].status = "interrupted"}
NextPending(w) ==
    /\ pc[w] = "next"
    /\ \/ /\ Waiting = {} \/ Parked # {}
          /\ Goto(w, "release") /\ UNCHANGED <<cur, base>>
       \/ /\ Waiting # {} /\ Parked = {}
          /\ cur' = [cur EXCEPT ![w] = Min(Waiting)]
          /\ base' = [base EXCEPT ![w] = run[Min(Waiting)].base]
          /\ Goto(w, "enter")
    /\ UNCHANGED <<keyVars, runVars, todo, cancelling, cp, overrun, performed, faults>>

\* release_lease: only one's own row.
Release(w) ==
    /\ pc[w] = "release"
    /\ lease' = IF lease.holder = w THEN NoLease ELSE lease
    /\ Leaves(w)
    /\ UNCHANGED <<keyVars, strategy, run, cps, interrupt, journal, todo, cancelling, performed, faults>>

----------------------------------------------------------------------------
(* Time and failures *)

Stepping(w) == pc[w] \notin {"idle", "acquire"}
\* The heartbeat renews a lease that lapsed and that nobody took.
Beat(w) ==
    /\ Stepping(w) /\ lease = [holder |-> w, live |-> FALSE]
    /\ lease' = Held(w)
    /\ UNCHANGED <<keyVars, strategy, run, cps, interrupt, journal, todo, cancelling, workerVars, performed, faults>>
\* The holder is dead: its lease lapses.
LeaseExpires ==
    /\ lease.live /\ ~Stepping(lease.holder)
    /\ lease' = [lease EXCEPT !.live = FALSE]
    /\ UNCHANGED <<keyVars, strategy, run, cps, interrupt, journal, todo, cancelling, workerVars, performed, faults>>
\* The holder stalls, heartbeat included, for longer than the lease.
Stall ==
    /\ lease.live /\ Stepping(lease.holder) /\ UseFault
    /\ lease' = [lease EXCEPT !.live = FALSE]
    /\ overrun' = overrun \cup {lease.holder}
    /\ UNCHANGED <<keyVars, strategy, run, cps, interrupt, journal, todo, cancelling, pc, cur, base, cp, performed>>
\* A worker's process dies, with what its background pool had queued.
Crash(w) ==
    /\ pc[w] # "idle" /\ UseFault
    /\ CallerDies(w) /\ Leaves(w)
    /\ todo' \in {todo, {}}
    /\ UNCHANGED <<runVars, cancelling, performed>>
\* A key outlives its TTL and is purged by a claim of any key.
KeyLapses(k) ==
    /\ Purge(k) /\ UseFault
    /\ UNCHANGED <<runVars, todo, cancelling, workerVars, performed>>

----------------------------------------------------------------------------
Steps(w) ==
    \/ Acquire(w) \/ Enter(w) \/ Hold(w) \/ Put(w) \/ Finish(w) \/ Stop(w) \/ CallTool(w)
    \/ Park(w) \/ Invoke(w) \/ ToolActs(w) \/ ToolAnswers(w) \/ Record(w)
    \/ NextPending(w) \/ Release(w)
Takes(w) == \E r \in Runs : Execute(w, r) \/ Recover(w, r)
Next ==
    \/ \E w \in Workers : Steps(w) \/ Takes(w) \/ Beat(w) \/ Crash(w)
    \/ \E r \in Runs : Submit(r) \/ Resume(r) \/ CancelRead(r) \/ CancelWrite(r) \/ ExecuteNothing(r)
    \/ LeaseExpires \/ Stall \/ \E k \in Keys : KeyLapses(k)
Spec == Init /\ [][Next]_vars

\* A worker that lives goes on, the pool and the maintainer's recover run, and
\* time passes. Humans, requests and failures are free.
Fairness ==
    /\ \A w \in Workers : WF_vars(Steps(w)) /\ WF_vars(Takes(w))
    /\ WF_vars(LeaseExpires)
FairSpec == Spec /\ Fairness

----------------------------------------------------------------------------
(* Properties *)

Points == {"idle", "acquire", "enter", "hold input", "put input", "loop", "hold call", "gateway",
           "hold approved", "approved", "tool", "hold node", "put node", "ended", "next", "release"}
RunRows == [status : Active \cup Settled \cup {"none"}, stop : {None, "interrupt", "rollback", "cancel"},
            base : {NoBase} \cup 0 .. MaxCp]
Checkpoints == [run : Runs \cup {None}, end : BOOLEAN]
Interrupts == [state : {"none", "open", "resolved", "consumed"}, run : Runs \cup {None}, approve : BOOLEAN]
Entries == [run : Runs, of : Runs \cup {None},
            how : {"ok", "failed", "conflict", "in progress", "unavailable", "rejected"}]
Cancels == [running : BOOLEAN, action : {"cancel", "rollback"}, base : 0 .. MaxCp]
RuntimeTypeOK ==
    /\ strategy \in Strategies /\ run \in [Runs -> RunRows] /\ cps \in [Keys -> Checkpoints]
    /\ interrupt \in [Keys -> Interrupts] /\ journal \in [Keys -> {None} \cup Entries]
    /\ lease \in [holder : Workers \cup {None}, live : BOOLEAN]
    /\ todo \subseteq Runs /\ cancelling \in [Runs -> {None} \cup Cancels]
    /\ pc \in [Workers -> Points] /\ cur \in [Workers -> Runs \cup {None}]
    /\ base \in [Workers -> {NoBase} \cup 0 .. MaxCp] /\ cp \in [Workers -> 0 .. MaxCp]
    /\ overrun \subseteq Workers /\ performed \subseteq Runs \X Keys /\ faults \in 0 .. MaxFaults
TypeOK == KeyTypeOK /\ RuntimeTypeOK

\* The one-turn-per-thread lease: a worker steps the thread only while it
\* holds a live lease, unless it stalled past its lease since it took it. So
\* two workers step one thread only after such a stall.
StepperHoldsLease ==
    \A w \in Workers : Stepping(w) /\ w \notin overrun => lease = Held(w)
OneStepper == \A v, w \in Workers : Stepping(v) /\ Stepping(w) /\ v # w => {v, w} \cap overrun # {}

\* A gated tool takes effect only after a human approved the call of its
\* checkpoint, across crashes, recoveries and stalled workers.
NoActWithoutApproval ==
    \A p \in performed : p[1] \in Gated => Decision(p[2]) /\ interrupt[p[2]].approve

\* The journal tells the truth: a success was an effect of the tool under that
\* key, by the run whose result it is.
JournalIsTrue == \A k \in Keys : journal[k] # None /\ journal[k].how = "ok" => <<journal[k].of, k>> \in performed

\* recover: a run whose worker died, or lost its lease, does not stay running
\* (unless the model is out of checkpoint ids).
RunningSettles == \A r \in Runs : run[r].status = "running" ~> run[r].status # "running" \/ Latest = MaxCp

\* "A re-executed node presents the same key ... so the side effect happens
\* once" (docs/guides/agent-runtime.md): a run's call takes effect once.
SideEffectOnce == \A r \in Runs : Cardinality({p \in performed : p[1] = r}) <= 1
=============================================================================
