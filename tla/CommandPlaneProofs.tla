------------------------ MODULE CommandPlaneProofs ------------------------
(***************************************************************************)
(* Theorems about CommandPlane, for every set of commands, workers and     *)
(* callers and every value of the bounds.                                  *)
(***************************************************************************)
EXTENDS CommandPlane, FiniteSetTheorems, TLAPS

\* A thread past "idle" works on a command.
JobOK == \A d \in Threads : pc[d] # "idle" => job[d] \in Keys

\* What a thread learned from Prefect, and what the table says of it, is true:
\* a run once seen does not unhappen.
RunOK ==
    /\ \A d \in Threads : pc[d] = "answered" => prefect[job[d]] # "none"
    /\ \A d \in Threads : pc[d] = "polled" =>
         d \in Workers /\ state[job[d]] = "succeeded" /\ saw[d] \in RunStates
    /\ \A k \in Keys : state[k] = "succeeded" => prefect[k] # "none"
    /\ \A k \in Keys : runState[k] # Null => state[k] = "succeeded"

\* The inductive invariant behind type correctness.
TypeInv == TypeOK /\ JobOK /\ RunOK

\* A thread between its claim and what became of it.
Working(d) == pc[d] \in {"claimed", "sent", "answered", "failing", "burying"}

LEMMA TypeInvInit == Init => TypeInv
  BY ConstantsAssumption
  DEF Init, TypeInv, TypeOK, JobOK, RunOK, Threads, States, AdmStates, RunStates,
      RunTerminal, Topics, ControlPoints

\* What Leave(d) does to the thread that leaves, and to the others.
LEMMA LeaveEffect ==
  ASSUME pc \in [Threads -> ControlPoints],
         job \in [Threads -> Keys \cup {Null}],
         att \in [Threads -> Nat],
         NEW d \in Threads, Leave(d)
  PROVE  /\ pc' \in [Threads -> ControlPoints]
         /\ job' \in [Threads -> Keys \cup {Null}]
         /\ att' \in [Threads -> Nat]
         /\ d \in Workers => pc'[d] = "idle"
         /\ d \notin Workers => pc'[d] = "releasing" /\ job'[d] = job[d]
         /\ \A e \in Threads \ {d} :
              pc'[e] = pc[e] /\ job'[e] = job[e] /\ att'[e] = att[e]
         /\ \A e \in Threads : pc'[e] \notin {"idle", "releasing"} =>
              pc'[e] = pc[e] /\ job'[e] = job[e] /\ att'[e] = att[e]
<1>1. /\ pc' \in [Threads -> ControlPoints]
      /\ job' \in [Threads -> Keys \cup {Null}]
      /\ att' \in [Threads -> Nat]
  BY SMTT(20) DEF Leave, Goto, ControlPoints
<1>2. /\ d \in Workers => pc'[d] = "idle"
      /\ d \notin Workers => pc'[d] = "releasing" /\ job'[d] = job[d]
  BY DEF Leave, Goto
<1>3. \A e \in Threads \ {d} :
        pc'[e] = pc[e] /\ job'[e] = job[e] /\ att'[e] = att[e]
  BY DEF Leave, Goto
<1>4. QED
  BY <1>1, <1>2, <1>3

\* Counting one more event keeps the counts typed.
LEMMA EmitTyped ==
  ASSUME emitted \in [Keys -> [Topics -> Nat]],
         NEW k \in Keys, NEW topic \in Topics, Emit(k, topic)
  PROVE  emitted' \in [Keys -> [Topics -> Nat]]
<1>1. [emitted[k] EXCEPT ![topic] = @ + 1] \in [Topics -> Nat]
  OBVIOUS
<1>2. QED
  BY <1>1 DEF Emit

LEMMA TypeInvStep == TypeInv /\ [Next]_vars => TypeInv'
<1> SUFFICES ASSUME TypeInv, [Next]_vars PROVE TypeInv'
  OBVIOUS
<1> USE ConstantsAssumption
<1> USE DEF TypeInv, TypeOK, JobOK, RunOK, Threads, States, AdmStates, RunStates,
            RunTerminal, Topics, ControlPoints
<1>1. ASSUME NEW k \in Keys, Submit(k) PROVE TypeInv'
  BY <1>1 DEF Submit, rowVars, prefectVars, threadVars, bounds
<1>2. ASSUME NEW k \in Keys, Cancel(k) PROVE TypeInv'
  BY <1>2 DEF Cancel, rowVars, prefectVars, threadVars, bounds, Emit
<1>3. ASSUME NEW d \in Threads, NEW k \in Keys, ClaimWon(d, k) PROVE TypeInv'
  BY <1>3 DEF ClaimWon, rowVars, prefectVars, threadVars, bounds, Claiming, Reclaimable, Abandoned, Released, Taken, Goto, NextAttempt
<1>4. ASSUME NEW d \in Threads, NEW k \in Keys, ClaimRefused(d, k) PROVE TypeInv'
  <2>1. TypeOK'
    BY <1>4, LeaveEffect DEF ClaimRefused, rowVars, prefectVars, threadVars, bounds, Claiming, Released, Taken
  <2>2. d \notin Workers => job[d] \in Keys
    BY <1>4 DEF ClaimRefused, Claiming
  <2>3. JobOK'
    BY <1>4, <2>2, LeaveEffect, SMTT(30) DEF ClaimRefused
  <2>4. /\ \A j \in Keys : (state[j] = "succeeded") <=> (state'[j] = "succeeded")
        /\ UNCHANGED <<prefect, runState, saw>>
    BY <1>4 DEF ClaimRefused, rowVars, prefectVars, threadVars, bounds, Reclaimable, Abandoned
  <2>5. RunOK'
    BY <1>4, <2>1, <2>4, LeaveEffect DEF ClaimRefused
  <2>6. QED
    BY <2>1, <2>3, <2>5
<1>5. ASSUME NEW d \in Threads, NEW k \in Keys, ClaimLost(d, k) PROVE TypeInv'
  <2>1. TypeOK'
    BY <1>5, LeaveEffect DEF ClaimLost, rowVars, prefectVars, threadVars, bounds, Claiming, Taken
  <2>2. d \notin Workers => job[d] \in Keys
    BY <1>5 DEF ClaimLost, Claiming
  <2>3. JobOK'
    BY <1>5, <2>2, LeaveEffect DEF ClaimLost
  <2>4. RunOK'
    <3>1. UNCHANGED <<state, prefect, runState, saw>>
      BY <1>5 DEF ClaimLost, prefectVars
    <3>2. \A e \in Threads : pc'[e] \in {"answered", "polled"} =>
            pc'[e] = pc[e] /\ job'[e] = job[e]
      BY <1>5, LeaveEffect DEF ClaimLost
    <3>3. QED
      BY <3>1, <3>2
  <2>5. QED
    BY <2>1, <2>3, <2>4
<1>6. ASSUME NEW d \in Threads, DispatchRefused(d) PROVE TypeInv'
  BY <1>6 DEF DispatchRefused, rowVars, prefectVars, threadVars, bounds, Goto
<1>7. ASSUME NEW d \in Threads, Dispatch(d) PROVE TypeInv'
  BY <1>7 DEF Dispatch, rowVars, prefectVars, threadVars, bounds, Goto
<1>8. ASSUME NEW d \in Threads, Answered(d) PROVE TypeInv'
  BY <1>8 DEF Answered, rowVars, prefectVars, threadVars, bounds, Goto, RunExists
<1>9. ASSUME NEW d \in Threads, Unanswered(d) PROVE TypeInv'
  BY <1>9 DEF Unanswered, rowVars, prefectVars, threadVars, bounds, Goto
<1>10. ASSUME NEW d \in Threads, Complete(d) PROVE TypeInv'
  <2>1. TypeOK'
    BY <1>10, LeaveEffect DEF Complete, rowVars, prefectVars, threadVars, bounds, Emit, Fenced
  <2>2. JobOK'
    BY <1>10, LeaveEffect DEF Complete
  <2>3. /\ prefect[job[d]] # "none"
        /\ UNCHANGED <<prefect, runState, saw>>
        /\ \A k \in Keys : state[k] = "succeeded" => state'[k] = "succeeded"
        /\ \A k \in Keys \ {job[d]} : state'[k] = state[k]
    BY <1>10 DEF Complete, rowVars, prefectVars, threadVars, bounds
  <2>4. RunOK'
    BY <1>10, <2>3, LeaveEffect, SMTT(30) DEF Complete
  <2>5. QED
    BY <2>1, <2>2, <2>4
<1>11. ASSUME NEW d \in Threads, CompleteFails(d) PROVE TypeInv'
  BY <1>11 DEF CompleteFails, rowVars, prefectVars, threadVars, bounds, Goto
<1>12. ASSUME NEW d \in Threads, Fail(d) PROVE TypeInv'
  <2>1. TypeOK'
    <3>1. /\ state' \in [Keys -> States] /\ adm' \in [Keys -> AdmStates]
          /\ lapsed' \subseteq Keys /\ cooling' \subseteq AsyncKeys
      BY <1>12 DEF Fail
    <3>2. /\ pc' \in [Threads -> ControlPoints]
          /\ job' \in [Threads -> Keys \cup {Null}]
          /\ att' \in [Threads -> Nat]
      BY <1>12, LeaveEffect DEF Fail, AfterFail, Goto
    <3>3. QED
      BY <1>12, <3>1, <3>2 DEF Fail, rowVars, prefectVars, threadVars, bounds
  <2>2. JobOK'
    BY <1>12, LeaveEffect DEF Fail, AfterFail, Goto
  <2>3. RunOK'
    BY <1>12, LeaveEffect DEF Fail, AfterFail, Goto, Fenced, rowVars, prefectVars, threadVars, bounds
  <2>4. QED
    BY <2>1, <2>2, <2>3
<1>13. ASSUME NEW w \in Workers, MarkDead(w) PROVE TypeInv'
  <2>1. TypeOK'
    BY <1>13, LeaveEffect DEF MarkDead, rowVars, prefectVars, threadVars, bounds
  <2>2. JobOK'
    BY <1>13, LeaveEffect DEF MarkDead
  <2>3. /\ \A k \in Keys : (state[k] = "succeeded") <=> (state'[k] = "succeeded")
        /\ UNCHANGED <<prefect, runState, saw>>
    BY <1>13 DEF MarkDead, rowVars, prefectVars, threadVars, bounds
  <2>4. RunOK'
    <3>1. \A e \in Threads : pc'[e] \in {"answered", "polled"} =>
            pc'[e] = pc[e] /\ job'[e] = job[e]
      BY <1>13, LeaveEffect DEF MarkDead
    <3>2. QED
      BY <2>3, <3>1
  <2>5. QED
    BY <2>1, <2>2, <2>4
<1>14. ASSUME NEW k \in Keys, NoteOrphan(k) PROVE TypeInv'
  BY <1>14 DEF NoteOrphan, rowVars, prefectVars, threadVars, bounds, Suspect
<1>15. ASSUME NEW w \in Workers, StartCycle(w) PROVE TypeInv'
  BY <1>15 DEF StartCycle, rowVars, prefectVars, threadVars, bounds, Released, SweptState, Abandoned, Due
<1>16. ASSUME NEW c \in Callers, NEW k \in Keys, StartCall(c, k) PROVE TypeInv'
  <2>1. TypeOK'
    <3>1. retrainLock' \in [Pairs -> Callers \cup {Null}]
      BY <1>16 DEF StartCall
    <3>2. calls' \in 0 .. MaxCalls
      BY <1>16 DEF StartCall
    <3>3. QED
      BY <1>16, <3>1, <3>2 DEF StartCall, Goto, SyncKeys, rowVars, prefectVars, threadVars, bounds
  <2>2. JobOK'
    BY <1>16 DEF StartCall, Goto, SyncKeys
  <2>3. RunOK'
    BY <1>16 DEF StartCall, Goto, rowVars, prefectVars, threadVars, bounds
  <2>4. QED
    BY <2>1, <2>2, <2>3
<1>17. ASSUME NEW c \in Callers, Release(c) PROVE TypeInv'
  BY <1>17 DEF Release, rowVars, prefectVars, threadVars, bounds, Goto
<1>18. ASSUME NEW w \in Workers, NEW k \in Keys, Poll(w, k) PROVE TypeInv'
  BY <1>18 DEF Poll, rowVars, prefectVars, threadVars, bounds, Goto, Unsettled
<1>19. ASSUME NEW w \in Workers, Record(w) PROVE TypeInv'
  <2>1. TypeOK'
    <3>1. runState' \in [Keys -> RunStates \cup {Null}]
      BY <1>19 DEF Record
    <3>2. emitted' \in [Keys -> [Topics -> Nat]]
      BY <1>19, EmitTyped DEF Record
    <3>3. QED
      BY <1>19, <3>1, <3>2, LeaveEffect DEF Record, rowVars, prefectVars, threadVars, bounds
  <2>2. JobOK'
    BY <1>19, LeaveEffect DEF Record
  <2>3. RunOK'
    BY <1>19, LeaveEffect DEF Record, rowVars, prefectVars, threadVars, bounds
  <2>4. QED
    BY <2>1, <2>2, <2>3
<1>20. ASSUME NEW k \in Keys, Land(k) PROVE TypeInv'
  BY <1>20 DEF Land, rowVars, prefectVars, threadVars, bounds
<1>21. ASSUME NEW k \in Keys, Drop(k) PROVE TypeInv'
  BY <1>21 DEF Drop, rowVars, prefectVars, threadVars, bounds
<1>22. ASSUME NEW k \in Keys, RunEnds(k) PROVE TypeInv'
  BY <1>22 DEF RunEnds, rowVars, prefectVars, threadVars, bounds
<1>23. ASSUME NEW k \in Keys, RunForgotten(k) PROVE TypeInv'
  BY <1>23 DEF RunForgotten, rowVars, prefectVars, threadVars, bounds
<1>24. ASSUME NEW k \in Keys, LeaseLapses(k) PROVE TypeInv'
  BY <1>24 DEF LeaseLapses, rowVars, prefectVars, threadVars, bounds, UseFault
<1>25. ASSUME NEW k \in Keys, BackoffElapses(k) PROVE TypeInv'
  BY <1>25 DEF BackoffElapses, rowVars, prefectVars, threadVars, bounds, UseFault
<1>26. ASSUME NEW p \in Pairs, LockLapses(p) PROVE TypeInv'
  BY <1>26 DEF LockLapses, rowVars, prefectVars, threadVars, bounds, UseFault
<1>27. ASSUME NEW d \in Threads, Crash(d) PROVE TypeInv'
  BY <1>27 DEF Crash, rowVars, prefectVars, threadVars, bounds, UseFault, Goto
<1>28. ASSUME NEW c \in Callers, CallAborts(c) PROVE TypeInv'
  BY <1>28 DEF CallAborts, rowVars, prefectVars, threadVars, bounds, UseFault, Goto
<1>29. CASE UNCHANGED vars
  BY <1>29 DEF vars, rowVars, prefectVars, threadVars, bounds
<1>30. QED
  BY <1>1, <1>2, <1>3, <1>4, <1>5, <1>6, <1>7, <1>8, <1>9, <1>10, <1>11,
     <1>12, <1>13, <1>14, <1>15, <1>16, <1>17, <1>18, <1>19, <1>20, <1>21,
     <1>22, <1>23, <1>24, <1>25, <1>26, <1>27, <1>28, <1>29
  DEF Next, ThreadStep, Claim, WorkerStep, CallerStep, Environment

\* Every variable of the command plane keeps its type, for every number of
\* commands, workers, callers, attempts and slots.
THEOREM TypeCorrect == Spec => []TypeOK
<1>1. Spec => []TypeInv
  BY TypeInvInit, TypeInvStep, PTL DEF Spec
<1>2. TypeInv => TypeOK
  BY DEF TypeInv
<1>3. QED
  BY <1>1, <1>2, PTL

\* A command recorded as succeeded has a run in Prefect, and only such a
\* command's run is followed (_complete_command, _reconcile_runs_once).
THEOREM SuccessCorrect == Spec => []SuccessHasRun
<1>1. Spec => []TypeInv
  BY TypeInvInit, TypeInvStep, PTL DEF Spec
<1>2. TypeInv => SuccessHasRun
  BY DEF TypeInv, RunOK, SuccessHasRun
<1>3. QED
  BY <1>1, <1>2, PTL

\* Whatever a thread holds, a worker's batch lists or the network carries is a
\* command that was accepted; workers hold asynchronous commands and callers
\* synchronous ones.
ThreadInv ==
    /\ \A w \in Workers : \A k \in todo[w] : state[k] # "none"
    /\ \A k \in inflight : state[k] # "none"
    /\ \A d \in Threads : Working(d) => state[job[d]] # "none"
    /\ \A w \in Workers : Working(w) => job[w] \in AsyncKeys
    /\ \A c \in Callers : pc[c] # "idle" => job[c] \in SyncKeys

\* Leaving a command keeps ThreadInv, if no accepted command is forgotten.
LEMMA ThreadInvLeave ==
  ASSUME TypeInv, ThreadInv,
         NEW d \in Threads, d \in Workers \/ pc[d] # "idle", Leave(d),
         \A k \in Keys : state[k] # "none" => state'[k] # "none",
         \A w \in Workers : todo'[w] \subseteq todo[w],
         inflight' = inflight
  PROVE  ThreadInv'
<1> USE DEF TypeInv, TypeOK, JobOK
<1>1. /\ \A w \in Workers : \A k \in todo'[w] : state'[k] # "none"
      /\ \A k \in inflight' : state'[k] # "none"
  BY ConstantsAssumption DEF ThreadInv
<1>2. \A e \in Threads : Working(e)' => Working(e) /\ job'[e] = job[e]
  BY LeaveEffect DEF Working
<1>3. /\ \A e \in Threads : Working(e)' => state'[job'[e]] # "none"
      /\ \A w \in Workers : Working(w)' => job'[w] \in AsyncKeys
  BY <1>2 DEF ThreadInv, Threads, Working
<1>4. ASSUME NEW c \in Callers, pc'[c] # "idle" PROVE job'[c] \in SyncKeys
  BY <1>4, LeaveEffect, ConstantsAssumption DEF ThreadInv, Threads
<1>5. QED
  BY <1>1, <1>3, <1>4 DEF ThreadInv

LEMMA ThreadInvStep == TypeInv /\ ThreadInv /\ [Next]_vars => ThreadInv'
<1> SUFFICES ASSUME TypeInv, ThreadInv, [Next]_vars PROVE ThreadInv'
  OBVIOUS
<1> USE ConstantsAssumption
<1> USE DEF TypeInv, TypeOK, JobOK, ThreadInv, Working, Threads, SyncKeys
<1>1. ASSUME NEW k \in Keys, Submit(k) PROVE ThreadInv'
  BY <1>1 DEF Submit, rowVars, prefectVars, threadVars, bounds
<1>2. ASSUME NEW k \in Keys, Cancel(k) PROVE ThreadInv'
  BY <1>2 DEF Cancel, rowVars, prefectVars, threadVars, bounds, Emit
<1>3. ASSUME NEW d \in Threads, NEW k \in Keys, ClaimWon(d, k) PROVE ThreadInv'
  BY <1>3 DEF ClaimWon, rowVars, prefectVars, threadVars, bounds, Claiming, Reclaimable, Abandoned, Taken, Goto, NextAttempt
<1>4. ASSUME NEW d \in Threads, NEW k \in Keys, ClaimRefused(d, k) PROVE ThreadInv'
  BY <1>4, ThreadInvLeave DEF ClaimRefused, rowVars, prefectVars, Claiming, Reclaimable, Abandoned, Taken
<1>5. ASSUME NEW d \in Threads, NEW k \in Keys, ClaimLost(d, k) PROVE ThreadInv'
  BY <1>5, ThreadInvLeave DEF ClaimLost, prefectVars, Claiming, Taken
<1>6. ASSUME NEW d \in Threads, DispatchRefused(d) PROVE ThreadInv'
  BY <1>6 DEF DispatchRefused, rowVars, prefectVars, threadVars, bounds, Goto
<1>7. ASSUME NEW d \in Threads, Dispatch(d) PROVE ThreadInv'
  BY <1>7 DEF Dispatch, rowVars, prefectVars, threadVars, bounds, Goto
<1>8. ASSUME NEW d \in Threads, Answered(d) PROVE ThreadInv'
  BY <1>8 DEF Answered, rowVars, prefectVars, threadVars, bounds, Goto, RunExists
<1>9. ASSUME NEW d \in Threads, Unanswered(d) PROVE ThreadInv'
  BY <1>9 DEF Unanswered, rowVars, prefectVars, threadVars, bounds, Goto
<1>10. ASSUME NEW d \in Threads, Complete(d) PROVE ThreadInv'
  BY <1>10, ThreadInvLeave DEF Complete, prefectVars
<1>11. ASSUME NEW d \in Threads, CompleteFails(d) PROVE ThreadInv'
  BY <1>11 DEF CompleteFails, rowVars, prefectVars, threadVars, bounds, Goto
<1>12. ASSUME NEW d \in Threads, Fail(d) PROVE ThreadInv'
  <2>1. CASE Leave(d)
    BY <1>12, <2>1, ThreadInvLeave DEF Fail, prefectVars
  <2>2. CASE d \in Workers /\ Goto(d, "burying") /\ UNCHANGED <<job, att>>
    BY <1>12, <2>2 DEF Fail, Goto, prefectVars
  <2>3. QED
    BY <1>12, <2>1, <2>2 DEF Fail, AfterFail
<1>13. ASSUME NEW w \in Workers, MarkDead(w) PROVE ThreadInv'
  BY <1>13, ThreadInvLeave DEF MarkDead, prefectVars
<1>14. ASSUME NEW k \in Keys, NoteOrphan(k) PROVE ThreadInv'
  BY <1>14 DEF NoteOrphan, rowVars, prefectVars, threadVars, bounds, Suspect
<1>15. ASSUME NEW w \in Workers, StartCycle(w) PROVE ThreadInv'
  BY <1>15 DEF StartCycle, rowVars, prefectVars, threadVars, bounds, SweptState, Abandoned, Due
<1>16. ASSUME NEW c \in Callers, NEW k \in Keys, StartCall(c, k) PROVE ThreadInv'
  BY <1>16 DEF StartCall, rowVars, prefectVars, threadVars, bounds, Goto, SyncKeys
<1>17. ASSUME NEW c \in Callers, Release(c) PROVE ThreadInv'
  BY <1>17 DEF Release, rowVars, prefectVars, threadVars, bounds, Goto
<1>18. ASSUME NEW w \in Workers, NEW k \in Keys, Poll(w, k) PROVE ThreadInv'
  BY <1>18 DEF Poll, rowVars, prefectVars, threadVars, bounds, Goto, Unsettled
<1>19. ASSUME NEW w \in Workers, Record(w) PROVE ThreadInv'
  BY <1>19, ThreadInvLeave DEF Record, prefectVars
<1>20. ASSUME NEW k \in Keys, Land(k) PROVE ThreadInv'
  BY <1>20 DEF Land, rowVars, prefectVars, threadVars, bounds
<1>21. ASSUME NEW k \in Keys, Drop(k) PROVE ThreadInv'
  BY <1>21 DEF Drop, rowVars, prefectVars, threadVars, bounds
<1>22. ASSUME NEW k \in Keys, RunEnds(k) PROVE ThreadInv'
  BY <1>22 DEF RunEnds, rowVars, prefectVars, threadVars, bounds
<1>23. ASSUME NEW k \in Keys, RunForgotten(k) PROVE ThreadInv'
  BY <1>23 DEF RunForgotten, rowVars, prefectVars, threadVars, bounds
<1>24. ASSUME NEW k \in Keys, LeaseLapses(k) PROVE ThreadInv'
  BY <1>24 DEF LeaseLapses, rowVars, prefectVars, threadVars, bounds
<1>25. ASSUME NEW k \in Keys, BackoffElapses(k) PROVE ThreadInv'
  BY <1>25 DEF BackoffElapses, rowVars, prefectVars, threadVars, bounds
<1>26. ASSUME NEW p \in Pairs, LockLapses(p) PROVE ThreadInv'
  BY <1>26 DEF LockLapses, rowVars, prefectVars, threadVars, bounds
<1>27. ASSUME NEW d \in Threads, Crash(d) PROVE ThreadInv'
  BY <1>27 DEF Crash, rowVars, prefectVars, threadVars, bounds, Goto
<1>28. ASSUME NEW c \in Callers, CallAborts(c) PROVE ThreadInv'
  BY <1>28 DEF CallAborts, rowVars, prefectVars, threadVars, bounds, Goto
<1>29. CASE UNCHANGED vars
  BY <1>29 DEF vars, rowVars, prefectVars, threadVars, bounds
<1>30. QED
  BY <1>1, <1>2, <1>3, <1>4, <1>5, <1>6, <1>7, <1>8, <1>9, <1>10, <1>11,
     <1>12, <1>13, <1>14, <1>15, <1>16, <1>17, <1>18, <1>19, <1>20, <1>21,
     <1>22, <1>23, <1>24, <1>25, <1>26, <1>27, <1>28, <1>29
  DEF Next, ThreadStep, Claim, WorkerStep, CallerStep, Environment

LEMMA ThreadInvInit == Init => ThreadInv
  BY ConstantsAssumption DEF Init, ThreadInv, Working, Threads

(***************************************************************************)
(* CommandPlane implements CommandLedger: each step of a thread, of the    *)
(* sweep or of the environment is a step of the ledger or leaves it as is. *)
(***************************************************************************)
LEMMA LedgerInit == Init => Ledger!Init
  BY DEF Init, Ledger!Init, Decided, Started, Topics, Ledger!Topics

\* A step that keeps every command's decision, run, outcome and events.
LEMMA LedgerStutter ==
  ASSUME \A k \in Keys : Decided'[k] = Decided[k],
         Started' = Started, UNCHANGED <<runState, emitted>>
  PROVE  UNCHANGED Ledger!ledger
<1>1. Decided' = Decided
  BY DEF Decided
<1>2. QED
  BY <1>1 DEF Ledger!ledger

LEMMA LedgerStep ==
  ASSUME TypeInv, ThreadInv, [Next]_vars
  PROVE  [Ledger!Next]_Ledger!ledger
<1> USE ConstantsAssumption
<1> USE DEF TypeInv, TypeOK
<1>1. ASSUME NEW k \in Keys, Submit(k) PROVE [Ledger!Next]_Ledger!ledger
  <2>1. Decided[k] = "none" /\ k \in AsyncKeys
    BY <1>1 DEF Submit, Decided
  <2>2. Decided' = [Decided EXCEPT ![k] = "open"]
    BY <1>1 DEF Submit, Decided
  <2>3. \A j \in AsyncKeys \ {k} : PairOf[j] = PairOf[k] => ~Ledger!InProgress(j)
    <3>1. ASSUME NEW j \in AsyncKeys \ {k}, PairOf[j] = PairOf[k]
          PROVE  ~Ledger!InProgress(j)
      <4>1. j \in Keys /\ ~Active(j)
        BY <1>1, <3>1 DEF Submit
      <4>2. state[j] \notin {"pending", "dispatching", "failed"}
        BY <3>1, <4>1 DEF Active
      <4>3. state[j] = "succeeded" => runState[j] \in Ledger!Final
        BY <4>1 DEF Active, RunStates, RunTerminal, Ledger!Final
      <4>4. QED
        BY <4>1, <4>2, <4>3 DEF Ledger!InProgress, Decided, States
    <3>2. QED
      BY <3>1
  <2>4. UNCHANGED <<Started, runState, emitted>>
    BY <1>1 DEF Submit, Started, prefectVars
  <2>5. QED
    BY <2>1, <2>2, <2>3, <2>4 DEF Ledger!Next, Ledger!Accept
<1>2. ASSUME NEW k \in Keys, Cancel(k) PROVE [Ledger!Next]_Ledger!ledger
  <2>1. Decided[k] = "open" /\ Decided' = [Decided EXCEPT ![k] = "cancelled"]
    BY <1>2 DEF Cancel, Decided
  <2>2. UNCHANGED <<Started, runState>> /\ Ledger!Tell(k, "operation.cancelled")
    BY <1>2 DEF Cancel, Started, prefectVars, Emit, Ledger!Tell
  <2>3. QED
    BY <1>2, <2>1, <2>2 DEF Ledger!Next, Ledger!Withdraw, Cancel
<1>3. ASSUME NEW d \in Threads, NEW k \in Keys, ClaimWon(d, k) PROVE [Ledger!Next]_Ledger!ledger
  <2>1. UNCHANGED <<Started, runState, emitted>>
    BY <1>3 DEF ClaimWon, Started, prefectVars
  <2>2. CASE state[k] = "none"
    <3>1. k \notin AsyncKeys
      BY <1>3, <2>2 DEF ClaimWon, Claiming, ThreadInv, SyncKeys
    <3>2. Decided[k] = "none" /\ Decided' = [Decided EXCEPT ![k] = "open"]
      BY <1>3, <2>2 DEF ClaimWon, Decided
    <3>3. QED
      BY <2>1, <3>1, <3>2 DEF Ledger!Next, Ledger!Accept
  <2>3. CASE state[k] # "none"
    <3>1. \A j \in Keys : Decided'[j] = Decided[j]
      BY <1>3, <2>3 DEF ClaimWon, Decided, Reclaimable, Abandoned
    <3>2. QED
      BY <2>1, <3>1, LedgerStutter
  <2>4. QED
    BY <2>2, <2>3
<1>4. ASSUME NEW d \in Threads, NEW k \in Keys, ClaimRefused(d, k) PROVE [Ledger!Next]_Ledger!ledger
  <2>1. UNCHANGED <<Started, runState, emitted>>
    BY <1>4 DEF ClaimRefused, Started, prefectVars
  <2>2. CASE state[k] = "none"
    <3>1. k \notin AsyncKeys
      BY <1>4, <2>2 DEF ClaimRefused, Claiming, ThreadInv, SyncKeys
    <3>2. Decided[k] = "none" /\ Decided' = [Decided EXCEPT ![k] = "open"]
      BY <1>4, <2>2 DEF ClaimRefused, Decided
    <3>3. QED
      BY <2>1, <3>1, <3>2 DEF Ledger!Next, Ledger!Accept
  <2>3. CASE state[k] # "none"
    <3>1. \A j \in Keys : Decided'[j] = Decided[j]
      BY <1>4, <2>3 DEF ClaimRefused, Decided, Reclaimable, Abandoned
    <3>2. QED
      BY <2>1, <3>1, LedgerStutter
  <2>4. QED
    BY <2>2, <2>3
<1>5. ASSUME NEW d \in Threads, NEW k \in Keys, ClaimLost(d, k) PROVE [Ledger!Next]_Ledger!ledger
  BY <1>5, LedgerStutter DEF ClaimLost, Decided, Started, prefectVars
<1>6. ASSUME NEW d \in Threads, DispatchRefused(d) PROVE [Ledger!Next]_Ledger!ledger
  BY <1>6, LedgerStutter DEF DispatchRefused, Decided, Started, rowVars, prefectVars
<1>7. ASSUME NEW d \in Threads, Dispatch(d) PROVE [Ledger!Next]_Ledger!ledger
  BY <1>7, LedgerStutter DEF Dispatch, Decided, Started, rowVars
<1>8. ASSUME NEW d \in Threads, Answered(d) PROVE [Ledger!Next]_Ledger!ledger
  BY <1>8, LedgerStutter DEF Answered, Decided, Started, rowVars, prefectVars
<1>9. ASSUME NEW d \in Threads, Unanswered(d) PROVE [Ledger!Next]_Ledger!ledger
  BY <1>9, LedgerStutter DEF Unanswered, Decided, Started, rowVars, prefectVars
<1>10. ASSUME NEW d \in Threads, Complete(d) PROVE [Ledger!Next]_Ledger!ledger
  <2>1. job[d] \in Keys /\ Decided[job[d]] = "open" /\ job[d] \in Started
    BY <1>10 DEF Complete, Fenced, Decided, Started, JobOK, RunOK
  <2>2. Decided' = [Decided EXCEPT ![job[d]] = "succeeded"]
    BY <1>10, <2>1 DEF Complete, Decided
  <2>3. UNCHANGED <<Started, runState>> /\ Ledger!Tell(job[d], "retrain.scheduled")
    BY <1>10 DEF Complete, Started, prefectVars, Emit, Ledger!Tell
  <2>4. QED
    BY <2>1, <2>2, <2>3 DEF Ledger!Next, Ledger!Succeed
<1>11. ASSUME NEW d \in Threads, CompleteFails(d) PROVE [Ledger!Next]_Ledger!ledger
  BY <1>11, LedgerStutter DEF CompleteFails, Decided, Started, rowVars, prefectVars
<1>12. ASSUME NEW d \in Threads, Fail(d) PROVE [Ledger!Next]_Ledger!ledger
  BY <1>12, LedgerStutter DEF Fail, Decided, Started, Fenced, prefectVars
<1>13. ASSUME NEW w \in Workers, MarkDead(w) PROVE [Ledger!Next]_Ledger!ledger
  <2> DEFINE k == job[w]
  <2>1. k \in AsyncKeys
    BY <1>13 DEF MarkDead, ThreadInv, Working
  <2>2. UNCHANGED <<Started, runState, emitted>>
    BY <1>13 DEF MarkDead, Started, prefectVars
  <2>3. CASE state[k] = "failed" /\ attempts[k] = att[w]
    <3>1. /\ \A j \in {k} : Decided[j] = "open"
          /\ Decided' = [j \in Keys |-> IF j \in {k} THEN "dead" ELSE Decided[j]]
      BY <1>13, <2>1, <2>3 DEF MarkDead, Decided
    <3>2. Ledger!GiveUp({k})
      BY <2>2, <3>1 DEF Ledger!GiveUp
    <3>3. QED
      BY <2>1, <3>2 DEF Ledger!Next
  <2>4. CASE ~(state[k] = "failed" /\ attempts[k] = att[w])
    <3>1. state' = state
      BY <1>13, <2>4 DEF MarkDead
    <3>2. QED
      BY <2>2, <3>1, LedgerStutter DEF Decided
  <2>5. QED
    BY <2>3, <2>4
<1>14. ASSUME NEW k \in Keys, NoteOrphan(k) PROVE [Ledger!Next]_Ledger!ledger
  BY <1>14, LedgerStutter DEF NoteOrphan, Decided, Started, prefectVars
<1>15. ASSUME NEW w \in Workers, StartCycle(w) PROVE [Ledger!Next]_Ledger!ledger
  <2> DEFINE B == {k \in Keys : state[k] # "dead" /\ SweptState(k) = "dead"}
  <2>1. B \in SUBSET AsyncKeys
    BY DEF SweptState, Abandoned, SyncKeys
  <2>2. \A k \in B : Decided[k] = "open"
    BY DEF SweptState, Abandoned, Decided
  <2>3. Decided' = [k \in Keys |-> IF k \in B THEN "dead" ELSE Decided[k]]
    BY <1>15 DEF StartCycle, SweptState, Abandoned, Decided
  <2>4. UNCHANGED <<Started, runState, emitted>>
    BY <1>15 DEF StartCycle, Started, prefectVars
  <2>5. Ledger!GiveUp(B)
    BY <2>2, <2>3, <2>4 DEF Ledger!GiveUp
  <2>6. QED
    BY <2>1, <2>5 DEF Ledger!Next
<1>16. ASSUME NEW c \in Callers, NEW k \in Keys, StartCall(c, k) PROVE [Ledger!Next]_Ledger!ledger
  BY <1>16, LedgerStutter DEF StartCall, Decided, Started, rowVars, prefectVars
<1>17. ASSUME NEW c \in Callers, Release(c) PROVE [Ledger!Next]_Ledger!ledger
  BY <1>17, LedgerStutter DEF Release, Decided, Started, rowVars, prefectVars
<1>18. ASSUME NEW w \in Workers, NEW k \in Keys, Poll(w, k) PROVE [Ledger!Next]_Ledger!ledger
  BY <1>18, LedgerStutter DEF Poll, Decided, Started, rowVars, prefectVars
<1>19. ASSUME NEW w \in Workers, Record(w) PROVE [Ledger!Next]_Ledger!ledger
  <2> DEFINE k == job[w]
  <2>1. /\ k \in Keys /\ Decided[k] = "succeeded"
        /\ saw[w] \in Ledger!Outcomes
    BY <1>19 DEF Record, JobOK, RunOK, Decided, Ledger!Outcomes, RunStates, RunTerminal, Threads
  <2>2. Decided' = Decided /\ Started' = Started
    BY <1>19 DEF Record, Decided, Started, prefectVars
  <2>3. CASE StillOpen(k)
    <3>1. Ledger!Follow(k, saw[w])
      BY <1>19, <2>1, <2>2, <2>3 DEF Record, Ledger!Follow, Ledger!Final, RunTerminal, StillOpen,
                                   Emit, Ledger!Tell
    <3>2. QED
      BY <2>1, <3>1 DEF Ledger!Next
  <2>4. CASE ~StillOpen(k)
    <3>1. UNCHANGED <<runState, emitted>>
      BY <1>19, <2>4 DEF Record
    <3>2. QED
      BY <2>2, <3>1, LedgerStutter
  <2>5. QED
    BY <2>3, <2>4
<1>20. ASSUME NEW k \in Keys, Land(k) PROVE [Ledger!Next]_Ledger!ledger
  <2>1. Decided[k] # "none" /\ k \in Keys
    BY <1>20 DEF Land, ThreadInv, Decided
  <2>2. Started' = Started \cup {k}
    BY <1>20 DEF Land, Started
  <2>3. Decided' = Decided /\ UNCHANGED <<runState, emitted>>
    BY <1>20 DEF Land, Decided, rowVars
  <2>4. QED
    BY <2>1, <2>2, <2>3 DEF Ledger!Next, Ledger!RunAppears
<1>21. ASSUME NEW k \in Keys, Drop(k) PROVE [Ledger!Next]_Ledger!ledger
  BY <1>21, LedgerStutter DEF Drop, Decided, Started, rowVars
<1>22. ASSUME NEW k \in Keys, RunEnds(k) PROVE [Ledger!Next]_Ledger!ledger
  BY <1>22, LedgerStutter DEF RunEnds, Decided, Started, rowVars
<1>23. ASSUME NEW k \in Keys, RunForgotten(k) PROVE [Ledger!Next]_Ledger!ledger
  BY <1>23, LedgerStutter DEF RunForgotten, Decided, Started, rowVars
<1>24. ASSUME NEW k \in Keys, LeaseLapses(k) PROVE [Ledger!Next]_Ledger!ledger
  BY <1>24, LedgerStutter DEF LeaseLapses, Decided, Started, prefectVars
<1>25. ASSUME NEW k \in Keys, BackoffElapses(k) PROVE [Ledger!Next]_Ledger!ledger
  BY <1>25, LedgerStutter DEF BackoffElapses, Decided, Started, prefectVars
<1>26. ASSUME NEW p \in Pairs, LockLapses(p) PROVE [Ledger!Next]_Ledger!ledger
  BY <1>26, LedgerStutter DEF LockLapses, Decided, Started, rowVars, prefectVars
<1>27. ASSUME NEW d \in Threads, Crash(d) PROVE [Ledger!Next]_Ledger!ledger
  BY <1>27, LedgerStutter DEF Crash, Decided, Started, rowVars, prefectVars
<1>28. ASSUME NEW c \in Callers, CallAborts(c) PROVE [Ledger!Next]_Ledger!ledger
  BY <1>28, LedgerStutter DEF CallAborts, Decided, Started, rowVars, prefectVars
<1>29. CASE UNCHANGED vars
  BY <1>29, LedgerStutter DEF vars, rowVars, prefectVars, Decided, Started
<1>30. QED
  BY <1>1, <1>2, <1>3, <1>4, <1>5, <1>6, <1>7, <1>8, <1>9, <1>10, <1>11,
     <1>12, <1>13, <1>14, <1>15, <1>16, <1>17, <1>18, <1>19, <1>20, <1>21,
     <1>22, <1>23, <1>24, <1>25, <1>26, <1>27, <1>28, <1>29
  DEF Next, ThreadStep, Claim, WorkerStep, CallerStep, Environment

\* The control plane's commands implement the ledger: decided once, with a run
\* if they succeed, told once, one in progress per pair.
THEOREM Refinement == Spec => ImplementsLedger
<1>1. Init => TypeInv /\ ThreadInv
  BY TypeInvInit, ThreadInvInit
<1>2. TypeInv /\ ThreadInv /\ [Next]_vars => TypeInv' /\ ThreadInv'
  BY TypeInvStep, ThreadInvStep
<1>3. TypeInv /\ ThreadInv /\ [Next]_vars => [Ledger!Next]_Ledger!ledger
  BY LedgerStep
<1>4. Spec => Ledger!Spec
  BY <1>1, <1>2, <1>3, LedgerInit, PTL DEF Spec, Ledger!Spec
<1>5. QED
  BY <1>4 DEF ImplementsLedger

(***************************************************************************)
(* What the ledger guarantees, every implementation has: the decisions are *)
(* told once and pairs are exclusive by the ledger's own steps.            *)
(***************************************************************************)
\* Only a succeeded command has an outcome.
OutcomeOK == \A k \in Keys : runState[k] # Null => Decided[k] = "succeeded"

LedgerInv == Ledger!LedgerTypeOK /\ OutcomeOK /\ Ledger!ToldOnce /\ Ledger!OneInProgress

\* Telling k one more thing changes that count and no other.
LEMMA TellEffect ==
  ASSUME emitted \in [Keys -> [Ledger!Topics -> Nat]],
         NEW k \in Keys, NEW topic \in Ledger!Topics, Ledger!Tell(k, topic)
  PROVE  /\ emitted' \in [Keys -> [Ledger!Topics -> Nat]]
         /\ emitted'[k][topic] = emitted[k][topic] + 1
         /\ \A t \in Ledger!Topics \ {topic} : emitted'[k][t] = emitted[k][t]
         /\ \A j \in Keys \ {k} : emitted'[j] = emitted[j]
<1>1. [emitted[k] EXCEPT ![topic] = @ + 1] \in [Ledger!Topics -> Nat]
  OBVIOUS
<1>2. QED
  BY <1>1 DEF Ledger!Tell

LEMMA LedgerInvInit ==
  ASSUME AsyncKeys \subseteq Keys, Null \notin Ledger!Outcomes
  PROVE  Ledger!Init => LedgerInv
  BY DEF Ledger!Init, LedgerInv, Ledger!LedgerTypeOK, OutcomeOK, Ledger!ToldOnce, Ledger!OneInProgress,
         Ledger!InProgress, Ledger!Topics, Ledger!Outcomes, Ledger!Final

LEMMA LedgerInvStep ==
  ASSUME AsyncKeys \subseteq Keys, Null \notin Ledger!Outcomes, LedgerInv, [Ledger!Next]_Ledger!ledger
  PROVE  LedgerInv'
<1> USE DEF LedgerInv, Ledger!LedgerTypeOK, OutcomeOK, Ledger!Outcomes, Ledger!Final
<1>1. ASSUME NEW k \in Keys, Ledger!Accept(k) PROVE LedgerInv'
  <2>1. Ledger!LedgerTypeOK' /\ OutcomeOK'
    BY <1>1 DEF Ledger!Accept
  <2>2. Ledger!ToldOnce'
    BY <1>1 DEF Ledger!Accept, Ledger!ToldOnce
  <2>3. Ledger!OneInProgress'
    BY <1>1 DEF Ledger!Accept, Ledger!OneInProgress, Ledger!InProgress
  <2>4. QED
    BY <2>1, <2>2, <2>3
<1>2. ASSUME NEW k \in Keys, Ledger!RunAppears(k) PROVE LedgerInv'
  BY <1>2 DEF Ledger!RunAppears, Ledger!ToldOnce, Ledger!OneInProgress, Ledger!InProgress
<1>3. ASSUME NEW k \in Keys, Ledger!Succeed(k) PROVE LedgerInv'
  <2>1. Ledger!LedgerTypeOK' /\ OutcomeOK'
    BY <1>3, TellEffect DEF Ledger!Succeed, Ledger!Topics
  <2>2. Ledger!ToldOnce'
    BY <1>3, TellEffect DEF Ledger!Succeed, Ledger!ToldOnce, Ledger!Topics
  <2>3. Ledger!OneInProgress'
    BY <1>3 DEF Ledger!Succeed, Ledger!OneInProgress, Ledger!InProgress
  <2>4. QED
    BY <2>1, <2>2, <2>3
<1>4. ASSUME NEW k \in Keys, Ledger!Withdraw(k) PROVE LedgerInv'
  <2>1. Ledger!LedgerTypeOK' /\ OutcomeOK'
    BY <1>4, TellEffect DEF Ledger!Withdraw, Ledger!Topics
  <2>2. Ledger!ToldOnce'
    BY <1>4, TellEffect DEF Ledger!Withdraw, Ledger!ToldOnce, Ledger!Topics
  <2>3. Ledger!OneInProgress'
    BY <1>4 DEF Ledger!Withdraw, Ledger!OneInProgress, Ledger!InProgress
  <2>4. QED
    BY <2>1, <2>2, <2>3
<1>5. ASSUME NEW k \in Keys, NEW o \in Ledger!Outcomes, Ledger!Follow(k, o) PROVE LedgerInv'
  <2>1. Ledger!LedgerTypeOK' /\ OutcomeOK'
    BY <1>5, TellEffect DEF Ledger!Follow, Ledger!Topics
  <2>2. Ledger!ToldOnce'
    BY <1>5, TellEffect DEF Ledger!Follow, Ledger!ToldOnce, Ledger!Topics
  <2>3. Ledger!OneInProgress'
    BY <1>5 DEF Ledger!Follow, Ledger!OneInProgress, Ledger!InProgress
  <2>4. QED
    BY <2>1, <2>2, <2>3
<1>6. ASSUME NEW B \in SUBSET AsyncKeys, Ledger!GiveUp(B) PROVE LedgerInv'
  <2>1. Ledger!LedgerTypeOK' /\ OutcomeOK'
    BY <1>6 DEF Ledger!GiveUp
  <2>2. Ledger!ToldOnce'
    BY <1>6 DEF Ledger!GiveUp, Ledger!ToldOnce
  <2>3. Ledger!OneInProgress'
    BY <1>6 DEF Ledger!GiveUp, Ledger!OneInProgress, Ledger!InProgress
  <2>4. QED
    BY <2>1, <2>2, <2>3
<1>7. CASE UNCHANGED Ledger!ledger
  BY <1>7 DEF Ledger!ledger, Ledger!ToldOnce, Ledger!OneInProgress, Ledger!InProgress
<1>8. QED
  BY <1>1, <1>2, <1>3, <1>4, <1>5, <1>6, <1>7 DEF Ledger!Next

\* The ledger keeps its invariant: decisions are told once, pairs are exclusive.
THEOREM LedgerCorrect ==
  ASSUME AsyncKeys \subseteq Keys, Null \notin Ledger!Outcomes
  PROVE  Ledger!Spec => []LedgerInv
  BY LedgerInvInit, LedgerInvStep, PTL DEF Ledger!Spec

\* A step of the ledger never revises a decision.
LEMMA LedgerStepFinal ==
  ASSUME [Ledger!Next]_Ledger!ledger, NEW k \in Keys, Ledger!LedgerTypeOK
  PROVE  /\ Decided[k] \in {"succeeded", "dead", "cancelled"} => Decided'[k] = Decided[k]
         /\ runState[k] \in Ledger!Final => runState'[k] = runState[k]
  BY DEF Ledger!LedgerTypeOK, Ledger!Next, Ledger!ledger, Ledger!Accept, Ledger!RunAppears,
         Ledger!Succeed, Ledger!Withdraw, Ledger!GiveUp, Ledger!Follow

LEMMA LedgerInvHolds == Spec => []LedgerInv
<1>1. AsyncKeys \subseteq Keys /\ Null \notin Ledger!Outcomes
  BY ConstantsAssumption DEF Ledger!Outcomes
<1>2. Spec => Ledger!Spec
  BY Refinement, PTL DEF ImplementsLedger
<1>3. Ledger!Spec => []LedgerInv
  BY <1>1, LedgerCorrect
<1>4. QED
  BY <1>2, <1>3, PTL

\* The outbox tells each command's story exactly once.
THEOREM EventsCorrect == Spec => []EventsMatchRows
<1>1. Spec => []TypeInv
  BY TypeInvInit, TypeInvStep, PTL DEF Spec
<1>2. TypeInv /\ LedgerInv => EventsMatchRows
  <2> SUFFICES ASSUME TypeInv, LedgerInv, NEW k \in Keys
               PROVE  /\ emitted[k]["retrain.scheduled"] = IF state[k] = "succeeded" THEN 1 ELSE 0
                      /\ emitted[k]["operation.cancelled"] = IF state[k] = "cancelled" THEN 1 ELSE 0
                      /\ emitted[k]["retrain.run_ended"] = IF runState[k] \in RunTerminal THEN 1 ELSE 0
    BY DEF EventsMatchRows
  <2>1. /\ (Decided[k] = "succeeded") <=> (state[k] = "succeeded")
        /\ (Decided[k] = "cancelled") <=> (state[k] = "cancelled")
    BY DEF Decided
  <2>2. QED
    BY <2>1 DEF LedgerInv, Ledger!ToldOnce, Ledger!Final, RunTerminal
<1>3. QED
  BY <1>1, <1>2, LedgerInvHolds, PTL

\* Two asynchronous commands of one pair are never in progress together.
THEOREM ExclusiveCorrect == Spec => []ExclusivePair
<1>1. Spec => []TypeInv
  BY TypeInvInit, TypeInvStep, PTL DEF Spec
<1>2. TypeInv /\ LedgerInv => ExclusivePair
  <2> SUFFICES ASSUME TypeInv, LedgerInv PROVE ExclusivePair
    OBVIOUS
  <2>1. ASSUME NEW k \in AsyncKeys, Active(k) PROVE Ledger!InProgress(k)
    <3>1. k \in Keys
      BY ConstantsAssumption
    <3>2. CASE state[k] \in {"pending", "dispatching", "failed"}
      BY <3>1, <3>2 DEF Ledger!InProgress, Decided
    <3>3. CASE state[k] = "succeeded" /\ runState[k] \in {Null, "RUNNING"}
      BY <3>1, <3>3, ConstantsAssumption DEF Ledger!InProgress, Ledger!Final, Decided
    <3>4. QED
      BY <2>1, <3>2, <3>3 DEF Active
  <2>2. QED
    BY <2>1 DEF LedgerInv, Ledger!OneInProgress, ExclusivePair
<1>3. QED
  BY <1>1, <1>2, LedgerInvHolds, PTL

\* No late worker, caller, sweep or reconciler revises a settled command or run.
THEOREM TerminalCorrect == Spec => TerminalIsFinal
<1>1. Spec => [](TypeInv /\ ThreadInv)
  BY TypeInvInit, ThreadInvInit, TypeInvStep, ThreadInvStep, PTL DEF Spec
<1>2. TypeInv /\ TypeInv' /\ ThreadInv /\ LedgerInv /\ [Next]_vars =>
        [\A k \in Keys :
          /\ state[k] \in Terminal => state'[k] = state[k]
          /\ runState[k] \in RunTerminal => runState'[k] = runState[k]]_vars
  <2> SUFFICES ASSUME TypeInv, TypeInv', ThreadInv, LedgerInv, [Next]_vars, NEW k \in Keys
               PROVE  /\ state[k] \in Terminal => state'[k] = state[k]
                      /\ runState[k] \in RunTerminal => runState'[k] = runState[k]
    OBVIOUS
  <2>1. [Ledger!Next]_Ledger!ledger
    BY LedgerStep
  <2>3. /\ Decided[k] \in Terminal => Decided'[k] = Decided[k]
        /\ runState[k] \in RunTerminal => runState'[k] = runState[k]
    BY <2>1, LedgerStepFinal DEF LedgerInv, Terminal, RunTerminal, Ledger!Final
  <2>4. QED
    BY <2>3 DEF Decided, Terminal
<1>3. QED
  BY <1>1, <1>2, LedgerInvHolds, PTL DEF Spec, TerminalIsFinal

(***************************************************************************)
(* The fence: a claim has one holder.                                      *)
(***************************************************************************)

\* A step that starts no dispatch and lowers no attempt count keeps the fence.
LEMMA FenceKeep ==
  ASSUME TypeInv, TypeInv', FencedClaims,
         \A d \in Threads : Dispatching(d)' =>
            Dispatching(d) /\ job'[d] = job[d] /\ att'[d] = att[d],
         \A k \in Keys : attempts'[k] >= attempts[k]
  PROVE  FencedClaims'
<1>1. \A d, e \in Threads :
        Dispatching(d)' /\ Dispatching(e)' /\ job'[d] = job'[e] /\ att'[d] = att'[e] => d = e
  BY DEF FencedClaims
<1>2. ASSUME NEW d \in Threads, Dispatching(d)' PROVE att'[d] <= attempts'[job'[d]]
  <2>1. att[d] <= attempts[job[d]] /\ job'[d] = job[d] /\ att'[d] = att[d]
    BY <1>2 DEF FencedClaims
  <2>2. job[d] \in Keys
    BY <1>2 DEF TypeInv, JobOK, Dispatching
  <2>3. /\ att[d] \in Nat /\ attempts[job[d]] \in Nat /\ attempts'[job[d]] \in Nat
        /\ attempts'[job[d]] >= attempts[job[d]]
    BY <2>2 DEF TypeInv, TypeOK
  <2>4. QED
    BY <2>1, <2>3
<1>3. QED
  BY <1>1, <1>2 DEF FencedClaims

\* A claim takes an attempt number that no thread holds.
LEMMA FenceClaim ==
  ASSUME TypeInv, FencedClaims, NEW d \in Threads, NEW k \in Keys, ClaimWon(d, k)
  PROVE  FencedClaims'
<1> USE DEF TypeInv, TypeOK
<1>1. /\ pc'[d] = "claimed" /\ job'[d] = k /\ att'[d] = attempts[k] + 1
      /\ attempts'[k] = attempts[k] + 1
      /\ \A j \in Keys \ {k} : attempts'[j] = attempts[j]
  BY DEF ClaimWon, Goto, NextAttempt
<1>2. \A e \in Threads \ {d} :
        pc'[e] = pc[e] /\ job'[e] = job[e] /\ att'[e] = att[e]
  BY DEF ClaimWon, Goto
<1>3. \A e \in Threads : Dispatching(e) => job[e] \in Keys /\ att[e] <= attempts[job[e]]
  BY DEF FencedClaims, Dispatching, JobOK
<1>4. ASSUME NEW e \in Threads, Dispatching(e)' PROVE att'[e] <= attempts'[job'[e]]
  <2>1. CASE e = d
    BY <1>1, <2>1
  <2>2. CASE e # d
    <3>1. Dispatching(e)
      BY <1>2, <1>4, <2>2 DEF Dispatching
    <3>2. QED
      BY <1>1, <1>2, <1>3, <2>2, <3>1
  <2>3. QED
    BY <2>1, <2>2
<1>5. ASSUME NEW e \in Threads \ {d}, Dispatching(e)', job'[e] = k
      PROVE  att'[e] # att'[d]
  <2>1. Dispatching(e) /\ job[e] = k /\ att'[e] = att[e]
    BY <1>2, <1>5 DEF Dispatching
  <2>2. QED
    BY <1>1, <1>3, <2>1
<1>6. ASSUME NEW e \in Threads \ {d}, NEW f \in Threads \ {d},
             Dispatching(e)', Dispatching(f)', job'[e] = job'[f], att'[e] = att'[f]
      PROVE  e = f
  BY <1>2, <1>6 DEF FencedClaims, Dispatching
<1>7. QED
  BY <1>1, <1>4, <1>5, <1>6 DEF FencedClaims

LEMMA FenceLeave ==
  ASSUME TypeInv, TypeInv', FencedClaims,
         NEW d \in Threads, Leave(d), attempts' = attempts
  PROVE  FencedClaims'
<1>1. \A e \in Threads : Dispatching(e)' =>
        Dispatching(e) /\ job'[e] = job[e] /\ att'[e] = att[e]
  BY LeaveEffect DEF TypeInv, TypeOK, Dispatching
<1>2. \A k \in Keys : attempts'[k] >= attempts[k]
  BY DEF TypeInv, TypeOK
<1>3. QED
  BY <1>1, <1>2, FenceKeep

LEMMA FenceStep == TypeInv /\ TypeInv' /\ FencedClaims /\ [Next]_vars => FencedClaims'
<1> SUFFICES ASSUME TypeInv, TypeInv', FencedClaims, [Next]_vars PROVE FencedClaims'
  OBVIOUS
<1> USE DEF TypeInv, TypeOK
<1>1. ASSUME NEW k \in Keys, Submit(k) PROVE FencedClaims'
  BY <1>1, FenceKeep DEF Submit, Dispatching, rowVars, threadVars
<1>2. ASSUME NEW k \in Keys, Cancel(k) PROVE FencedClaims'
  BY <1>2, FenceKeep DEF Cancel, Dispatching, rowVars, threadVars
<1>3. ASSUME NEW d \in Threads, NEW k \in Keys, ClaimWon(d, k) PROVE FencedClaims'
  BY <1>3, FenceClaim
<1>4. ASSUME NEW d \in Threads, NEW k \in Keys, ClaimRefused(d, k) PROVE FencedClaims'
  BY <1>4, FenceLeave DEF ClaimRefused, Threads
<1>5. ASSUME NEW d \in Threads, NEW k \in Keys, ClaimLost(d, k) PROVE FencedClaims'
  BY <1>5, FenceLeave DEF ClaimLost, Threads
<1>6. ASSUME NEW d \in Threads, DispatchRefused(d) PROVE FencedClaims'
  BY <1>6, FenceKeep DEF DispatchRefused, Dispatching, rowVars, threadVars, Goto
<1>7. ASSUME NEW d \in Threads, Dispatch(d) PROVE FencedClaims'
  BY <1>7, FenceKeep DEF Dispatch, Dispatching, rowVars, threadVars, Goto
<1>8. ASSUME NEW d \in Threads, Answered(d) PROVE FencedClaims'
  BY <1>8, FenceKeep DEF Answered, Dispatching, rowVars, threadVars, Goto
<1>9. ASSUME NEW d \in Threads, Unanswered(d) PROVE FencedClaims'
  BY <1>9, FenceKeep DEF Unanswered, Dispatching, rowVars, threadVars, Goto
<1>10. ASSUME NEW d \in Threads, Complete(d) PROVE FencedClaims'
  BY <1>10, FenceLeave DEF Complete, Threads
<1>11. ASSUME NEW d \in Threads, CompleteFails(d) PROVE FencedClaims'
  BY <1>11, FenceKeep DEF CompleteFails, Dispatching, rowVars, threadVars, Goto
<1>12. ASSUME NEW d \in Threads, Fail(d) PROVE FencedClaims'
  BY <1>12, FenceKeep, LeaveEffect DEF Fail, Dispatching, rowVars, threadVars, Goto, AfterFail
<1>13. ASSUME NEW w \in Workers, MarkDead(w) PROVE FencedClaims'
  BY <1>13, FenceLeave DEF MarkDead, Threads
<1>14. ASSUME NEW k \in Keys, NoteOrphan(k) PROVE FencedClaims'
  BY <1>14, FenceKeep DEF NoteOrphan, Dispatching, rowVars, threadVars
<1>15. ASSUME NEW w \in Workers, StartCycle(w) PROVE FencedClaims'
  BY <1>15, FenceKeep DEF StartCycle, Dispatching, rowVars, threadVars
<1>16. ASSUME NEW c \in Callers, NEW k \in Keys, StartCall(c, k) PROVE FencedClaims'
  BY <1>16, FenceKeep DEF StartCall, Dispatching, rowVars, threadVars, Goto
<1>17. ASSUME NEW c \in Callers, Release(c) PROVE FencedClaims'
  BY <1>17, FenceKeep DEF Release, Dispatching, rowVars, threadVars, Goto
<1>18. ASSUME NEW w \in Workers, NEW k \in Keys, Poll(w, k) PROVE FencedClaims'
  BY <1>18, FenceKeep DEF Poll, Dispatching, rowVars, threadVars, Goto
<1>19. ASSUME NEW w \in Workers, Record(w) PROVE FencedClaims'
  BY <1>19, FenceLeave DEF Record, Threads
<1>20. ASSUME NEW k \in Keys, Land(k) PROVE FencedClaims'
  BY <1>20, FenceKeep DEF Land, Dispatching, rowVars, threadVars
<1>21. ASSUME NEW k \in Keys, Drop(k) PROVE FencedClaims'
  BY <1>21, FenceKeep DEF Drop, Dispatching, rowVars, threadVars
<1>22. ASSUME NEW k \in Keys, RunEnds(k) PROVE FencedClaims'
  BY <1>22, FenceKeep DEF RunEnds, Dispatching, rowVars, threadVars
<1>23. ASSUME NEW k \in Keys, RunForgotten(k) PROVE FencedClaims'
  BY <1>23, FenceKeep DEF RunForgotten, Dispatching, rowVars, threadVars
<1>24. ASSUME NEW k \in Keys, LeaseLapses(k) PROVE FencedClaims'
  BY <1>24, FenceKeep DEF LeaseLapses, Dispatching, rowVars, threadVars
<1>25. ASSUME NEW k \in Keys, BackoffElapses(k) PROVE FencedClaims'
  BY <1>25, FenceKeep DEF BackoffElapses, Dispatching, rowVars, threadVars
<1>26. ASSUME NEW p \in Pairs, LockLapses(p) PROVE FencedClaims'
  BY <1>26, FenceKeep DEF LockLapses, Dispatching, rowVars, threadVars
<1>27. ASSUME NEW d \in Threads, Crash(d) PROVE FencedClaims'
  BY <1>27, FenceKeep DEF Crash, Dispatching, rowVars, threadVars, Goto
<1>28. ASSUME NEW c \in Callers, CallAborts(c) PROVE FencedClaims'
  BY <1>28, FenceKeep DEF CallAborts, Dispatching, rowVars, threadVars, Goto
<1>29. CASE UNCHANGED vars
  BY <1>29, FenceKeep DEF vars, Dispatching, rowVars, threadVars
<1>30. QED
  BY <1>1, <1>2, <1>3, <1>4, <1>5, <1>6, <1>7, <1>8, <1>9, <1>10, <1>11,
     <1>12, <1>13, <1>14, <1>15, <1>16, <1>17, <1>18, <1>19, <1>20, <1>21,
     <1>22, <1>23, <1>24, <1>25, <1>26, <1>27, <1>28, <1>29
  DEF Next, ThreadStep, Claim, WorkerStep, CallerStep, Environment

\* A claim has at most one holder, however often leases lapse under live
\* dispatchers.
THEOREM FenceCorrect == Spec => []FencedClaims
<1>1. Init => FencedClaims
  BY DEF Init, FencedClaims, Dispatching
<1>2. QED
  BY <1>1, TypeInvInit, TypeInvStep, FenceStep, PTL DEF Spec


(***************************************************************************)
(* A burial is preceded by every attempt, and attempts end.                *)
(***************************************************************************)
Buried == \A k \in Keys : state[k] = "dead" => attempts[k] >= MaxAttempts
BuryInv ==
    /\ \A d \in Threads : pc[d] = "burying" => att[d] >= MaxAttempts
    /\ Buried

LEMMA BuryStep == TypeInv /\ BuryInv /\ [Next]_vars => BuryInv'
<1> SUFFICES ASSUME TypeInv, BuryInv, [Next]_vars PROVE BuryInv'
  OBVIOUS
<1> USE ConstantsAssumption
<1> USE DEF TypeInv, TypeOK, JobOK, BuryInv, Buried, Threads
<1>1. ASSUME NEW k \in Keys, Submit(k) PROVE BuryInv'
  BY <1>1 DEF Submit, rowVars, threadVars
<1>2. ASSUME NEW k \in Keys, Cancel(k) PROVE BuryInv'
  BY <1>2 DEF Cancel, rowVars, threadVars
<1>3. ASSUME NEW d \in Threads, NEW k \in Keys, ClaimWon(d, k) PROVE BuryInv'
  BY <1>3 DEF ClaimWon, rowVars, threadVars, Goto, NextAttempt
<1>4. ASSUME NEW d \in Threads, NEW k \in Keys, ClaimRefused(d, k) PROVE BuryInv'
  BY <1>4, LeaveEffect DEF ClaimRefused, rowVars, threadVars, Reclaimable, Abandoned
<1>5. ASSUME NEW d \in Threads, NEW k \in Keys, ClaimLost(d, k) PROVE BuryInv'
  BY <1>5, LeaveEffect DEF ClaimLost, rowVars, threadVars
<1>6. ASSUME NEW d \in Threads, DispatchRefused(d) PROVE BuryInv'
  BY <1>6 DEF DispatchRefused, rowVars, threadVars, Goto
<1>7. ASSUME NEW d \in Threads, Dispatch(d) PROVE BuryInv'
  BY <1>7 DEF Dispatch, rowVars, threadVars, Goto
<1>8. ASSUME NEW d \in Threads, Answered(d) PROVE BuryInv'
  BY <1>8 DEF Answered, rowVars, threadVars, Goto
<1>9. ASSUME NEW d \in Threads, Unanswered(d) PROVE BuryInv'
  BY <1>9 DEF Unanswered, rowVars, threadVars, Goto
<1>10. ASSUME NEW d \in Threads, Complete(d) PROVE BuryInv'
  BY <1>10, LeaveEffect DEF Complete, rowVars, threadVars
<1>11. ASSUME NEW d \in Threads, CompleteFails(d) PROVE BuryInv'
  BY <1>11 DEF CompleteFails, rowVars, threadVars, Goto
<1>12. ASSUME NEW d \in Threads, Fail(d) PROVE BuryInv'
  <2>1. /\ \A k \in Keys : state'[k] = "dead" => state[k] = "dead"
        /\ attempts' = attempts
    BY <1>12 DEF Fail
  <2>2. \/ Leave(d)
        \/ pc' = [pc EXCEPT ![d] = "burying"] /\ att' = att /\ att[d] >= MaxAttempts
    BY <1>12 DEF Fail, AfterFail, LastAttempt, Goto
  <2>3. \A e \in Threads : pc'[e] = "burying" => att'[e] >= MaxAttempts
    BY <2>2, LeaveEffect
  <2>4. QED
    BY <2>1, <2>3
<1>13. ASSUME NEW w \in Workers, MarkDead(w) PROVE BuryInv'
  <2>1. att[w] >= MaxAttempts /\ attempts' = attempts
    BY <1>13 DEF MarkDead
  <2>2. \A k \in Keys : state'[k] = "dead" => state[k] = "dead" \/ attempts[k] = att[w]
    BY <1>13 DEF MarkDead
  <2>3. \A e \in Threads : pc'[e] = "burying" => att'[e] >= MaxAttempts
    BY <1>13, LeaveEffect DEF MarkDead
  <2>4. QED
    BY <2>1, <2>2, <2>3
<1>14. ASSUME NEW k \in Keys, NoteOrphan(k) PROVE BuryInv'
  BY <1>14 DEF NoteOrphan, rowVars, threadVars
<1>15. ASSUME NEW w \in Workers, StartCycle(w) PROVE BuryInv'
  BY <1>15 DEF StartCycle, rowVars, threadVars, SweptState, Abandoned
<1>16. ASSUME NEW c \in Callers, NEW k \in Keys, StartCall(c, k) PROVE BuryInv'
  BY <1>16 DEF StartCall, rowVars, threadVars, Goto
<1>17. ASSUME NEW c \in Callers, Release(c) PROVE BuryInv'
  BY <1>17 DEF Release, rowVars, threadVars, Goto
<1>18. ASSUME NEW w \in Workers, NEW k \in Keys, Poll(w, k) PROVE BuryInv'
  BY <1>18 DEF Poll, rowVars, threadVars, Goto
<1>19. ASSUME NEW w \in Workers, Record(w) PROVE BuryInv'
  BY <1>19, LeaveEffect DEF Record, rowVars, threadVars
<1>20. ASSUME NEW k \in Keys, Land(k) PROVE BuryInv'
  BY <1>20 DEF Land, rowVars, threadVars
<1>21. ASSUME NEW k \in Keys, Drop(k) PROVE BuryInv'
  BY <1>21 DEF Drop, rowVars, threadVars
<1>22. ASSUME NEW k \in Keys, RunEnds(k) PROVE BuryInv'
  BY <1>22 DEF RunEnds, rowVars, threadVars
<1>23. ASSUME NEW k \in Keys, RunForgotten(k) PROVE BuryInv'
  BY <1>23 DEF RunForgotten, rowVars, threadVars
<1>24. ASSUME NEW k \in Keys, LeaseLapses(k) PROVE BuryInv'
  BY <1>24 DEF LeaseLapses, rowVars, threadVars
<1>25. ASSUME NEW k \in Keys, BackoffElapses(k) PROVE BuryInv'
  BY <1>25 DEF BackoffElapses, rowVars, threadVars
<1>26. ASSUME NEW p \in Pairs, LockLapses(p) PROVE BuryInv'
  BY <1>26 DEF LockLapses, rowVars, threadVars
<1>27. ASSUME NEW d \in Threads, Crash(d) PROVE BuryInv'
  BY <1>27 DEF Crash, rowVars, threadVars, Goto
<1>28. ASSUME NEW c \in Callers, CallAborts(c) PROVE BuryInv'
  BY <1>28 DEF CallAborts, rowVars, threadVars, Goto
<1>29. CASE UNCHANGED vars
  BY <1>29 DEF vars, rowVars, threadVars
<1>30. QED
  BY <1>1, <1>2, <1>3, <1>4, <1>5, <1>6, <1>7, <1>8, <1>9, <1>10, <1>11,
     <1>12, <1>13, <1>14, <1>15, <1>16, <1>17, <1>18, <1>19, <1>20, <1>21,
     <1>22, <1>23, <1>24, <1>25, <1>26, <1>27, <1>28, <1>29
  DEF Next, ThreadStep, Claim, WorkerStep, CallerStep, Environment

\* The claims of k that may follow are those of the workers that have selected
\* it and, while it is open to selection, one of every worker.
Burying(w, k) == pc[w] = "burying" /\ job[w] = k /\ att[w] = attempts[k]
Open(k) == state[k] = "failed" /\ ~(k \in cooling /\ \E w \in Workers : Burying(w, k))
Claimants(k) == IF Open(k) THEN Workers ELSE {w \in Workers : k \in todo[w]}

\* Past the limit, each claim uses up a claimant; a fault brings all of them back.
EndOf(f) == MaxAttempts + Cardinality(Workers) * (f + 1) - 1
Ends(k) == attempts[k] >= MaxAttempts => attempts[k] + Cardinality(Claimants(k)) <= EndOf(faults)
AsyncByWorkers ==
    /\ \A c \in Callers : job[c] \notin AsyncKeys
    /\ \A k \in AsyncKeys : state[k] \in {"none", "pending"} => attempts[k] = 0
EndInv == AsyncByWorkers /\ \A k \in AsyncKeys : Ends(k)

LEMMA ClaimantsCount ==
  ASSUME NEW k
  PROVE  /\ IsFiniteSet(Claimants(k)) /\ Cardinality(Claimants(k)) \in Nat
         /\ Cardinality(Claimants(k)) <= Cardinality(Workers) /\ Cardinality(Workers) \in Nat
<1>1. Claimants(k) \subseteq Workers
  BY DEF Claimants
<1>2. QED
  BY <1>1, ConstantsAssumption, FS_Subset, FS_CardinalityType

LEMMA EndGrows ==
  ASSUME NEW f \in Nat
  PROVE  /\ EndOf(f) \in Int /\ EndOf(f + 1) = EndOf(f) + Cardinality(Workers)
         /\ EndOf(f) >= MaxAttempts + Cardinality(Workers) - 1
<1> DEFINE n == Cardinality(Workers)
<1>1. n \in Nat /\ MaxAttempts \in Nat
  BY ConstantsAssumption, FS_CardinalityType
<1> HIDE DEF n
<1>2. n * f \in Nat /\ n * (f + 1) = n * f + n /\ n * (f + 1 + 1) = n * f + n + n
  BY <1>1
<1>3. QED
  BY <1>1, <1>2 DEF EndOf, n

\* A step that claims nothing keeps the bound, unless it opens k or has it
\* selected; and a fault makes up for that.
LEMMA EndsKeep ==
  ASSUME TypeInv, NEW k \in AsyncKeys, Ends(k), attempts'[k] = attempts[k],
         \/ /\ faults' = faults
            /\ attempts[k] >= MaxAttempts =>
                 /\ Open(k)' => Open(k)
                 /\ \A w \in Workers : k \in todo'[w] => k \in todo[w] \/ Open(k)
         \/ faults' = faults + 1
  PROVE  Ends(k)'
<1> SUFFICES ASSUME attempts[k] >= MaxAttempts
             PROVE  attempts[k] + Cardinality(Claimants(k)') <= EndOf(faults')
  BY DEF Ends
<1>1. faults \in Nat /\ attempts[k] \in Nat
  BY ConstantsAssumption DEF TypeInv, TypeOK
<1>2. attempts[k] + Cardinality(Claimants(k)) <= EndOf(faults)
  BY DEF Ends
<1>3. Claimants(k)' \subseteq Workers
  BY DEF Claimants
<1>4. Cardinality(Claimants(k)') \in Nat /\ Cardinality(Claimants(k)') <= Cardinality(Workers)
  BY <1>3, ConstantsAssumption, FS_Subset, FS_CardinalityType
<1>5. CASE faults' = faults + 1
  BY <1>1, <1>2, <1>4, <1>5, ClaimantsCount, EndGrows
<1>6. CASE faults' = faults /\ (Open(k)' => Open(k))
           /\ \A w \in Workers : k \in todo'[w] => k \in todo[w] \/ Open(k)
  <2>1. Claimants(k)' \subseteq Claimants(k)
    BY <1>3, <1>6 DEF Claimants
  <2>2. Cardinality(Claimants(k)') <= Cardinality(Claimants(k))
    BY <2>1, ClaimantsCount, FS_Subset
  <2>3. QED
    BY <1>1, <1>2, <1>4, <1>6, <2>2, ClaimantsCount, EndGrows
<1>7. QED
  BY <1>5, <1>6

\* Whoever buries k goes on to, and nothing else changes that counts for k.
Untouched(k) ==
    /\ attempts'[k] = attempts[k] /\ faults' \in {faults, faults + 1}
    /\ state'[k] = "failed" => state[k] = "failed"
    /\ k \in cooling => k \in cooling'
    /\ \A w \in Workers : Burying(w, k) => Burying(w, k)'
    /\ \A w \in Workers : k \in todo'[w] => k \in todo[w]

LEMMA EndsUntouched ==
  ASSUME TypeInv, NEW k \in AsyncKeys, Ends(k), Untouched(k)
  PROVE  Ends(k)'
<1>1. Open(k)' => Open(k)
  BY DEF Open, Untouched
<1>2. QED
  BY <1>1, EndsKeep DEF Untouched

\* A claim of k uses up a claimant.
LEMMA EndsClaim ==
  ASSUME TypeInv, EndInv, NEW d \in Threads, NEW k \in Keys, ClaimWon(d, k), k \in AsyncKeys
  PROVE  Ends(k)'
<1>1. d \in Workers /\ k \in todo[d]
  BY DEF EndInv, AsyncByWorkers, ClaimWon, Claiming, Threads, TypeInv, TypeOK
<1>2. /\ attempts'[k] = attempts[k] + 1 /\ state'[k] = "dispatching" /\ faults' = faults
      /\ \A w \in Workers : todo'[w] = IF w = d THEN todo[w] \ {k} ELSE todo[w]
  BY DEF ClaimWon, NextAttempt, Taken, TypeInv, TypeOK, bounds
<1>3. Claimants(k)' = {w \in Workers : k \in todo[w]} \ {d}
  BY <1>2 DEF Claimants, Open
<1>4. faults \in Nat /\ attempts[k] \in Nat /\ MaxAttempts \in Nat
  BY ConstantsAssumption DEF TypeInv, TypeOK
<1>5. CASE attempts[k] >= MaxAttempts
  <2>1. Claimants(k)' \subseteq Claimants(k) \ {d} /\ d \in Claimants(k)
    BY <1>1, <1>3 DEF Claimants
  <2>2. /\ IsFiniteSet(Claimants(k) \ {d})
        /\ Cardinality(Claimants(k) \ {d}) = Cardinality(Claimants(k)) - 1
    BY <2>1, ClaimantsCount, FS_RemoveElement
  <2>3. Cardinality(Claimants(k)') <= Cardinality(Claimants(k)) - 1 /\ Cardinality(Claimants(k)') \in Nat
    BY <2>1, <2>2, FS_Subset, FS_CardinalityType
  <2>4. attempts[k] + Cardinality(Claimants(k)) <= EndOf(faults)
    BY <1>5 DEF EndInv, Ends
  <2>5. QED
    BY <1>2, <1>4, <2>3, <2>4, ClaimantsCount, EndGrows DEF Ends
<1>6. CASE attempts[k] < MaxAttempts
  <2>1. Claimants(k)' \subseteq Workers \ {d}
    BY <1>3
  <2>2. IsFiniteSet(Workers \ {d}) /\ Cardinality(Workers \ {d}) = Cardinality(Workers) - 1
    BY <1>1, ConstantsAssumption, FS_RemoveElement
  <2>3. Cardinality(Claimants(k)') <= Cardinality(Workers) - 1 /\ Cardinality(Claimants(k)') \in Nat
    BY <2>1, <2>2, FS_Subset, FS_CardinalityType
  <2>4. EndOf(faults') \in Int /\ EndOf(faults') >= MaxAttempts + Cardinality(Workers) - 1
    BY <1>2, <1>4, EndGrows
  <2>5. attempts'[k] + Cardinality(Claimants(k)') <= EndOf(faults')
    BY <1>2, <1>4, <1>6, <2>3, <2>4, ClaimantsCount
  <2>6. QED
    BY <2>5 DEF Ends
<1>7. QED
  BY <1>4, <1>5, <1>6

LEMMA AsyncStep == TypeInv /\ AsyncByWorkers /\ [Next]_vars => AsyncByWorkers'
<1> SUFFICES ASSUME TypeInv, AsyncByWorkers, [Next]_vars PROVE AsyncByWorkers'
  OBVIOUS
<1> USE ConstantsAssumption
<1> USE DEF TypeInv, TypeOK, AsyncByWorkers, Threads
<1>1. ASSUME NEW k \in Keys, Submit(k) PROVE AsyncByWorkers'
  BY <1>1 DEF Submit, rowVars, threadVars
<1>2. ASSUME NEW k \in Keys, Cancel(k) PROVE AsyncByWorkers'
  BY <1>2 DEF Cancel, rowVars, threadVars
<1>3. ASSUME NEW d \in Threads, NEW k \in Keys, ClaimWon(d, k) PROVE AsyncByWorkers'
  BY <1>3 DEF ClaimWon, rowVars, threadVars, Claiming
<1>4. ASSUME NEW d \in Threads, NEW k \in Keys, ClaimRefused(d, k) PROVE AsyncByWorkers'
  BY <1>4 DEF ClaimRefused, rowVars, threadVars, Leave, Reclaimable, Abandoned
<1>5. ASSUME NEW d \in Threads, NEW k \in Keys, ClaimLost(d, k) PROVE AsyncByWorkers'
  BY <1>5 DEF ClaimLost, rowVars, threadVars, Leave
<1>6. ASSUME NEW d \in Threads, DispatchRefused(d) PROVE AsyncByWorkers'
  BY <1>6 DEF DispatchRefused, rowVars, threadVars
<1>7. ASSUME NEW d \in Threads, Dispatch(d) PROVE AsyncByWorkers'
  BY <1>7 DEF Dispatch, rowVars, threadVars
<1>8. ASSUME NEW d \in Threads, Answered(d) PROVE AsyncByWorkers'
  BY <1>8 DEF Answered, rowVars, threadVars
<1>9. ASSUME NEW d \in Threads, Unanswered(d) PROVE AsyncByWorkers'
  BY <1>9 DEF Unanswered, rowVars, threadVars
<1>10. ASSUME NEW d \in Threads, Complete(d) PROVE AsyncByWorkers'
  BY <1>10 DEF Complete, rowVars, threadVars, Leave
<1>11. ASSUME NEW d \in Threads, CompleteFails(d) PROVE AsyncByWorkers'
  BY <1>11 DEF CompleteFails, rowVars, threadVars
<1>12. ASSUME NEW d \in Threads, Fail(d) PROVE AsyncByWorkers'
  BY <1>12 DEF Fail, rowVars, threadVars, Leave, AfterFail
<1>13. ASSUME NEW w \in Workers, MarkDead(w) PROVE AsyncByWorkers'
  BY <1>13 DEF MarkDead, rowVars, threadVars, Leave
<1>14. ASSUME NEW k \in Keys, NoteOrphan(k) PROVE AsyncByWorkers'
  BY <1>14 DEF NoteOrphan, rowVars, threadVars
<1>15. ASSUME NEW w \in Workers, StartCycle(w) PROVE AsyncByWorkers'
  BY <1>15 DEF StartCycle, rowVars, threadVars, SweptState, Abandoned
<1>16. ASSUME NEW c \in Callers, NEW k \in Keys, StartCall(c, k) PROVE AsyncByWorkers'
  BY <1>16 DEF StartCall, rowVars, threadVars, SyncKeys
<1>17. ASSUME NEW c \in Callers, Release(c) PROVE AsyncByWorkers'
  BY <1>17 DEF Release, rowVars, threadVars
<1>18. ASSUME NEW w \in Workers, NEW k \in Keys, Poll(w, k) PROVE AsyncByWorkers'
  BY <1>18 DEF Poll, rowVars, threadVars
<1>19. ASSUME NEW w \in Workers, Record(w) PROVE AsyncByWorkers'
  BY <1>19 DEF Record, rowVars, threadVars, Leave
<1>20. ASSUME NEW k \in Keys, Land(k) PROVE AsyncByWorkers'
  BY <1>20 DEF Land, rowVars, threadVars
<1>21. ASSUME NEW k \in Keys, Drop(k) PROVE AsyncByWorkers'
  BY <1>21 DEF Drop, rowVars, threadVars
<1>22. ASSUME NEW k \in Keys, RunEnds(k) PROVE AsyncByWorkers'
  BY <1>22 DEF RunEnds, rowVars, threadVars
<1>23. ASSUME NEW k \in Keys, RunForgotten(k) PROVE AsyncByWorkers'
  BY <1>23 DEF RunForgotten, rowVars, threadVars
<1>24. ASSUME NEW k \in Keys, LeaseLapses(k) PROVE AsyncByWorkers'
  BY <1>24 DEF LeaseLapses, rowVars, threadVars
<1>25. ASSUME NEW k \in Keys, BackoffElapses(k) PROVE AsyncByWorkers'
  BY <1>25 DEF BackoffElapses, rowVars, threadVars
<1>26. ASSUME NEW p \in Pairs, LockLapses(p) PROVE AsyncByWorkers'
  BY <1>26 DEF LockLapses, rowVars, threadVars
<1>27. ASSUME NEW d \in Threads, Crash(d) PROVE AsyncByWorkers'
  BY <1>27 DEF Crash, rowVars, threadVars
<1>28. ASSUME NEW c \in Callers, CallAborts(c) PROVE AsyncByWorkers'
  BY <1>28 DEF CallAborts, rowVars, threadVars
<1>29. CASE UNCHANGED vars
  BY <1>29 DEF vars, rowVars, threadVars
<1>30. QED
  BY <1>1, <1>2, <1>3, <1>4, <1>5, <1>6, <1>7, <1>8, <1>9, <1>10, <1>11,
     <1>12, <1>13, <1>14, <1>15, <1>16, <1>17, <1>18, <1>19, <1>20,
     <1>21, <1>22, <1>23, <1>24, <1>25, <1>26, <1>27, <1>28, <1>29
  DEF Next, ThreadStep, Claim, WorkerStep, CallerStep, Environment

\* Of one command, whoever steps.
LEMMA EndStep ==
  ASSUME TypeInv, TypeInv', EndInv, BuryInv, [Next]_vars, NEW j \in AsyncKeys
  PROVE  Ends(j)'
<1>a. j \in Keys /\ Ends(j)
  BY ConstantsAssumption DEF EndInv
<1>b. Untouched(j) => Ends(j)'
  BY <1>a, EndsUntouched
<1> USE ConstantsAssumption, <1>a
<1> USE DEF TypeInv, TypeOK, Threads
<1>1. ASSUME NEW k \in Keys, Submit(k) PROVE Ends(j)'
  BY <1>1, <1>b DEF Submit, Untouched, Burying, rowVars, threadVars, bounds
<1>2. ASSUME NEW k \in Keys, Cancel(k) PROVE Ends(j)'
  <2>1. CASE k = j
    <3>1. UNCHANGED <<faults, attempts, todo>> /\ ~Open(j)'
      BY <1>2, <2>1 DEF Cancel, Open, bounds, threadVars
    <3>2. QED
      BY <3>1, EndsKeep
  <2>2. CASE k # j
    BY <1>2, <1>b, <2>2 DEF Cancel, Untouched, Burying, threadVars, bounds
  <2>3. QED
    BY <2>1, <2>2
<1>3. ASSUME NEW d \in Threads, NEW k \in Keys, ClaimWon(d, k) PROVE Ends(j)'
  <2>1. CASE k = j
    BY <1>3, <2>1, EndsClaim
  <2>2. CASE k # j
    <3>1. /\ UNCHANGED faults
          /\ state'[j] = state[j] /\ attempts'[j] = attempts[j] /\ (j \in cooling => j \in cooling')
      BY <1>3, <2>2 DEF ClaimWon, bounds
    <3>2. pc[d] # "burying"
      BY <1>3 DEF ClaimWon, Claiming
    <3>3. /\ \A w \in Workers : Burying(w, j) => Burying(w, j)'
          /\ \A w \in Workers : j \in todo'[w] => j \in todo[w]
      BY <1>3, <3>1, <3>2 DEF ClaimWon, Burying, Goto, Taken
    <3>4. QED
      BY <1>b, <3>1, <3>3 DEF Untouched
  <2>3. QED
    BY <2>1, <2>2
<1>4. ASSUME NEW d \in Threads, NEW k \in Keys, ClaimRefused(d, k) PROVE Ends(j)'
  <2>1. /\ UNCHANGED <<faults, cooling>> /\ (state'[j] = "failed" => state[j] = "failed")
        /\ attempts'[j] = attempts[j]
    BY <1>4 DEF ClaimRefused, bounds
  <2>2. pc[d] # "burying"
    BY <1>4 DEF ClaimRefused, Claiming
  <2>3. \A w \in Workers : Burying(w, j) => Burying(w, j)'
    BY <1>4, <2>1, <2>2, LeaveEffect DEF ClaimRefused, Burying
  <2>4. \A w \in Workers : j \in todo'[w] => j \in todo[w]
    BY <1>4 DEF ClaimRefused, Taken
  <2>5. QED
    BY <1>b, <2>1, <2>3, <2>4 DEF Untouched
<1>5. ASSUME NEW d \in Threads, NEW k \in Keys, ClaimLost(d, k) PROVE Ends(j)'
  <2>1. /\ UNCHANGED <<faults, cooling>> /\ (state'[j] = "failed" => state[j] = "failed")
        /\ attempts'[j] = attempts[j]
    BY <1>5 DEF ClaimLost, bounds
  <2>2. pc[d] # "burying"
    BY <1>5 DEF ClaimLost, Claiming
  <2>3. \A w \in Workers : Burying(w, j) => Burying(w, j)'
    BY <1>5, <2>1, <2>2, LeaveEffect DEF ClaimLost, Burying
  <2>4. \A w \in Workers : j \in todo'[w] => j \in todo[w]
    BY <1>5 DEF ClaimLost, Taken
  <2>5. QED
    BY <1>b, <2>1, <2>3, <2>4 DEF Untouched
<1>6. ASSUME NEW d \in Threads, DispatchRefused(d) PROVE Ends(j)'
  BY <1>6, <1>b DEF DispatchRefused, Untouched, Burying, rowVars, threadVars, bounds, Goto
<1>7. ASSUME NEW d \in Threads, Dispatch(d) PROVE Ends(j)'
  BY <1>7, <1>b DEF Dispatch, Untouched, Burying, rowVars, threadVars, bounds, Goto
<1>8. ASSUME NEW d \in Threads, Answered(d) PROVE Ends(j)'
  BY <1>8, <1>b DEF Answered, Untouched, Burying, rowVars, threadVars, bounds, Goto
<1>9. ASSUME NEW d \in Threads, Unanswered(d) PROVE Ends(j)'
  BY <1>9, <1>b DEF Unanswered, Untouched, Burying, rowVars, threadVars, bounds, Goto
<1>10. ASSUME NEW d \in Threads, Complete(d) PROVE Ends(j)'
  <2>1. /\ UNCHANGED <<faults, cooling, todo>> /\ (state'[j] = "failed" => state[j] = "failed")
        /\ attempts'[j] = attempts[j]
    BY <1>10 DEF Complete, bounds
  <2>2. \A w \in Workers : Burying(w, j) => Burying(w, j)'
    BY <1>10, <2>1, LeaveEffect DEF Complete, Burying
  <2>3. QED
    BY <1>b, <2>1, <2>2 DEF Untouched
<1>11. ASSUME NEW d \in Threads, CompleteFails(d) PROVE Ends(j)'
  BY <1>11, <1>b DEF CompleteFails, Untouched, Burying, rowVars, threadVars, bounds, Goto
<1>12. ASSUME NEW d \in Threads, Fail(d) PROVE Ends(j)'
  <2>1. UNCHANGED <<faults, todo, attempts>> /\ pc[d] = "failing"
    BY <1>12 DEF Fail, bounds
  <2>2. CASE job[d] = j /\ Fenced(d)
    <3>1. attempts[j] >= MaxAttempts => Burying(d, j)' /\ d \in Workers
      BY <1>12, <2>1, <2>2 DEF Fail, AfterFail, LastAttempt, Goto, Burying, Fenced, EndInv, AsyncByWorkers
    <3>2. j \in cooling'
      BY <1>12, <2>2 DEF Fail
    <3>3. attempts[j] >= MaxAttempts => ~Open(j)'
      BY <3>1, <3>2 DEF Open
    <3>4. QED
      BY <2>1, <3>3, EndsKeep
  <2>3. CASE ~(job[d] = j /\ Fenced(d))
    <3>1. state'[j] = state[j] /\ (j \in cooling => j \in cooling')
      BY <1>12, <2>3 DEF Fail
    <3>2. \/ Leave(d)
          \/ pc' = [pc EXCEPT ![d] = "burying"] /\ UNCHANGED <<job, att>>
      BY <1>12 DEF Fail, AfterFail, Goto
    <3>3. \A w \in Workers : Burying(w, j) => Burying(w, j)'
      BY <2>1, <3>2, LeaveEffect DEF Burying
    <3>4. QED
      BY <1>b, <2>1, <3>1, <3>3 DEF Untouched
  <2>4. QED
    BY <2>2, <2>3
<1>13. ASSUME NEW w \in Workers, MarkDead(w) PROVE Ends(j)'
  <2>1. UNCHANGED <<faults, todo, attempts>>
    BY <1>13 DEF MarkDead, bounds
  <2>2. CASE Burying(w, j)
    <3>1. state'[j] # "failed"
      BY <1>13, <2>2 DEF MarkDead, Burying
    <3>2. ~Open(j)'
      BY <3>1 DEF Open
    <3>3. QED
      BY <2>1, <3>2, EndsKeep
  <2>3. CASE ~Burying(w, j)
    <3>1. state'[j] = state[j] /\ (j \in cooling => j \in cooling')
      BY <1>13, <2>3 DEF MarkDead, Burying
    <3>2. \A v \in Workers : Burying(v, j) => Burying(v, j)'
      BY <1>13, <2>1, <2>3, LeaveEffect DEF MarkDead, Burying
    <3>3. QED
      BY <1>b, <2>1, <3>1, <3>2 DEF Untouched
  <2>4. QED
    BY <2>2, <2>3
<1>14. ASSUME NEW k \in Keys, NoteOrphan(k) PROVE Ends(j)'
  BY <1>14, <1>b DEF NoteOrphan, Untouched, Burying, rowVars, threadVars, bounds
<1>15. ASSUME NEW w \in Workers, StartCycle(w) PROVE Ends(j)'
  <2>1. UNCHANGED <<faults, attempts, cooling, pc, job, att>> /\ (state'[j] = "failed" => state[j] = "failed")
    BY <1>15 DEF StartCycle, SweptState, bounds, Abandoned, SyncKeys
  <2>2. Open(j)' => Open(j)
    BY <2>1 DEF Open, Burying
  <2>3. ASSUME NEW v \in Workers, j \in todo'[v], j \notin todo[v], attempts[j] >= MaxAttempts
        PROVE  Open(j)
    <3>1. Due(j) /\ SweptState(j) # "dead"
      BY <1>15, <2>3 DEF StartCycle
    <3>2. state[j] = "failed" /\ j \notin cooling
      BY <2>3, <3>1 DEF Due, SweptState, SyncKeys, Abandoned, EndInv, AsyncByWorkers
    <3>3. QED
      BY <3>2 DEF Open
  <2>4. QED
    BY <2>1, <2>2, <2>3, EndsKeep
<1>16. ASSUME NEW c \in Callers, NEW k \in Keys, StartCall(c, k) PROVE Ends(j)'
  BY <1>16, <1>b DEF StartCall, Untouched, Burying, rowVars, threadVars, bounds, Goto
<1>17. ASSUME NEW c \in Callers, Release(c) PROVE Ends(j)'
  BY <1>17, <1>b DEF Release, Untouched, Burying, rowVars, threadVars, bounds, Goto
<1>18. ASSUME NEW w \in Workers, NEW k \in Keys, Poll(w, k) PROVE Ends(j)'
  BY <1>18, <1>b DEF Poll, Untouched, Burying, rowVars, threadVars, bounds, Goto
<1>19. ASSUME NEW w \in Workers, Record(w) PROVE Ends(j)'
  <2>1. /\ UNCHANGED <<faults, cooling, todo>> /\ (state'[j] = "failed" => state[j] = "failed")
        /\ attempts'[j] = attempts[j]
    BY <1>19 DEF Record, bounds
  <2>2. \A v \in Workers : Burying(v, j) => Burying(v, j)'
    BY <1>19, <2>1, LeaveEffect DEF Record, Burying
  <2>3. QED
    BY <1>b, <2>1, <2>2 DEF Untouched
<1>20. ASSUME NEW k \in Keys, Land(k) PROVE Ends(j)'
  BY <1>20, <1>b DEF Land, Untouched, Burying, rowVars, threadVars, bounds
<1>21. ASSUME NEW k \in Keys, Drop(k) PROVE Ends(j)'
  BY <1>21, <1>b DEF Drop, Untouched, Burying, rowVars, threadVars, bounds
<1>22. ASSUME NEW k \in Keys, RunEnds(k) PROVE Ends(j)'
  BY <1>22, <1>b DEF RunEnds, Untouched, Burying, rowVars, threadVars, bounds
<1>23. ASSUME NEW k \in Keys, RunForgotten(k) PROVE Ends(j)'
  BY <1>23, <1>b DEF RunForgotten, Untouched, Burying, rowVars, threadVars, bounds
<1>24. ASSUME NEW k \in Keys, LeaseLapses(k) PROVE Ends(j)'
  BY <1>24, <1>b DEF LeaseLapses, Untouched, Burying, rowVars, threadVars, bounds, UseFault
<1>25. ASSUME NEW k \in Keys, BackoffElapses(k) PROVE Ends(j)'
  <2>1. UNCHANGED <<state, attempts, pc, job, att, todo>> /\ faults' \in {faults, faults + 1}
    BY <1>25 DEF BackoffElapses, UseFault, threadVars
  <2>2. CASE k # j
    <3>1. j \in cooling => j \in cooling'
      BY <1>25, <2>2 DEF BackoffElapses
    <3>2. QED
      BY <1>b, <2>1, <3>1 DEF Untouched, Burying
  <2>3. CASE k = j /\ HasHolder(k)
    <3>1. faults' = faults + 1
      BY <1>25, <2>3 DEF BackoffElapses, UseFault
    <3>2. QED
      BY <2>1, <3>1, EndsKeep
  <2>4. CASE k = j /\ ~HasHolder(k)
    <3>1. faults' = faults
      BY <1>25, <2>4 DEF BackoffElapses, UseFault
    <3>2. \A w \in Workers : ~Burying(w, j)
      BY <2>4 DEF HasHolder, Holds, Burying
    <3>3. Open(j)' => Open(j)
      BY <2>1, <3>2 DEF Open
    <3>4. QED
      BY <2>1, <3>1, <3>3, EndsKeep
  <2>5. QED
    BY <2>2, <2>3, <2>4
<1>26. ASSUME NEW p \in Pairs, LockLapses(p) PROVE Ends(j)'
  BY <1>26, <1>b DEF LockLapses, Untouched, Burying, rowVars, threadVars, bounds, UseFault
<1>27. ASSUME NEW d \in Threads, Crash(d) PROVE Ends(j)'
  <2>1. faults' = faults + 1 /\ attempts' = attempts
    BY <1>27 DEF Crash, UseFault, rowVars
  <2>2. QED
    BY <2>1, EndsKeep
<1>28. ASSUME NEW c \in Callers, CallAborts(c) PROVE Ends(j)'
  BY <1>28, <1>b DEF CallAborts, Untouched, Burying, rowVars, threadVars, bounds, Goto, UseFault
<1>29. CASE UNCHANGED vars
  BY <1>29, <1>b DEF vars, Untouched, Burying, rowVars, threadVars, bounds
<1>30. QED
  BY <1>1, <1>2, <1>3, <1>4, <1>5, <1>6, <1>7, <1>8, <1>9, <1>10, <1>11,
     <1>12, <1>13, <1>14, <1>15, <1>16, <1>17, <1>18, <1>19, <1>20,
     <1>21, <1>22, <1>23, <1>24, <1>25, <1>26, <1>27, <1>28, <1>29
  DEF Next, ThreadStep, Claim, WorkerStep, CallerStep, Environment

\* A command is buried only after all its attempts were claimed, and claims
\* past the limit come to an end.
THEOREM AttemptsCorrect == Spec => []AttemptsEnd
<1>1. Init => BuryInv /\ EndInv
  <2> SUFFICES ASSUME Init PROVE BuryInv /\ EndInv
    OBVIOUS
  <2>1. \A k \in Keys : state[k] = "none" /\ attempts[k] = 0
    BY DEF Init
  <2>2. BuryInv /\ \A c \in Callers : job[c] = Null
    BY <2>1 DEF Init, BuryInv, Buried, Threads
  <2>3. \A k \in AsyncKeys : Ends(k)
    BY <2>1, ConstantsAssumption DEF Ends
  <2>4. QED
    BY <2>1, <2>2, <2>3, ConstantsAssumption DEF EndInv, AsyncByWorkers
<1>2. TypeInv /\ TypeInv' /\ BuryInv /\ EndInv /\ [Next]_vars => EndInv'
  BY AsyncStep, EndStep DEF EndInv
<1>3. TypeInv /\ BuryInv /\ EndInv => AttemptsEnd
  <2> SUFFICES ASSUME TypeInv, BuryInv, EndInv PROVE AttemptsEnd
    OBVIOUS
  <2>1. ASSUME NEW k \in AsyncKeys PROVE attempts[k] <= EndOf(faults)
    <3>1. attempts[k] \in Nat /\ MaxAttempts \in Nat /\ faults \in Nat
      BY ConstantsAssumption DEF TypeInv, TypeOK
    <3>2. Ends(k)
      BY DEF EndInv
    <3>3. Cardinality(Workers) \in Nat /\ Cardinality(Claimants(k)) \in Nat
      BY ClaimantsCount
    <3>4. EndOf(faults) \in Int /\ EndOf(faults) >= MaxAttempts + Cardinality(Workers) - 1
      BY <3>1, EndGrows
    <3>5. QED
      BY <3>1, <3>2, <3>3, <3>4 DEF Ends
  <2>2. QED
    BY <2>1 DEF AttemptsEnd, BuryInv, Buried, EndOf
<1>4. QED
  BY <1>1, <1>2, <1>3, TypeInvInit, TypeInvStep, BuryStep, PTL DEF Spec


(***************************************************************************)
(* Admission: the slots are those of the live claims, and within the caps. *)
(***************************************************************************)
LEMMA SlotsStep == TypeInv /\ SlotsFollowClaims /\ [Next]_vars => SlotsFollowClaims'
<1> SUFFICES ASSUME TypeInv, SlotsFollowClaims, [Next]_vars PROVE SlotsFollowClaims'
  OBVIOUS
<1> USE ConstantsAssumption
<1> USE DEF TypeInv, TypeOK, JobOK, SlotsFollowClaims
<1>1. ASSUME NEW k \in Keys, Submit(k) PROVE SlotsFollowClaims'
  BY <1>1 DEF Submit, rowVars
<1>2. ASSUME NEW k \in Keys, Cancel(k) PROVE SlotsFollowClaims'
  BY <1>2 DEF Cancel, rowVars
<1>3. ASSUME NEW d \in Threads, NEW k \in Keys, ClaimWon(d, k) PROVE SlotsFollowClaims'
  BY <1>3 DEF ClaimWon, rowVars, Released, Abandoned
<1>4. ASSUME NEW d \in Threads, NEW k \in Keys, ClaimRefused(d, k) PROVE SlotsFollowClaims'
  BY <1>4 DEF ClaimRefused, rowVars, Released, Reclaimable, Abandoned
<1>5. ASSUME NEW d \in Threads, NEW k \in Keys, ClaimLost(d, k) PROVE SlotsFollowClaims'
  BY <1>5 DEF ClaimLost, rowVars
<1>6. ASSUME NEW d \in Threads, DispatchRefused(d) PROVE SlotsFollowClaims'
  BY <1>6 DEF DispatchRefused, rowVars
<1>7. ASSUME NEW d \in Threads, Dispatch(d) PROVE SlotsFollowClaims'
  BY <1>7 DEF Dispatch, rowVars
<1>8. ASSUME NEW d \in Threads, Answered(d) PROVE SlotsFollowClaims'
  BY <1>8 DEF Answered, rowVars
<1>9. ASSUME NEW d \in Threads, Unanswered(d) PROVE SlotsFollowClaims'
  BY <1>9 DEF Unanswered, rowVars
<1>10. ASSUME NEW d \in Threads, Complete(d) PROVE SlotsFollowClaims'
  BY <1>10 DEF Complete, rowVars, Fenced
<1>11. ASSUME NEW d \in Threads, CompleteFails(d) PROVE SlotsFollowClaims'
  BY <1>11 DEF CompleteFails, rowVars
<1>12. ASSUME NEW d \in Threads, Fail(d) PROVE SlotsFollowClaims'
  <2>1. CASE UNCHANGED <<state, adm, lapsed>>
    BY <2>1
  <2>2. CASE /\ state' = [state EXCEPT ![job[d]] = "failed"]
             /\ adm' = [adm EXCEPT ![job[d]] = "failed"]
             /\ lapsed' = lapsed \ {job[d]}
    BY <2>2
  <2>3. QED
    BY <1>12, <2>1, <2>2 DEF Fail
<1>13. ASSUME NEW w \in Workers, MarkDead(w) PROVE SlotsFollowClaims'
  BY <1>13 DEF MarkDead, rowVars
<1>14. ASSUME NEW k \in Keys, NoteOrphan(k) PROVE SlotsFollowClaims'
  BY <1>14 DEF NoteOrphan, rowVars
<1>15. ASSUME NEW w \in Workers, StartCycle(w) PROVE SlotsFollowClaims'
  BY <1>15 DEF StartCycle, rowVars, Released, SweptState, Abandoned
<1>16. ASSUME NEW c \in Callers, NEW k \in Keys, StartCall(c, k) PROVE SlotsFollowClaims'
  BY <1>16 DEF StartCall, rowVars
<1>17. ASSUME NEW c \in Callers, Release(c) PROVE SlotsFollowClaims'
  BY <1>17 DEF Release, rowVars
<1>18. ASSUME NEW w \in Workers, NEW k \in Keys, Poll(w, k) PROVE SlotsFollowClaims'
  BY <1>18 DEF Poll, rowVars
<1>19. ASSUME NEW w \in Workers, Record(w) PROVE SlotsFollowClaims'
  BY <1>19 DEF Record, rowVars
<1>20. ASSUME NEW k \in Keys, Land(k) PROVE SlotsFollowClaims'
  BY <1>20 DEF Land, rowVars
<1>21. ASSUME NEW k \in Keys, Drop(k) PROVE SlotsFollowClaims'
  BY <1>21 DEF Drop, rowVars
<1>22. ASSUME NEW k \in Keys, RunEnds(k) PROVE SlotsFollowClaims'
  BY <1>22 DEF RunEnds, rowVars
<1>23. ASSUME NEW k \in Keys, RunForgotten(k) PROVE SlotsFollowClaims'
  BY <1>23 DEF RunForgotten, rowVars
<1>24. ASSUME NEW k \in Keys, LeaseLapses(k) PROVE SlotsFollowClaims'
  BY <1>24 DEF LeaseLapses, rowVars
<1>25. ASSUME NEW k \in Keys, BackoffElapses(k) PROVE SlotsFollowClaims'
  BY <1>25 DEF BackoffElapses, rowVars
<1>26. ASSUME NEW p \in Pairs, LockLapses(p) PROVE SlotsFollowClaims'
  BY <1>26 DEF LockLapses, rowVars
<1>27. ASSUME NEW d \in Threads, Crash(d) PROVE SlotsFollowClaims'
  BY <1>27 DEF Crash, rowVars
<1>28. ASSUME NEW c \in Callers, CallAborts(c) PROVE SlotsFollowClaims'
  BY <1>28 DEF CallAborts, rowVars
<1>29. CASE UNCHANGED vars
  BY <1>29 DEF vars, rowVars
<1>30. QED
  BY <1>1, <1>2, <1>3, <1>4, <1>5, <1>6, <1>7, <1>8, <1>9, <1>10, <1>11,
     <1>12, <1>13, <1>14, <1>15, <1>16, <1>17, <1>18, <1>19, <1>20, <1>21,
     <1>22, <1>23, <1>24, <1>25, <1>26, <1>27, <1>28, <1>29
  DEF Next, ThreadStep, Claim, WorkerStep, CallerStep, Environment

\* A slot is held exactly by a live claim: none leaks, none is missing.
THEOREM SlotsCorrect == Spec => []SlotsFollowClaims
<1>1. Init => SlotsFollowClaims
  BY DEF Init, SlotsFollowClaims
<1>2. QED
  BY <1>1, TypeInvInit, TypeInvStep, SlotsStep, PTL DEF Spec


\* The running rows of one tenant.
RunningOf(rows, t) == {j \in RunningRows(rows) : TenantOf[j] = t}

LEMMA RunningFinite ==
  ASSUME NEW rows, NEW t
  PROVE  /\ IsFiniteSet(RunningRows(rows)) /\ Cardinality(RunningRows(rows)) \in Nat
         /\ IsFiniteSet(RunningOf(rows, t)) /\ Cardinality(RunningOf(rows, t)) \in Nat
<1>1. IsFiniteSet(RunningRows(rows)) /\ IsFiniteSet(RunningOf(rows, t))
  BY ConstantsAssumption, FS_Subset DEF RunningRows, RunningOf
<1>2. QED
  BY <1>1, FS_CardinalityType

\* A set grows by at most one when one element is added.
LEMMA AddOne ==
  ASSUME NEW S, IsFiniteSet(S), NEW x
  PROVE  Cardinality(S \cup {x}) \in Nat /\ Cardinality(S \cup {x}) <= Cardinality(S) + 1
<1>1. Cardinality(S) \in Nat
  BY FS_CardinalityType
<1>2. Cardinality(S \cup {x}) = IF x \in S THEN Cardinality(S) ELSE Cardinality(S) + 1
  BY FS_AddElement
<1>3. QED
  BY <1>1, <1>2

\* With no row more than before, the caps still hold.
LEMMA CapsKeep ==
  ASSUME CapsHold, RunningRows(adm') \subseteq RunningRows(adm)
  PROVE  CapsHold'
<1>1. Cardinality(RunningRows(adm')) <= Cardinality(RunningRows(adm))
  BY RunningFinite, FS_Subset
<1>2. ASSUME NEW k \in Keys
      PROVE  Cardinality(RunningOf(adm', TenantOf[k])) <= Cardinality(RunningOf(adm, TenantOf[k]))
  <2>1. RunningOf(adm', TenantOf[k]) \subseteq RunningOf(adm, TenantOf[k])
    BY DEF RunningOf
  <2>2. QED
    BY <2>1, RunningFinite, FS_Subset
<1>3. Cardinality(RunningRows(adm')) <= MaxRunning
  <2>1. Cardinality(RunningRows(adm)) <= MaxRunning
    BY DEF CapsHold
  <2>2. Cardinality(RunningRows(adm)) \in Nat /\ Cardinality(RunningRows(adm')) \in Nat
    BY RunningFinite
  <2>3. QED
    BY <1>1, <2>1, <2>2, ConstantsAssumption
<1>4. ASSUME NEW k \in Keys
      PROVE  Cardinality(RunningOf(adm', TenantOf[k])) <= PerTenantCap
  <2> DEFINE now  == Cardinality(RunningOf(adm, TenantOf[k]))
             next == Cardinality(RunningOf(adm', TenantOf[k]))
  <2>1. now <= PerTenantCap
    BY DEF CapsHold, RunningOf
  <2>2. now \in Nat /\ next \in Nat
    BY RunningFinite
  <2>3. next <= now
    BY <1>2
  <2> HIDE DEF now, next
  <2>4. next <= PerTenantCap
    BY <2>1, <2>2, <2>3, ConstantsAssumption
  <2>5. QED
    BY <2>4 DEF next
<1>5. QED
  BY <1>3, <1>4 DEF CapsHold, RunningOf

\* The claim that is admitted adds one row, where there was room for one.
LEMMA CapsClaim ==
  ASSUME TypeInv, CapsHold, NEW d \in Threads, NEW k \in Keys, ClaimWon(d, k)
  PROVE  CapsHold'
<1> DEFINE t == TenantOf[k]
<1>1. RunningRows(adm') = RunningRows(Released) \cup {k}
  BY DEF ClaimWon, RunningRows, Released
<1>2. RunningRows(Released) \subseteq RunningRows(adm)
  BY DEF RunningRows, Released
<1>3. Cardinality(RunningRows(adm')) <= MaxRunning
  <2> DEFINE n == Cardinality(RunningRows(Released))
             m == Cardinality(RunningRows(Released) \cup {k})
  <2>1. n \in Nat /\ m \in Nat /\ m <= n + 1
    BY RunningFinite, AddOne
  <2>2. n < MaxRunning
    BY DEF ClaimWon, HasCapacity
  <2> HIDE DEF n, m
  <2>3. m <= MaxRunning
    BY <2>1, <2>2, ConstantsAssumption
  <2>4. QED
    BY <1>1, <2>3 DEF m
<1>4. ASSUME NEW j \in Keys PROVE Cardinality(RunningOf(adm', TenantOf[j])) <= PerTenantCap
  <2>1. CASE TenantOf[j] = t
    <3>1. RunningOf(adm', t) = RunningOf(Released, t) \cup {k}
      BY <1>1 DEF RunningOf
    <3> DEFINE n == Cardinality(RunningOf(Released, t))
               m == Cardinality(RunningOf(Released, t) \cup {k})
    <3>2. n \in Nat /\ m \in Nat /\ m <= n + 1
      BY RunningFinite, AddOne
    <3>3. n < PerTenantCap
      BY DEF ClaimWon, HasCapacity, RunningOf
    <3> HIDE DEF n, m
    <3>4. m <= PerTenantCap
      BY <3>2, <3>3, ConstantsAssumption
    <3>5. QED
      BY <2>1, <3>1, <3>4 DEF m
  <2>2. CASE TenantOf[j] # t
    <3>1. RunningOf(adm', TenantOf[j]) \subseteq RunningOf(adm, TenantOf[j])
      BY <1>1, <1>2, <2>2 DEF RunningOf
    <3> DEFINE n == Cardinality(RunningOf(adm, TenantOf[j]))
               m == Cardinality(RunningOf(adm', TenantOf[j]))
    <3>2. n \in Nat /\ m \in Nat /\ m <= n
      BY <3>1, RunningFinite, FS_Subset
    <3>3. n <= PerTenantCap
      BY DEF CapsHold, RunningOf
    <3> HIDE DEF n, m
    <3>4. m <= PerTenantCap
      BY <3>2, <3>3, ConstantsAssumption
    <3>5. QED
      BY <3>4 DEF m
  <2>3. QED
    BY <2>1, <2>2
<1>5. QED
  BY <1>3, <1>4 DEF CapsHold, RunningOf

LEMMA CapsStep == TypeInv /\ CapsHold /\ [Next]_vars => CapsHold'
<1> SUFFICES ASSUME TypeInv, CapsHold, [Next]_vars PROVE CapsHold'
  OBVIOUS
<1>1. CASE \E d \in Threads, k \in Keys : ClaimWon(d, k)
  BY <1>1, CapsClaim
<1>2. CASE ~\E d \in Threads, k \in Keys : ClaimWon(d, k)
  <2>1. RunningRows(adm') \subseteq RunningRows(adm)
    <3>1. ASSUME NEW d \in Threads, NEW k \in Keys, ClaimRefused(d, k) \/ ClaimLost(d, k)
          PROVE  RunningRows(adm') \subseteq RunningRows(adm)
      BY <3>1 DEF TypeInv, TypeOK, RunningRows, ClaimRefused, ClaimLost, Released
    <3>2. ASSUME NEW d \in Threads, Complete(d) \/ Fail(d)
          PROVE  RunningRows(adm') \subseteq RunningRows(adm)
      BY <3>2 DEF TypeInv, TypeOK, RunningRows, Complete, Fail
    <3>3. ASSUME NEW w \in Workers, StartCycle(w)
          PROVE  RunningRows(adm') \subseteq RunningRows(adm)
      BY <3>3 DEF TypeInv, TypeOK, RunningRows, StartCycle, Released
    <3>4. ASSUME NEW k \in Keys,
                 \/ Submit(k) \/ Cancel(k) \/ NoteOrphan(k) \/ Land(k) \/ Drop(k)
                 \/ RunEnds(k) \/ RunForgotten(k) \/ LeaseLapses(k) \/ BackoffElapses(k)
          PROVE  adm' = adm
      BY <3>4 DEF Submit, Cancel, NoteOrphan, Land, Drop, RunEnds, RunForgotten,
                  LeaseLapses, BackoffElapses, rowVars
    <3>5. ASSUME NEW d \in Threads,
                 \/ DispatchRefused(d) \/ Dispatch(d) \/ Answered(d) \/ Unanswered(d)
                 \/ CompleteFails(d) \/ Crash(d)
          PROVE  adm' = adm
      BY <3>5 DEF DispatchRefused, Dispatch, Answered, Unanswered, CompleteFails, Crash, rowVars
    <3>6. ASSUME NEW d \in Threads, MarkDead(d) \/ Record(d) \/ Release(d) \/ CallAborts(d)
          PROVE  adm' = adm
      BY <3>6 DEF MarkDead, Record, Release, CallAborts, rowVars
    <3>7. ASSUME NEW d \in Threads, NEW k \in Keys, Poll(d, k) \/ StartCall(d, k)
          PROVE  adm' = adm
      BY <3>7 DEF Poll, StartCall, rowVars
    <3>8. ASSUME NEW p \in Pairs, LockLapses(p) PROVE adm' = adm
      BY <3>8 DEF LockLapses, rowVars
    <3>9. CASE UNCHANGED vars
      BY <3>9 DEF vars, rowVars
    <3>10. QED
      BY <1>2, <3>1, <3>2, <3>3, <3>4, <3>5, <3>6, <3>7, <3>8, <3>9
      DEF Next, ThreadStep, Claim, WorkerStep, CallerStep, Environment, Threads
  <2>2. QED
    BY <2>1, CapsKeep
<1>3. QED
  BY <1>1, <1>2

\* The caps of the platform and of each tenant hold at every moment.
THEOREM CapsCorrect == Spec => []CapsHold
<1>1. Init => CapsHold
  <2> SUFFICES ASSUME Init PROVE CapsHold
    OBVIOUS
  <2>1. RunningRows(adm) = {} /\ \A t : RunningOf(adm, t) = {}
    BY DEF Init, RunningRows, RunningOf
  <2>2. QED
    BY <2>1, FS_EmptySet, ConstantsAssumption DEF CapsHold, RunningOf
<1>2. QED
  BY <1>1, TypeInvInit, TypeInvStep, CapsStep, PTL DEF Spec

(***************************************************************************)
(* Calls of POST /retrain for one pair.                                    *)
(***************************************************************************)

\* The callers in a call for pair p, and whether one of them has its lock.
InCall(p) == {c \in Callers : pc[c] # "idle" /\ PairOf[job[c]] = p}
Locked(p) == IF retrainLock[p] \in InCall(p) THEN 1 ELSE 0

\* One call has the lock; each further one outlived a lock that ran out.
Calls(p) == IsFiniteSet(InCall(p)) /\ Cardinality(InCall(p)) <= faults + Locked(p)
CallInv == \A p \in Pairs : Calls(p)

\* Two calls retrain one pair at a time only after a timer ran out on a live
\* caller, and each further call took a fault of its own.
CallsOverlapOnFaults == \A p \in Pairs : Cardinality(InCall(p)) <= 1 + faults

LEMMA CallTypes ==
  ASSUME TypeInv
  PROVE  /\ faults \in Nat /\ \A p : Locked(p) \in {0, 1}
         /\ \A p : IsFiniteSet(InCall(p)) => Cardinality(InCall(p)) \in Nat
<1>1. faults \in Nat
  BY ConstantsAssumption DEF TypeInv, TypeOK
<1>2. QED
  BY <1>1, FS_CardinalityType DEF Locked

\* No call joins, and the lock is as it was.
LEMMA CallsKept ==
  ASSUME TypeInv, TypeInv', NEW p, Calls(p), InCall(p)' = InCall(p),
         retrainLock' = retrainLock, faults' \in {faults, faults + 1}
  PROVE  Calls(p)'
<1>1. Locked(p)' = Locked(p)
  BY DEF Locked
<1>2. faults \in Nat /\ Locked(p) \in {0, 1} /\ Cardinality(InCall(p)) \in Nat
  BY CallTypes DEF Calls
<1>3. Cardinality(InCall(p)) <= faults' + Locked(p)
  BY <1>2 DEF Calls
<1>4. QED
  BY <1>1, <1>3 DEF Calls

\* A caller leaves: with the lock, without it, or by dying.
LEMMA CallsLeft ==
  ASSUME TypeInv, TypeInv', NEW p, Calls(p), NEW c, InCall(p)' = InCall(p) \ {c},
         \/ faults' = faults + 1 /\ retrainLock'[p] = retrainLock[p]
         \/ faults' = faults /\ retrainLock'[p] = retrainLock[p] /\ retrainLock[p] # c
         \/ faults' = faults /\ retrainLock[p] = c
  PROVE  Calls(p)'
<1>1. IsFiniteSet(InCall(p)) /\ IsFiniteSet(InCall(p)')
  BY FS_RemoveElement DEF Calls
<1>2. /\ Cardinality(InCall(p)') \in Nat /\ Cardinality(InCall(p)) \in Nat
      /\ faults \in Nat /\ faults' \in Nat /\ Locked(p) \in {0, 1} /\ Locked(p)' \in {0, 1}
  <2>1. faults' \in Nat
    BY ConstantsAssumption DEF TypeInv, TypeOK
  <2>2. Cardinality(InCall(p)') \in Nat
    BY <1>1, FS_CardinalityType
  <2>3. QED
    BY <1>1, <2>1, <2>2, CallTypes DEF Locked
<1>3. IF c \in InCall(p) THEN Cardinality(InCall(p)') = Cardinality(InCall(p)) - 1
                         ELSE Cardinality(InCall(p)') = Cardinality(InCall(p))
  <2>1. c \notin InCall(p) => InCall(p)' = InCall(p)
    OBVIOUS
  <2>2. c \in InCall(p) => Cardinality(InCall(p) \ {c}) = Cardinality(InCall(p)) - 1
    BY FS_RemoveElement DEF Calls
  <2>3. QED
    BY <2>1, <2>2
<1>4. retrainLock'[p] = retrainLock[p] /\ retrainLock[p] # c => Locked(p)' = Locked(p)
  BY DEF Locked
<1>5. retrainLock[p] = c => Locked(p) = IF c \in InCall(p) THEN 1 ELSE 0
  BY DEF Locked
<1>6. Cardinality(InCall(p)) <= faults + Locked(p)
  BY DEF Calls
<1>7. Cardinality(InCall(p)') <= faults' + Locked(p)'
  <2>1. CASE retrainLock[p] = c
    <3>1. c \in InCall(p) => Cardinality(InCall(p)') <= faults
      BY <1>2, <1>3, <1>5, <1>6, <2>1
    <3>2. c \notin InCall(p) => Cardinality(InCall(p)') <= faults
      BY <1>2, <1>3, <1>5, <1>6, <2>1
    <3>3. QED
      BY <1>2, <3>1, <3>2
  <2>2. CASE retrainLock[p] # c
    <3>1. Locked(p)' = Locked(p)
      BY <1>4, <2>2
    <3>2. Cardinality(InCall(p)') <= Cardinality(InCall(p))
      BY <1>2, <1>3
    <3>3. QED
      BY <1>2, <1>6, <2>2, <3>1, <3>2
  <2>3. QED
    BY <2>1, <2>2
<1>8. QED
  BY <1>1, <1>7 DEF Calls

\* A call is let in where the lock was free, and has it.
LEMMA CallsJoined ==
  ASSUME TypeInv, TypeInv', NEW p, Calls(p), NEW c, InCall(p)' = InCall(p) \cup {c},
         c \notin InCall(p), retrainLock[p] \notin InCall(p), retrainLock'[p] = c, faults' = faults
  PROVE  Calls(p)'
<1>1. Locked(p) = 0 /\ Locked(p)' = 1
  BY DEF Locked
<1>2. IsFiniteSet(InCall(p)') /\ Cardinality(InCall(p)') = Cardinality(InCall(p)) + 1
  BY FS_AddElement DEF Calls
<1>3. faults \in Nat /\ Cardinality(InCall(p)) \in Nat
  BY CallTypes DEF Calls
<1>4. QED
  BY <1>1, <1>2, <1>3 DEF Calls

\* The lock runs out: on a caller at work it takes a fault.
LEMMA CallsUnlocked ==
  ASSUME TypeInv, TypeInv', NEW p, Calls(p), InCall(p)' = InCall(p),
         faults' = faults + 1 \/ (faults' = faults /\ Locked(p) = 0)
  PROVE  Calls(p)'
<1>1. /\ faults \in Nat /\ Locked(p) \in {0, 1} /\ Locked(p)' \in {0, 1}
      /\ Cardinality(InCall(p)) \in Nat
  <2>1. Locked(p)' \in {0, 1}
    BY DEF Locked
  <2>2. QED
    BY <2>1, CallTypes DEF Calls
<1>2. Cardinality(InCall(p)) <= faults'
  BY <1>1 DEF Calls
<1>3. faults' \in Nat
  BY ConstantsAssumption DEF TypeInv, TypeOK
<1>4. Cardinality(InCall(p)) <= faults' + Locked(p)'
  BY <1>1, <1>2, <1>3
<1>5. QED
  BY <1>4 DEF Calls

\* A caller leaves its call through Release or Crash only, and enters it
\* through StartCall; in between it keeps its command.
LEMMA CallersKept ==
  ASSUME TypeInv, [Next]_vars,
         ~\E c \in Callers : Release(c) \/ Crash(c) \/ \E k \in Keys : StartCall(c, k)
  PROVE  \A p : InCall(p)' = InCall(p)
<1> USE ConstantsAssumption
<1> DEFINE Same == \A c \in Callers :
                      (pc'[c] # "idle" <=> pc[c] # "idle") /\ (pc[c] # "idle" => job'[c] = job[c])
<1>t. /\ pc \in [Threads -> ControlPoints] /\ job \in [Threads -> Keys \cup {Null}]
      /\ att \in [Threads -> Nat] /\ Callers \subseteq Threads /\ Workers \subseteq Threads
      /\ Workers \cap Callers = {}
  BY DEF TypeInv, TypeOK, Threads
<1>1. ASSUME NEW d \in Threads, Leave(d), d \in Callers => pc[d] # "idle" PROVE Same
  BY <1>t, <1>1, LeaveEffect
<1>2. ASSUME NEW d \in Threads, NEW point \in ControlPoints, Goto(d, point), job' = job,
             pc[d] # "idle", point # "idle"
      PROVE  Same
  BY <1>t, <1>2 DEF Goto
<1>3. ASSUME NEW d \in Threads, NEW k \in Keys, Claim(d, k) PROVE Same
  <2>1. d \in Callers => pc[d] # "idle" /\ k = job[d]
    BY <1>t, <1>3 DEF Claim, ClaimWon, ClaimRefused, ClaimLost, Claiming
  <2>2. CASE ClaimWon(d, k)
    BY <1>t, <2>1, <2>2 DEF ClaimWon, Goto
  <2>3. CASE Leave(d)
    BY <1>1, <2>1, <2>3
  <2>4. QED
    BY <1>3, <2>2, <2>3 DEF Claim, ClaimRefused, ClaimLost
<1>4. ASSUME NEW d \in Threads, Complete(d) PROVE Same
  BY <1>1, <1>4 DEF Complete
<1>5. ASSUME NEW d \in Threads, Fail(d) PROVE Same
  <2>1. pc[d] = "failing"
    BY <1>5 DEF Fail
  <2>2. Leave(d) \/ (Goto(d, "burying") /\ job' = job)
    BY <1>5 DEF Fail, AfterFail
  <2>3. QED
    BY <1>1, <1>2, <2>1, <2>2 DEF ControlPoints
<1>6. ASSUME NEW d \in Threads,
             \/ DispatchRefused(d) \/ Dispatch(d) \/ Answered(d) \/ Unanswered(d) \/ CompleteFails(d)
      PROVE  Same
  <2>1. pc[d] # "idle" /\ job' = job /\ \E point \in {"failing", "sent", "answered"} : Goto(d, point)
    BY <1>6 DEF DispatchRefused, Dispatch, Answered, Unanswered, CompleteFails
  <2>2. QED
    BY <1>2, <2>1 DEF ControlPoints
<1>7. ASSUME NEW c \in Callers, CallAborts(c) PROVE Same
  BY <1>t, <1>2, <1>7 DEF CallAborts, ControlPoints
<1>8. ASSUME NEW w \in Workers, MarkDead(w) \/ Record(w) PROVE Same
  BY <1>t, <1>1, <1>8 DEF MarkDead, Record
<1>9. ASSUME NEW w \in Workers, NEW k \in Keys, Poll(w, k) PROVE Same
  BY <1>t, <1>9 DEF Poll, Goto
<1>10. ASSUME NEW w \in Workers, Crash(w) PROVE Same
  BY <1>t, <1>10 DEF Crash, Goto
<1>11. ASSUME pc' = pc, job' = job PROVE Same
  BY <1>11
<1>12. Same
  BY <1>3, <1>4, <1>5, <1>6, <1>7, <1>8, <1>9, <1>10, <1>11
  DEF Next, ThreadStep, WorkerStep, CallerStep, Environment, vars, threadVars, Threads,
      StartCycle, Submit, Cancel, NoteOrphan, Land, Drop, RunEnds, RunForgotten,
      LeaseLapses, BackoffElapses, LockLapses
<1> HIDE DEF Same
<1>13. ASSUME NEW p PROVE InCall(p)' = InCall(p)
  BY <1>12 DEF InCall, Same
<1>14. QED
  BY <1>13

\* Who writes the lock, and what the others do to the bound.
LEMMA LockWriters ==
  ASSUME [Next]_vars
  PROVE  \/ retrainLock' = retrainLock /\ faults' \in {faults, faults + 1}
         \/ \E c \in Callers : Release(c) \/ \E k \in Keys : StartCall(c, k)
         \/ \E p \in Pairs : LockLapses(p)
  BY DEF Next, ThreadStep, Claim, WorkerStep, CallerStep, Environment, vars, bounds, UseFault,
         ClaimWon, ClaimRefused, ClaimLost, DispatchRefused, Dispatch, Answered, Unanswered,
         Complete, CompleteFails, Fail, MarkDead, Record, Poll, StartCycle, CallAborts, Submit,
         Cancel, NoteOrphan, Land, Drop, RunEnds, RunForgotten, LeaseLapses, BackoffElapses, Crash

LEMMA CallStep ==
  ASSUME TypeInv, TypeInv', CallInv, [Next]_vars
  PROVE  CallInv'
<1> USE ConstantsAssumption
<1>t. /\ pc \in [Threads -> ControlPoints] /\ job \in [Threads -> Keys \cup {Null}]
      /\ retrainLock \in [Pairs -> Callers \cup {Null}] /\ Callers \subseteq Threads
      /\ Null \notin Callers
      /\ \A c \in Callers : pc[c] # "idle" => job[c] \in Keys
  BY DEF TypeInv, TypeOK, JobOK, Threads
<1> SUFFICES ASSUME NEW p \in Pairs PROVE Calls(p)'
  BY DEF CallInv
<1>0. Calls(p)
  BY DEF CallInv
<1>1. ASSUME NEW c \in Callers, NEW k \in Keys, StartCall(c, k) PROVE Calls(p)'
  <2>1. /\ pc[c] = "idle" /\ retrainLock[PairOf[k]] = Null /\ faults' = faults
        /\ retrainLock' = [retrainLock EXCEPT ![PairOf[k]] = c]
        /\ pc' = [pc EXCEPT ![c] = "locked"] /\ job' = [job EXCEPT ![c] = k]
    BY <1>1 DEF StartCall, Goto
  <2>2. CASE PairOf[k] = p
    <3>1. InCall(p)' = InCall(p) \cup {c}
      BY <1>t, <2>1, <2>2 DEF InCall
    <3>2. c \notin InCall(p) /\ retrainLock[p] \notin InCall(p) /\ retrainLock'[p] = c
      BY <1>t, <2>1, <2>2 DEF InCall
    <3>3. QED
      BY <1>0, <2>1, <3>1, <3>2, CallsJoined
  <2>3. CASE PairOf[k] # p
    <3>1. InCall(p)' = InCall(p) \ {c}
      BY <1>t, <2>1, <2>3 DEF InCall
    <3>2. retrainLock'[p] = retrainLock[p] /\ c \notin InCall(p)
      BY <1>t, <2>1, <2>3 DEF InCall
    <3>3. QED
      BY <1>0, <2>1, <3>1, <3>2, CallsLeft
  <2>4. QED
    BY <2>2, <2>3
<1>2. ASSUME NEW c \in Callers, Release(c) PROVE Calls(p)'
  <2>1. /\ pc[c] # "idle" /\ job[c] \in Keys /\ faults' = faults
        /\ pc' = [pc EXCEPT ![c] = "idle"] /\ job' = [job EXCEPT ![c] = Null]
    BY <1>t, <1>2 DEF Release, Goto, bounds
  <2>2. retrainLock' = [retrainLock EXCEPT ![PairOf[job[c]]] = IF @ = c THEN Null ELSE @]
    BY <1>2 DEF Release
  <2>3. InCall(p)' = InCall(p) \ {c}
    BY <1>t, <2>1 DEF InCall
  <2>4. retrainLock[p] = c \/ retrainLock'[p] = retrainLock[p]
    BY <1>t, <2>1, <2>2 DEF Pairs
  <2>5. QED
    BY <1>0, <2>1, <2>3, <2>4, CallsLeft
<1>3. ASSUME NEW c \in Callers, Crash(c) PROVE Calls(p)'
  <2>1. InCall(p)' = InCall(p) \ {c}
    BY <1>t, <1>3 DEF Crash, Goto, InCall
  <2>2. faults' = faults + 1 /\ retrainLock' = retrainLock
    BY <1>3 DEF Crash, UseFault
  <2>3. QED
    BY <1>0, <2>1, <2>2, CallsLeft
<1>4. ASSUME NEW q \in Pairs, LockLapses(q) PROVE Calls(p)'
  <2>1. InCall(p)' = InCall(p)
    BY <1>4 DEF LockLapses, threadVars, InCall
  <2>2. retrainLock' = [retrainLock EXCEPT ![q] = Null]
    BY <1>4 DEF LockLapses
  <2>3. CASE q = p
    <3>1. retrainLock[q] \in InCall(q) => job[retrainLock[q]] # Null /\ PairOf[job[retrainLock[q]]] = q
      BY <1>t DEF InCall
    <3>2. faults' = faults + 1 \/ (faults' = faults /\ Locked(p) = 0)
      BY <1>4, <2>3, <3>1 DEF LockLapses, UseFault, Locked
    <3>3. QED
      BY <1>0, <2>1, <3>2, CallsUnlocked
  <2>4. CASE q # p
    <3>1. retrainLock'[p] = retrainLock[p]
      BY <1>t, <2>2, <2>4
    <3>2. InCall(p)' = InCall(p) \ {Null}
      BY <1>t, <2>1 DEF InCall
    <3>3. faults' \in {faults, faults + 1} /\ Null \notin InCall(p)
      BY <1>t, <1>4 DEF LockLapses, UseFault, InCall
    <3>4. Locked(p)' = Locked(p)
      BY <2>1, <3>1 DEF Locked
    <3>5. faults \in Nat /\ Locked(p) \in {0, 1} /\ Cardinality(InCall(p)) \in Nat
      BY <1>0, CallTypes DEF Calls
    <3>6. Cardinality(InCall(p)) <= faults' + Locked(p)
      BY <1>0, <3>3, <3>5 DEF Calls
    <3>7. QED
      BY <1>0, <2>1, <3>4, <3>6 DEF Calls
  <2>5. QED
    BY <2>3, <2>4
<1>5. CASE ~\/ \E c \in Callers : Release(c) \/ Crash(c) \/ \E k \in Keys : StartCall(c, k)
            \/ \E q \in Pairs : LockLapses(q)
  BY <1>0, <1>5, CallersKept, LockWriters, CallsKept
<1>6. QED
  BY <1>1, <1>2, <1>3, <1>4, <1>5

\* The lease of POST /retrain excludes a second call for the pair as long as no
\* timer runs out on a live caller, for any number of callers and calls; every
\* call beyond the first is paid for by a fault.
THEOREM CallsCorrect == Spec => []CallsOverlapOnFaults
<1>1. Init => CallInv
  <2> SUFFICES ASSUME Init, NEW p \in Pairs PROVE Calls(p)
    BY DEF CallInv
  <2>1. InCall(p) = {} /\ faults = 0
    BY DEF Init, InCall, Threads
  <2>2. Locked(p) = 0
    BY <2>1 DEF Locked
  <2>3. QED
    BY <2>1, <2>2, FS_EmptySet DEF Calls
<1>2. TypeInv /\ TypeInv' /\ CallInv /\ [Next]_vars => CallInv'
  BY CallStep
<1>3. TypeInv /\ CallInv => CallsOverlapOnFaults
  <2> SUFFICES ASSUME TypeInv, CallInv, NEW p \in Pairs
               PROVE  Cardinality(InCall(p)) <= 1 + faults
    BY DEF CallsOverlapOnFaults
  <2>1. Calls(p) /\ faults \in Nat /\ Locked(p) \in {0, 1} /\ Cardinality(InCall(p)) \in Nat
    BY CallTypes DEF CallInv, Calls
  <2>2. QED
    BY <2>1 DEF Calls
<1>4. QED
  BY <1>1, <1>2, <1>3, TypeInvInit, TypeInvStep, PTL DEF Spec

(***************************************************************************)
(* The events of commands, on the path from the outbox to a consumer, of   *)
(* which only the order of its stages is used (HandOver; EventRelayProofs  *)
(* and EventConsumerProofs prove it of the relay and of a consumer).       *)
(***************************************************************************)

VARIABLES
    committed, handled, settled   \* events <<command, topic>> at each stage

News == INSTANCE HandOver WITH
           Items <- Keys \X Topics, taken <- committed, passed <- handled, closed <- settled

\* An event is enqueued in the transaction that emits it.
OutboxFed == \A k \in Keys, t \in Topics : <<k, t>> \in committed => emitted[k][t] > 0

\* What a consumer has handled is so.
NewsHolds ==
    \A k \in Keys :
        /\ <<k, "retrain.scheduled">> \in handled => state[k] = "succeeded" /\ prefect[k] # "none"
        /\ <<k, "operation.cancelled">> \in handled => state[k] = "cancelled"
        /\ <<k, "retrain.run_ended">> \in handled => runState[k] \in RunTerminal

\* However late and however often an event of a command is handled, the command
\* is then still what the event says: the event went out with the decision, a
\* relay and a consumer take only what was committed, and decisions stand.
THEOREM NewsIsTrue == Spec /\ News!Spec /\ []OutboxFed => []NewsHolds
<1>1. News!Init => News!InOrder
  BY DEF News!Init, News!InOrder
<1>2. News!InOrder /\ [News!Next]_News!stage => News!InOrder'
  BY DEF News!InOrder, News!Next, News!stage
<1>3. ASSUME News!InOrder, OutboxFed, EventsMatchRows, SuccessHasRun PROVE NewsHolds
  <2>1. ASSUME NEW k \in Keys, NEW t \in Topics, <<k, t>> \in handled PROVE emitted[k][t] > 0
    BY <1>3, <2>1 DEF News!InOrder, OutboxFed
  <2>2. ASSUME NEW k \in Keys
        PROVE  /\ <<k, "retrain.scheduled">> \in handled => state[k] = "succeeded"
               /\ <<k, "operation.cancelled">> \in handled => state[k] = "cancelled"
               /\ <<k, "retrain.run_ended">> \in handled => runState[k] \in RunTerminal
    BY <1>3, <2>1 DEF EventsMatchRows, Topics
  <2>3. QED
    BY <1>3, <2>2 DEF NewsHolds, SuccessHasRun
<1>4. QED
  BY <1>1, <1>2, <1>3, EventsCorrect, SuccessCorrect, PTL DEF News!Spec
=============================================================================
