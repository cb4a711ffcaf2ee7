------------------------ MODULE ApprovalGateProofs ------------------------
(***************************************************************************)
(* Theorems about ApprovalGate, for every set of approvals and requests    *)
(* and every value of the bounds.                                          *)
(***************************************************************************)
EXTENDS ApprovalGate, TLAPS

\* A dispatcher that passes the fence works on an approval that is
\* 'approving': the reason why the completing UPDATE need not look. And one
\* that holds an answer has a run.
AnswerOK == \A t \in Threads : pc[t] = "answered" => job[t] \in runs

\* The inductive invariant behind the safety theorems.
GateInv == TypeOK /\ StatusFollowsCommand /\ DecisionIsTold /\ AnswerOK /\ ApprovalHasRun

\* Init establishes it.
LEMMA GateInit == Init => GateInv
  BY ApprovalAssumption
  DEF Init, GateInv, TypeOK, StatusFollowsCommand, DecisionIsTold, AnswerOK,
      ApprovalHasRun, Statuses, Decided, Refused, Commands, Topics

\* What answering does to the request, and to the others.
LEMMA AnswerEffect ==
  ASSUME TypeOK, NEW t \in Threads, Answer(t)
  PROVE  /\ pc'[t] = "idle"
         /\ \A u \in Threads \ {t} : pc'[u] = pc[u] /\ job'[u] = job[u]
         /\ pc' \in [Threads -> {"idle", "approving", "claimed", "sent", "answered",
                                 "failing", "rejecting", "retracting"}]
         /\ job' \in [Threads -> Approvals \cup {Null}]
         /\ att' \in [Threads -> Nat]
  BY DEF TypeOK, Answer, Goto

\* Telling one more decision keeps the counts typed, and the others unchanged.
LEMMA TellEffect ==
  ASSUME TypeOK, NEW a \in Approvals, NEW topic \in Topics, Tell(a, topic)
  PROVE  /\ told' \in [Approvals -> [Topics -> Nat]]
         /\ told'[a][topic] = told[a][topic] + 1
         /\ \A b \in Approvals, u \in Topics :
              b # a \/ u # topic => told'[b][u] = told[b][u]
<1>1. told \in [Approvals -> [Topics -> Nat]]
  BY DEF TypeOK
<1>2. told' = [told EXCEPT ![a] = [told[a] EXCEPT ![topic] = told[a][topic] + 1]]
  BY DEF Tell
<1>3. [told[a] EXCEPT ![topic] = told[a][topic] + 1] \in [Topics -> Nat]
  BY <1>1
<1>4. QED
  BY <1>1, <1>2, <1>3

\* The values actions write are of their sets.
LEMMA StatusIn ==
  /\ {"none", "pending", "approving", "approved", "rejected", "retracted", "expired"}
       \subseteq Statuses
  /\ {"none", "pending", "dispatching", "failed", "succeeded"} \subseteq Commands
  BY DEF Statuses, Decided, Refused, Commands

\* The rows and the bound keep their types.
RowsOK ==
    /\ status \in [Approvals -> Statuses]
    /\ command \in [Approvals -> Commands]
    /\ attempts \in [Approvals -> Nat]
    /\ lapsed \subseteq Approvals
    /\ told \in [Approvals -> [Topics -> Nat]]
    /\ runs \subseteq Approvals /\ inflight \subseteq Approvals
    /\ faults \in 0 .. MaxFaults

\* So do the requests.
RequestsOK ==
    /\ lock \in Threads \cup {Null}
    /\ pc \in [Threads -> {"idle", "approving", "claimed", "sent", "answered",
                           "failing", "rejecting", "retracting"}]
    /\ job \in [Threads -> Approvals \cup {Null}]
    /\ att \in [Threads -> Nat]
    /\ \A t \in Threads : pc[t] # "idle" => job[t] \in Approvals
    /\ \A t \in Threads : pc[t] \in {"rejecting", "retracting"} <=> lock = t

\* Every step keeps the types of the rows, one case per action that writes them.
LEMMA RowsStep == TypeOK /\ [Next]_vars => RowsOK'
<1> SUFFICES ASSUME TypeOK, [Next]_vars PROVE RowsOK'
  OBVIOUS
<1>1. ASSUME NEW a \in Approvals, NotifyChange(a) PROVE RowsOK'
  BY <1>1, StatusIn, SMTT(30)
  DEF TypeOK, RowsOK, NotifyChange, commandVars, prefectVars
<1>2. ASSUME NEW a \in Approvals, Expire(a) PROVE RowsOK'
  BY <1>2, StatusIn, SMTT(30) DEF TypeOK, RowsOK, Expire, commandVars, prefectVars
<1>3. ASSUME NEW t \in Threads, ClaimWon(t) PROVE RowsOK'
  <2>1. job[t] \in Approvals
    BY <1>3 DEF ClaimWon, TypeOK
  <2>2. QED
    BY <1>3, <2>1, StatusIn, SMTT(30)
    DEF TypeOK, RowsOK, ClaimWon, commandVars, prefectVars
<1>4. ASSUME NEW t \in Threads, ClaimRefused(t) PROVE RowsOK'
  <2>1. job[t] \in Approvals
    BY <1>4 DEF ClaimRefused, TypeOK
  <2>2. QED
    BY <1>4, <2>1, StatusIn, SMTT(30)
    DEF TypeOK, RowsOK, ClaimRefused, commandVars, prefectVars
<1>5. ASSUME NEW t \in Threads, Dispatch(t) PROVE RowsOK'
  <2>1. job[t] \in Approvals
    BY <1>5 DEF Dispatch, TypeOK
  <2>2. QED
    BY <1>5, <2>1, StatusIn, SMTT(30)
    DEF TypeOK, RowsOK, Dispatch, commandVars, prefectVars
<1>6. ASSUME NEW t \in Threads, Complete(t) PROVE RowsOK'
  <2>1. job[t] \in Approvals
    BY <1>6 DEF Complete, TypeOK
  <2>2. told' \in [Approvals -> [Topics -> Nat]]
    BY <1>6, <2>1, TellEffect, SMTT(30) DEF Complete, Topics, TypeOK
  <2>3. status' \in [Approvals -> Statuses]
    BY <1>6, <2>1, StatusIn DEF Complete, TypeOK
  <2>4. command' \in [Approvals -> Commands]
    BY <1>6, <2>1, StatusIn DEF Complete, TypeOK
  <2>5. lapsed' \subseteq lapsed /\ UNCHANGED <<attempts, runs, inflight, faults>>
    BY <1>6 DEF Complete, commandVars, prefectVars
  <2>6. QED
    BY <2>3, <2>4, <2>5, <2>2 DEF TypeOK, RowsOK
<1>7. ASSUME NEW t \in Threads, CompleteFails(t) PROVE RowsOK'
  BY <1>7, ApprovalAssumption, StatusIn, SMTT(30)
  DEF TypeOK, RowsOK, CompleteFails, commandVars, prefectVars, UseFault
<1>8. ASSUME NEW t \in Threads, Fail(t) PROVE RowsOK'
  <2>1. job[t] \in Approvals
    BY <1>8 DEF Fail, TypeOK
  <2>2. status' \in [Approvals -> Statuses]
    BY <1>8, <2>1, StatusIn DEF Fail, TypeOK
  <2>3. command' \in [Approvals -> Commands]
    BY <1>8, <2>1, StatusIn DEF Fail, TypeOK
  <2>4. lapsed' \subseteq lapsed /\ UNCHANGED <<attempts, told, runs, inflight, faults>>
    BY <1>8 DEF Fail, commandVars, prefectVars
  <2>5. QED
    BY <2>2, <2>3, <2>4 DEF TypeOK, RowsOK
<1>9. ASSUME NEW t \in Threads, RejectWrite(t) PROVE RowsOK'
  <2>1. job[t] \in Approvals
    BY <1>9 DEF RejectWrite, TypeOK
  <2>2. told' \in [Approvals -> [Topics -> Nat]]
    BY <1>9, <2>1, TellEffect, StatusIn, SMTT(30) DEF RejectWrite, Topics, TypeOK
  <2>3. QED
    BY <1>9, <2>1, <2>2, StatusIn, SMTT(30)
    DEF TypeOK, RowsOK, RejectWrite, commandVars, prefectVars
<1>10. ASSUME NEW t \in Threads, RetractWrite(t) PROVE RowsOK'
  <2>1. job[t] \in Approvals
    BY <1>10 DEF RetractWrite, TypeOK
  <2>2. told' \in [Approvals -> [Topics -> Nat]]
    BY <1>10, <2>1, TellEffect, SMTT(30) DEF RetractWrite, Topics, TypeOK
  <2>3. status' \in [Approvals -> Statuses]
    BY <1>10, <2>1, StatusIn DEF RetractWrite, TypeOK
  <2>4. UNCHANGED <<command, attempts, lapsed, runs, inflight, faults>>
    BY <1>10 DEF RetractWrite, commandVars, prefectVars
  <2>5. QED
    BY <2>2, <2>3, <2>4 DEF TypeOK, RowsOK
<1>11. ASSUME NEW a \in Approvals, Sweep(a) PROVE RowsOK'
  BY <1>11, StatusIn, SMTT(30) DEF TypeOK, RowsOK, Sweep, commandVars, prefectVars
<1>12. ASSUME NEW a \in Approvals, LeaseLapses(a) PROVE RowsOK'
  BY <1>12, ApprovalAssumption, StatusIn, SMTT(30)
  DEF TypeOK, RowsOK, LeaseLapses, commandVars, prefectVars, UseFault
<1>13. ASSUME NEW t \in Threads, Crash(t) PROVE RowsOK'
  BY <1>13, ApprovalAssumption, StatusIn, SMTT(30)
  DEF TypeOK, RowsOK, Crash, commandVars, prefectVars, UseFault
<1>14. ASSUME NEW a \in Approvals, Land(a) PROVE RowsOK'
  BY <1>14, StatusIn, SMTT(30) DEF TypeOK, RowsOK, Land, commandVars, prefectVars
<1>15. ASSUME NEW a \in Approvals, Drop(a) PROVE RowsOK'
  BY <1>15, StatusIn, SMTT(30) DEF TypeOK, RowsOK, Drop, commandVars, prefectVars
<1>16. ASSUME UNCHANGED <<status, command, attempts, lapsed, told, runs, inflight>>,
            faults' = faults
      PROVE  RowsOK'
  BY <1>16 DEF TypeOK, RowsOK
<1>17. QED
  BY <1>1, <1>2, <1>3, <1>4, <1>5, <1>6, <1>7, <1>8, <1>9, <1>10, <1>11, <1>12,
     <1>13, <1>14, <1>15, <1>16
  DEF Next, Approve, Refuse, vars, commandVars, prefectVars, ApproveRead, ClaimLost,
      DispatchRefused, Answered, Unanswered, RejectRead, RetractRead

\* Every step keeps the types of the requests, one case per action of theirs.
LEMMA RequestsStep == TypeOK /\ [Next]_vars => RequestsOK'
<1> SUFFICES ASSUME TypeOK, [Next]_vars PROVE RequestsOK'
  OBVIOUS
<1>1. ASSUME NEW t \in Threads, NEW a \in Approvals, ApproveRead(t, a)
      PROVE  RequestsOK'
  BY <1>1, ApprovalAssumption, SMTT(30) DEF TypeOK, RequestsOK, ApproveRead, Goto
<1>2. ASSUME NEW t \in Threads, ClaimWon(t) PROVE RequestsOK'
  <2>1. /\ pc[t] = "approving" /\ job[t] \in Approvals /\ attempts[job[t]] \in Nat
    BY <1>2 DEF TypeOK, ClaimWon
  <2>2. /\ pc' = [pc EXCEPT ![t] = "claimed"] /\ att' = [att EXCEPT ![t] = attempts[job[t]] + 1]
        /\ lock' = lock /\ job' = job
    BY <1>2 DEF ClaimWon, Goto
  <2>3. QED
    BY <2>1, <2>2, ApprovalAssumption, SMTT(30) DEF TypeOK, RequestsOK
<1>3. ASSUME NEW t \in Threads, ClaimLost(t) PROVE RequestsOK'
  BY <1>3, ApprovalAssumption, AnswerEffect, SMTT(30)
  DEF TypeOK, RequestsOK, ClaimLost
<1>4. ASSUME NEW t \in Threads, ClaimRefused(t) PROVE RequestsOK'
  BY <1>4, ApprovalAssumption, AnswerEffect, SMTT(30)
  DEF TypeOK, RequestsOK, ClaimRefused
<1>5. ASSUME NEW t \in Threads, DispatchRefused(t) PROVE RequestsOK'
  BY <1>5, ApprovalAssumption, SMTT(30)
  DEF TypeOK, RequestsOK, DispatchRefused, Goto
<1>6. ASSUME NEW t \in Threads, Dispatch(t) PROVE RequestsOK'
  BY <1>6, ApprovalAssumption, SMTT(30) DEF TypeOK, RequestsOK, Dispatch, Goto
<1>7. ASSUME NEW t \in Threads, Answered(t) PROVE RequestsOK'
  BY <1>7, ApprovalAssumption, SMTT(30) DEF TypeOK, RequestsOK, Answered, Goto
<1>8. ASSUME NEW t \in Threads, Unanswered(t) PROVE RequestsOK'
  BY <1>8, ApprovalAssumption, SMTT(30) DEF TypeOK, RequestsOK, Unanswered, Goto
<1>9. ASSUME NEW t \in Threads, Complete(t) PROVE RequestsOK'
  BY <1>9, ApprovalAssumption, AnswerEffect, SMTT(30)
  DEF TypeOK, RequestsOK, Complete
<1>10. ASSUME NEW t \in Threads, CompleteFails(t) PROVE RequestsOK'
  BY <1>10, ApprovalAssumption, SMTT(30) DEF TypeOK, RequestsOK, CompleteFails, Goto
<1>11. ASSUME NEW t \in Threads, Fail(t) PROVE RequestsOK'
  BY <1>11, ApprovalAssumption, AnswerEffect, SMTT(30) DEF TypeOK, RequestsOK, Fail
<1>12. ASSUME NEW t \in Threads, NEW a \in Approvals, RejectRead(t, a)
       PROVE  RequestsOK'
  BY <1>12, ApprovalAssumption, SMTT(30) DEF TypeOK, RequestsOK, RejectRead, Goto
<1>13. ASSUME NEW t \in Threads, RejectWrite(t) PROVE RequestsOK'
  BY <1>13, ApprovalAssumption, AnswerEffect, SMTT(30)
  DEF TypeOK, RequestsOK, RejectWrite
<1>14. ASSUME NEW t \in Threads, NEW a \in Approvals, RetractRead(t, a)
       PROVE  RequestsOK'
  BY <1>14, ApprovalAssumption, SMTT(30) DEF TypeOK, RequestsOK, RetractRead, Goto
<1>15. ASSUME NEW t \in Threads, RetractWrite(t) PROVE RequestsOK'
  BY <1>15, ApprovalAssumption, AnswerEffect, SMTT(30)
  DEF TypeOK, RequestsOK, RetractWrite
<1>16. ASSUME NEW t \in Threads, Crash(t) PROVE RequestsOK'
  BY <1>16, ApprovalAssumption, AnswerEffect, SMTT(30)
  DEF TypeOK, RequestsOK, Crash, AfterRollback
<1>17. ASSUME UNCHANGED <<lock, pc, job, att>> PROVE RequestsOK'
  BY <1>17 DEF TypeOK, RequestsOK
<1>18. QED
  BY <1>1, <1>2, <1>3, <1>4, <1>5, <1>6, <1>7, <1>8, <1>9, <1>10, <1>11, <1>12,
     <1>13, <1>14, <1>15, <1>16, <1>17
  DEF Next, Approve, Refuse, vars, NotifyChange, Expire, Sweep, LeaseLapses, Land,
      Drop

\* Together they are TypeOK.
LEMMA GateTypeStep == TypeOK /\ [Next]_vars => TypeOK'
  BY RowsStep, RequestsStep DEF TypeOK, RowsOK, RequestsOK
\* The two tables go on to agree.
LEMMA AgreeStep == GateInv /\ [Next]_vars => StatusFollowsCommand'
<1> SUFFICES ASSUME GateInv, [Next]_vars PROVE StatusFollowsCommand'
  OBVIOUS
<1> USE DEF GateInv
<1>1. ASSUME NEW a \in Approvals, NotifyChange(a) PROVE StatusFollowsCommand'
  BY <1>1, SMTT(30) DEF NotifyChange, StatusFollowsCommand, TypeOK, commandVars
<1>2. ASSUME NEW a \in Approvals, Expire(a) PROVE StatusFollowsCommand'
  BY <1>2, SMTT(30) DEF Expire, StatusFollowsCommand, TypeOK, commandVars, Expires
<1>3. ASSUME NEW t \in Threads, ClaimWon(t) PROVE StatusFollowsCommand'
  <2>1. job[t] \in Approvals
    BY <1>3 DEF ClaimWon, TypeOK
  <2>2. QED
    BY <1>3, <2>1, SMTT(30)
    DEF ClaimWon, StatusFollowsCommand, TypeOK, commandVars, Open, Reclaimable
<1>4. ASSUME NEW t \in Threads, ClaimRefused(t) PROVE StatusFollowsCommand'
  <2>1. job[t] \in Approvals
    BY <1>4 DEF ClaimRefused, TypeOK
  <2>2. QED
    BY <1>4, <2>1, SMTT(30)
    DEF ClaimRefused, StatusFollowsCommand, TypeOK, commandVars, Reclaimable
<1>5. ASSUME NEW t \in Threads, Complete(t) PROVE StatusFollowsCommand'
  <2>1. job[t] \in Approvals
    BY <1>5 DEF Complete, TypeOK
  <2>2. QED
    BY <1>5, <2>1, SMTT(30)
    DEF Complete, StatusFollowsCommand, TypeOK, commandVars, Fenced
<1>6. ASSUME NEW t \in Threads, Fail(t) PROVE StatusFollowsCommand'
  <2>1. job[t] \in Approvals
    BY <1>6 DEF Fail, TypeOK
  <2>2. QED
    BY <1>6, <2>1, SMTT(30)
    DEF Fail, StatusFollowsCommand, TypeOK, commandVars, Fenced
<1>7. ASSUME NEW t \in Threads, RejectWrite(t) PROVE StatusFollowsCommand'
  <2>1. job[t] \in Approvals
    BY <1>7 DEF RejectWrite, TypeOK
  <2>2. QED
    BY <1>7, <2>1, SMTT(30)
    DEF RejectWrite, StatusFollowsCommand, TypeOK, commandVars, StillPending
<1>8. ASSUME NEW t \in Threads, RetractWrite(t) PROVE StatusFollowsCommand'
  <2>1. job[t] \in Approvals
    BY <1>8 DEF RetractWrite, TypeOK
  <2>2. QED
    BY <1>8, <2>1, SMTT(30)
    DEF RetractWrite, StatusFollowsCommand, TypeOK, commandVars
<1>9. ASSUME NEW a \in Approvals, Sweep(a) PROVE StatusFollowsCommand'
  BY <1>9, SMTT(30) DEF Sweep, StatusFollowsCommand, TypeOK, commandVars
<1>10. ASSUME UNCHANGED <<status, command>> PROVE StatusFollowsCommand'
  BY <1>10 DEF StatusFollowsCommand
<1>11. QED
  BY <1>1, <1>2, <1>3, <1>4, <1>5, <1>6, <1>7, <1>8, <1>9, <1>10
  DEF Next, Approve, Refuse, vars, commandVars, prefectVars, ApproveRead, ClaimLost,
      DispatchRefused, Dispatch, Answered, Unanswered, CompleteFails, RejectRead,
      RetractRead, LeaseLapses, Crash, Land, Drop

\* So do the approvals and what was told of them.
LEMMA ToldStep == GateInv /\ [Next]_vars => DecisionIsTold'
<1> SUFFICES ASSUME GateInv, [Next]_vars PROVE DecisionIsTold'
  OBVIOUS
<1> USE DEF GateInv
<1>1. ASSUME NEW a \in Approvals, NotifyChange(a) PROVE DecisionIsTold'
  BY <1>1, SMTT(30) DEF NotifyChange, DecisionIsTold, TypeOK, commandVars
<1>2. ASSUME NEW a \in Approvals, Expire(a) PROVE DecisionIsTold'
  BY <1>2, SMTT(30) DEF Expire, DecisionIsTold, TypeOK, commandVars, Expires
<1>3. ASSUME NEW t \in Threads, ClaimWon(t) PROVE DecisionIsTold'
  <2>1. job[t] \in Approvals
    BY <1>3 DEF ClaimWon, TypeOK
  <2>2. QED
    BY <1>3, <2>1, SMTT(30)
    DEF ClaimWon, DecisionIsTold, TypeOK, commandVars, Open, Reclaimable
<1>4. ASSUME NEW t \in Threads, Complete(t) PROVE DecisionIsTold'
  <2>1. job[t] \in Approvals
    BY <1>4 DEF Complete, TypeOK
  <2>2. /\ status[job[t]] = "approving"
        /\ status' = [status EXCEPT ![job[t]] = "approved"]
    BY <1>4, <2>1 DEF Complete, Fenced, StatusFollowsCommand
  <2>3. /\ told'[job[t]]["approved"] = told[job[t]]["approved"] + 1
        /\ \A b \in Approvals, u \in Topics :
             b # job[t] \/ u # "approved" => told'[b][u] = told[b][u]
    BY <1>4, <2>1, TellEffect DEF Complete, Topics
  <2>4. QED
    BY <2>1, <2>2, <2>3 DEF DecisionIsTold, TypeOK, Topics
<1>5. ASSUME NEW t \in Threads, Fail(t) PROVE DecisionIsTold'
  <2>1. job[t] \in Approvals
    BY <1>5 DEF Fail, TypeOK
  <2>2. QED
    BY <1>5, <2>1, SMTT(30) DEF Fail, DecisionIsTold, TypeOK, commandVars, Fenced
<1>6. ASSUME NEW t \in Threads, RejectWrite(t) PROVE DecisionIsTold'
  <2>1. job[t] \in Approvals
    BY <1>6 DEF RejectWrite, TypeOK
  <2>2. CASE UNCHANGED <<status, told>>
    BY <2>2 DEF DecisionIsTold
  <2>3. CASE ~UNCHANGED <<status, told>>
    <3>1. /\ status[job[t]] = "pending" /\ Tell(job[t], "rejected")
          /\ status' = [status EXCEPT ![job[t]] = "rejected"]
      BY <1>6, <2>3 DEF RejectWrite, StillPending
    <3>2. /\ told'[job[t]]["rejected"] = told[job[t]]["rejected"] + 1
          /\ \A b \in Approvals, u \in Topics :
               b # job[t] \/ u # "rejected" => told'[b][u] = told[b][u]
      BY <2>1, <3>1, TellEffect DEF Topics
    <3>3. QED
      BY <2>1, <3>1, <3>2 DEF DecisionIsTold, TypeOK, Topics
  <2>4. QED
    BY <2>2, <2>3
<1>7. ASSUME NEW t \in Threads, RetractWrite(t) PROVE DecisionIsTold'
  <2>1. job[t] \in Approvals
    BY <1>7 DEF RetractWrite, TypeOK
  <2>2. \A b \in Approvals :
          /\ status'[b] = "approved" <=> status[b] = "approved"
          /\ status'[b] = "rejected" <=> status[b] = "rejected"
    BY <1>7, <2>1 DEF RetractWrite, TypeOK
  <2>3. \A b \in Approvals, u \in Topics : u # "retracted" => told'[b][u] = told[b][u]
    BY <1>7, <2>1, TellEffect DEF RetractWrite, Topics
  <2>4. QED
    BY <2>2, <2>3 DEF DecisionIsTold, Topics
<1>8. ASSUME UNCHANGED <<status, told>> PROVE DecisionIsTold'
  BY <1>8 DEF DecisionIsTold
<1>9. QED
  BY <1>1, <1>2, <1>3, <1>4, <1>5, <1>6, <1>7, <1>8
  DEF Next, Approve, Refuse, vars, commandVars, prefectVars, ApproveRead, ClaimLost,
      ClaimRefused, DispatchRefused, Dispatch, Answered, Unanswered, CompleteFails,
      RejectRead, RetractRead, Sweep, LeaseLapses, Crash, Land, Drop

\* A step changes no decision.
DecisionsKept ==
    \A b \in Approvals : status[b] \in Decided => status'[b] = status[b]

\* No step changes a decision: a completing dispatcher that passes the fence
\* finds the approval 'approving'.
LEMMA FinalStep == GateInv /\ [Next]_vars => DecisionsKept
<1> SUFFICES ASSUME GateInv, [Next]_vars PROVE DecisionsKept
  OBVIOUS
<1> USE DEF GateInv
<1>1. ASSUME NEW a \in Approvals, NotifyChange(a)
      PROVE  DecisionsKept
  BY <1>1, SMTT(30)
  DEF NotifyChange, DecisionsKept, StatusFollowsCommand, Decided, Refused, TypeOK, commandVars
<1>2. ASSUME NEW a \in Approvals, Expire(a)
      PROVE  DecisionsKept
  BY <1>2, SMTT(30)
  DEF Expire, DecisionsKept, StatusFollowsCommand, Decided, Refused, TypeOK, commandVars, Expires
<1>3. ASSUME NEW t \in Threads, ClaimWon(t)
      PROVE  DecisionsKept
  <2>1. job[t] \in Approvals
    BY <1>3 DEF ClaimWon, TypeOK
  <2>2. QED
    BY <1>3, <2>1, SMTT(30)
    DEF ClaimWon, DecisionsKept, StatusFollowsCommand, Decided, Refused, TypeOK, commandVars, Open,
        Reclaimable
<1>4. ASSUME NEW t \in Threads, Complete(t)
      PROVE  DecisionsKept
  <2>1. job[t] \in Approvals
    BY <1>4 DEF Complete, TypeOK
  <2>2. QED
    BY <1>4, <2>1, SMTT(30)
    DEF Complete, DecisionsKept, StatusFollowsCommand, Decided, Refused, TypeOK, commandVars,
        Fenced
<1>5. ASSUME NEW t \in Threads, Fail(t)
      PROVE  DecisionsKept
  <2>1. job[t] \in Approvals
    BY <1>5 DEF Fail, TypeOK
  <2>2. QED
    BY <1>5, <2>1, SMTT(30)
    DEF Fail, DecisionsKept, StatusFollowsCommand, Decided, Refused, TypeOK, commandVars, Fenced
<1>6. ASSUME NEW t \in Threads, RejectWrite(t)
      PROVE  DecisionsKept
  <2>1. job[t] \in Approvals
    BY <1>6 DEF RejectWrite, TypeOK
  <2>2. QED
    BY <1>6, <2>1, SMTT(30)
    DEF RejectWrite, DecisionsKept, StatusFollowsCommand, Decided, Refused, TypeOK, commandVars,
        StillPending
<1>7. ASSUME NEW t \in Threads, RetractWrite(t)
      PROVE  DecisionsKept
  <2>1. job[t] \in Approvals
    BY <1>7 DEF RetractWrite, TypeOK
  <2>2. QED
    BY <1>7, <2>1, SMTT(30)
    DEF RetractWrite, DecisionsKept, StatusFollowsCommand, Decided, Refused, TypeOK, commandVars
<1>8. ASSUME UNCHANGED <<status>>
      PROVE  DecisionsKept
  BY <1>8 DEF DecisionsKept, StatusFollowsCommand, Decided, Refused
<1>9. QED
  BY <1>1, <1>2, <1>3, <1>4, <1>5, <1>6, <1>7, <1>8
  DEF Next, Approve, Refuse, vars, commandVars, prefectVars, ApproveRead, ClaimLost,
      ClaimRefused, DispatchRefused, Dispatch, Answered, Unanswered, CompleteFails,
      RejectRead, RetractRead, Sweep, LeaseLapses, Crash, Land, Drop

\* An answer names a run, and a run does not unhappen.
LEMMA RunStep == GateInv /\ [Next]_vars => AnswerOK' /\ ApprovalHasRun'
<1> SUFFICES ASSUME GateInv, [Next]_vars PROVE AnswerOK' /\ ApprovalHasRun'
  OBVIOUS
<1>1. runs \subseteq runs'
  BY
  DEF Next, Approve, Refuse, vars, commandVars, prefectVars, NotifyChange, Expire,
         ApproveRead, ClaimWon, ClaimLost, ClaimRefused, DispatchRefused, Dispatch,
         Answered, Unanswered, Complete, CompleteFails, Fail, RejectRead, RejectWrite,
         RetractRead, RetractWrite, Sweep, LeaseLapses, Crash, Land, Drop
<1>2. \A t \in Threads : pc'[t] = "answered" =>
        \/ pc[t] = "answered" /\ job'[t] = job[t]
        \/ job'[t] = job[t] /\ job[t] \in runs
  <2>1. ASSUME NEW u \in Threads, Answer(u)
        PROVE  \A t \in Threads : pc'[t] = "answered" => pc[t] = "answered" /\ job'[t] = job[t]
    BY <2>1, AnswerEffect DEF GateInv
  <2>2. ASSUME NEW u \in Threads, NEW point \in {"claimed", "sent", "failing"},
               Goto(u, point), job' = job
        PROVE  \A t \in Threads : pc'[t] = "answered" => pc[t] = "answered" /\ job'[t] = job[t]
    BY <2>2 DEF Goto, GateInv, TypeOK
  <2>3. ASSUME NEW u \in Threads, NEW a \in Approvals,
               ApproveRead(u, a) \/ RejectRead(u, a) \/ RetractRead(u, a)
        PROVE  \A t \in Threads : pc'[t] = "answered" => pc[t] = "answered" /\ job'[t] = job[t]
    BY <2>3 DEF ApproveRead, RejectRead, RetractRead, Goto, GateInv, TypeOK
  <2>4. ASSUME NEW u \in Threads, Answered(u)
        PROVE  \A t \in Threads : pc'[t] = "answered" =>
                 job'[t] = job[t] /\ (pc[t] = "answered" \/ job[t] \in runs)
    BY <2>4 DEF Answered, RunExists, Goto, GateInv, TypeOK
  <2>5. CASE UNCHANGED <<pc, job>>
    BY <2>5
  <2>6. ASSUME NEW u \in Threads, Approve(u) \/ Refuse(u) \/ Crash(u)
        PROVE  \/ Answer(u) \/ Answered(u)
               \/ \E point \in {"claimed", "sent", "failing"} : Goto(u, point) /\ job' = job
               \/ \E a \in Approvals :
                     ApproveRead(u, a) \/ RejectRead(u, a) \/ RetractRead(u, a)
    BY <2>6
    DEF Approve, Refuse, Crash, ClaimWon, ClaimLost, ClaimRefused, DispatchRefused,
                Dispatch, Unanswered, Complete, CompleteFails, Fail, RejectWrite, RetractWrite
  <2>7. CASE \E u \in Threads : Approve(u) \/ Refuse(u) \/ Crash(u)
    BY <2>1, <2>2, <2>3, <2>4, <2>6, <2>7
  <2>8. QED
    BY <2>5, <2>7
    DEF Next, vars, NotifyChange, Expire, Sweep, LeaseLapses, Land, Drop
<1>3. \A a \in Approvals : status'[a] = "approved" => status[a] = "approved" \/ a \in runs
  <2>1. ASSUME NEW t \in Threads, Complete(t)
        PROVE  \A a \in Approvals : status'[a] = "approved" =>
                 status[a] = "approved" \/ a \in runs
    BY <2>1 DEF Complete, GateInv, AnswerOK, TypeOK
  <2>2. ASSUME NEW t \in Threads, ClaimWon(t) \/ Fail(t) \/ RejectWrite(t) \/ RetractWrite(t)
        PROVE  \A a \in Approvals : status'[a] = "approved" => status[a] = "approved"
    BY <2>2 DEF ClaimWon, Fail, RejectWrite, RetractWrite, GateInv, TypeOK
  <2>3. ASSUME NEW b \in Approvals, NotifyChange(b) \/ Expire(b)
        PROVE  \A a \in Approvals : status'[a] = "approved" => status[a] = "approved"
    BY <2>3 DEF NotifyChange, Expire, GateInv, TypeOK
  <2>4. CASE UNCHANGED status
    BY <2>4
  <2>5. QED
    BY <2>1, <2>2, <2>3, <2>4
    DEF Next, Approve, Refuse, vars, commandVars, prefectVars, ApproveRead,
        ClaimLost,
        ClaimRefused, DispatchRefused, Dispatch, Answered, Unanswered, CompleteFails,
        RejectRead, RetractRead, Sweep, LeaseLapses, Crash, Land, Drop
<1>4. QED
  BY <1>1, <1>2, <1>3 DEF GateInv, AnswerOK, ApprovalHasRun

\* The invariant is inductive.
LEMMA GateStep == GateInv /\ [Next]_vars => GateInv'
  BY GateTypeStep, AgreeStep, ToldStep, RunStep DEF GateInv

\* GateInv holds in every reachable state of the gate.
THEOREM GateCorrect == Spec => []GateInv
  BY GateInit, GateStep, PTL DEF Spec

\* The variables of the gate keep their types.
THEOREM GateTypeCorrect == Spec => []TypeOK
<1>1. GateInv => TypeOK
  BY DEF GateInv
<1>2. QED
  BY <1>1, GateCorrect, PTL

\* Whatever the requests, the sweep, the clock and Prefect do, the approval
\* table and the command table agree.
THEOREM AgreementCorrect == Spec => []StatusFollowsCommand
<1>1. GateInv => StatusFollowsCommand
  BY DEF GateInv
<1>2. QED
  BY <1>1, GateCorrect, PTL

\* Every approval and rejection goes out exactly once.
THEOREM ToldCorrect == Spec => []DecisionIsTold
<1>1. GateInv => DecisionIsTold
  BY DEF GateInv
<1>2. QED
  BY <1>1, GateCorrect, PTL

\* No decision is ever changed.
THEOREM FinalCorrect == Spec => DecisionIsFinal
<1>1. GateInv /\ [Next]_vars =>
        [\A a \in Approvals : status[a] \in Decided => status'[a] = status[a]]_vars
  BY FinalStep DEF DecisionsKept
<1>2. QED
  BY <1>1, GateCorrect, PTL DEF Spec, DecisionIsFinal

(***************************************************************************)
(* ApprovalGate implements CommandLedger: an approval's command is         *)
(* accepted, gets its run and succeeds under the ledger's conditions.      *)
(***************************************************************************)

\* What Prefect was asked, and what a request dispatches, was submitted.
UnderwayOK ==
    /\ \A a \in inflight \cup runs : command[a] # "none"
    /\ \A t \in Threads : Dispatching(t) => command[job[t]] # "none"

\* A step forgets no command.
LEMMA CommandStays ==
  ASSUME TypeOK, [Next]_vars, NEW a \in Approvals, command[a] # "none"
  PROVE  command'[a] # "none"
<1>1. ASSUME NEW t \in Threads, ClaimWon(t) \/ ClaimRefused(t) \/ Complete(t) \/ Fail(t)
      PROVE  command'[a] # "none"
  BY <1>1 DEF ClaimWon, ClaimRefused, Complete, Fail, TypeOK
<1>2. ASSUME NEW b \in Approvals, Sweep(b) PROVE command'[a] # "none"
  BY <1>2 DEF Sweep, TypeOK
<1>3. CASE UNCHANGED command
  BY <1>3
<1>4. QED
  BY <1>1, <1>2, <1>3
  DEF Next, Approve, Refuse, vars, commandVars, NotifyChange, Expire, ApproveRead,
      ClaimLost, DispatchRefused, Dispatch, Answered, Unanswered, CompleteFails,
      RejectRead, RejectWrite, RetractRead, RetractWrite, LeaseLapses, Crash, Land, Drop

\* A request that dispatches after a step claimed in it, or dispatched before.
LEMMA DispatchingFrom ==
  ASSUME TypeOK, [Next]_vars, NEW t \in Threads, Dispatching(t)'
  PROVE  \/ Dispatching(t) /\ job'[t] = job[t]
         \/ job'[t] = job[t] /\ job[t] \in Approvals /\ command'[job[t]] = "dispatching"
<1> DEFINE Goal == \/ Dispatching(t) /\ job'[t] = job[t]
                   \/ /\ job'[t] = job[t] /\ job[t] \in Approvals
                      /\ command'[job[t]] = "dispatching"
<1>1. ASSUME NEW u \in Threads, Answer(u) PROVE Goal
  BY <1>1, AnswerEffect DEF Dispatching
<1>2. ASSUME NEW u \in Threads, ClaimWon(u) PROVE Goal
  BY <1>2 DEF ClaimWon, Goto, Dispatching, TypeOK
<1>3. ASSUME NEW u \in Threads, pc[u] \in {"claimed", "sent", "answered"},
             \E point \in {"sent", "answered", "failing"} : Goto(u, point), job' = job
      PROVE  Goal
  BY <1>3 DEF Goto, Dispatching, TypeOK
<1>4. ASSUME NEW u \in Threads, NEW a \in Approvals,
             ApproveRead(u, a) \/ RejectRead(u, a) \/ RetractRead(u, a)
      PROVE  Goal
  BY <1>4 DEF ApproveRead, RejectRead, RetractRead, Goto, Dispatching, TypeOK
<1>5. CASE UNCHANGED <<pc, job>>
  BY <1>5 DEF Dispatching
<1>6. ASSUME NEW u \in Threads, Approve(u) \/ Refuse(u) \/ Crash(u) PROVE Goal
  <2>1. \/ Answer(u) \/ ClaimWon(u)
        \/ /\ pc[u] \in {"claimed", "sent", "answered"} /\ job' = job
           /\ \E point \in {"sent", "answered", "failing"} : Goto(u, point)
        \/ \E a \in Approvals : ApproveRead(u, a) \/ RejectRead(u, a) \/ RetractRead(u, a)
    BY <1>6
    DEF Approve, Refuse, Crash, ClaimLost, ClaimRefused, DispatchRefused, Dispatch,
        Answered, Unanswered, Complete, CompleteFails, Fail, RejectWrite, RetractWrite
  <2>2. QED
    BY <2>1, <1>1, <1>2, <1>3, <1>4
<1>7. QED
  BY <1>5, <1>6 DEF Next, vars, NotifyChange, Expire, Sweep, LeaseLapses, Land, Drop

\* Nothing is dispatched, and nothing runs, that was not submitted.
LEMMA UnderwayStep == TypeOK /\ UnderwayOK /\ [Next]_vars => UnderwayOK'
<1> SUFFICES ASSUME TypeOK, UnderwayOK, [Next]_vars PROVE UnderwayOK'
  OBVIOUS
<1>1. ASSUME NEW a \in inflight' \cup runs' PROVE command'[a] # "none"
  <2>1. \/ a \in inflight \cup runs
        \/ \E t \in Threads : Dispatching(t) /\ job[t] = a /\ a \in Approvals
    BY <1>1
    DEF Next, Approve, Refuse, vars, commandVars, prefectVars, NotifyChange, Expire,
        ApproveRead, ClaimWon, ClaimLost, ClaimRefused, DispatchRefused, Dispatch,
        Answered, Unanswered, Complete, CompleteFails, Fail, RejectRead, RejectWrite,
        RetractRead, RetractWrite, Sweep, LeaseLapses, Crash, Land, Drop, Dispatching,
        TypeOK
  <2>2. a \in Approvals /\ command[a] # "none"
    BY <2>1 DEF UnderwayOK, TypeOK
  <2>3. QED
    BY <2>2, CommandStays
<1>2. ASSUME NEW t \in Threads, Dispatching(t)' PROVE command'[job'[t]] # "none"
  <2>1. CASE Dispatching(t) /\ job'[t] = job[t]
    BY <2>1, CommandStays DEF UnderwayOK, TypeOK, Dispatching
  <2>2. QED
    BY <1>2, <2>1, DispatchingFrom
<1>3. QED
  BY <1>1, <1>2 DEF UnderwayOK

LEMMA GateLedgerInit == Init => Ledger!Init
  BY DEF Init, Ledger!Init, Settlement, Announced, Topics, Ledger!Topics

\* A step that leaves the commands as settled as they were, Prefect, and what
\* was announced of approvals, is no step of the ledger.
LEMMA GateLedgerStutter ==
  ASSUME runs' = runs,
         \A a \in Approvals : told'[a]["approved"] = told[a]["approved"],
         \A a \in Approvals :
            \/ command'[a] = command[a]
            \/ {command[a], command'[a]} \cap {"none", "succeeded"} = {}
  PROVE  UNCHANGED Ledger!ledger
<1>1. Settlement' = Settlement
  BY DEF Settlement
<1>2. Announced' = Announced
  BY DEF Announced
<1>3. QED
  BY <1>1, <1>2 DEF Ledger!ledger

\* A first claim accepts the command, whether or not the caps admit it.
LEMMA GateAccepts ==
  ASSUME NEW a \in Approvals, TypeOK, command[a] = "none", told' = told, runs' = runs,
         \E c \in {"pending", "dispatching"} : command' = [command EXCEPT ![a] = c]
  PROVE  Ledger!Next
<1>1. Settlement[a] = "none" /\ Settlement' = [Settlement EXCEPT ![a] = "open"]
  BY DEF Settlement, TypeOK
<1>2. Announced' = Announced
  BY DEF Announced
<1>3. Ledger!Accept(a)
  BY <1>1, <1>2 DEF Ledger!Accept
<1>4. QED
  BY <1>3 DEF Ledger!Next

\* A completion that passes the fence is the command's success.
LEMMA GateSucceeds ==
  ASSUME GateInv, NEW t \in Threads, Complete(t)
  PROVE  Ledger!Next
<1> DEFINE a == job[t]
<1>1. a \in Approvals /\ command[a] = "dispatching" /\ a \in runs
  BY DEF Complete, Fenced, GateInv, TypeOK, AnswerOK
<1>2. Settlement[a] = "open" /\ Settlement' = [Settlement EXCEPT ![a] = "succeeded"]
  BY <1>1 DEF Complete, Settlement, GateInv, TypeOK
<1>3. /\ told'[a]["approved"] = told[a]["approved"] + 1
      /\ \A b \in Approvals \ {a} : told'[b]["approved"] = told[b]["approved"]
  BY <1>1, TellEffect DEF Complete, GateInv, Topics
<1>4. Ledger!Tell(a, "retrain.scheduled")
  BY <1>1, <1>3 DEF Ledger!Tell, Announced
<1>5. runs' = runs
  BY DEF Complete, prefectVars
<1>6. Ledger!Succeed(a)
  BY <1>1, <1>2, <1>4, <1>5 DEF Ledger!Succeed
<1>7. QED
  BY <1>1, <1>6 DEF Ledger!Next

\* Every step of the gate is a step of the ledger, or none.
LEMMA GateLedgerStep ==
  ASSUME GateInv, UnderwayOK, [Next]_vars
  PROVE  [Ledger!Next]_Ledger!ledger
<1> USE DEF GateInv
<1>1. ASSUME NEW t \in Threads, ClaimWon(t) PROVE [Ledger!Next]_Ledger!ledger
  <2>1. job[t] \in Approvals /\ told' = told /\ runs' = runs
    BY <1>1 DEF ClaimWon, TypeOK, prefectVars
  <2>2. command' = [command EXCEPT ![job[t]] = "dispatching"] /\ Reclaimable(job[t])
    BY <1>1 DEF ClaimWon
  <2>3. CASE command[job[t]] = "none"
    BY <2>1, <2>2, <2>3, GateAccepts
  <2>4. CASE command[job[t]] # "none"
    BY <2>1, <2>2, <2>4, GateLedgerStutter DEF Reclaimable, TypeOK
  <2>5. QED
    BY <2>3, <2>4
<1>2. ASSUME NEW t \in Threads, ClaimRefused(t) PROVE [Ledger!Next]_Ledger!ledger
  <2>1. job[t] \in Approvals /\ told' = told /\ runs' = runs
    BY <1>2 DEF ClaimRefused, TypeOK, prefectVars
  <2>2. CASE command[job[t]] = "none"
    BY <1>2, <2>1, <2>2, GateAccepts DEF ClaimRefused
  <2>3. CASE command[job[t]] # "none"
    BY <1>2, <2>1, <2>3, GateLedgerStutter DEF ClaimRefused, TypeOK
  <2>4. QED
    BY <2>2, <2>3
<1>3. ASSUME NEW t \in Threads, Complete(t) PROVE [Ledger!Next]_Ledger!ledger
  BY <1>3, GateSucceeds
<1>4. ASSUME NEW t \in Threads, Fail(t) PROVE [Ledger!Next]_Ledger!ledger
  BY <1>4, GateLedgerStutter DEF Fail, Fenced, prefectVars, TypeOK
<1>5. ASSUME NEW t \in Threads, RejectWrite(t) PROVE [Ledger!Next]_Ledger!ledger
  <2>1. \A b \in Approvals : told'[b]["approved"] = told[b]["approved"]
    <3>1. job[t] \in Approvals
      BY <1>5 DEF RejectWrite, TypeOK
    <3>2. QED
      BY <1>5, <3>1, TellEffect DEF RejectWrite, Topics
  <2>2. QED
    BY <1>5, <2>1, GateLedgerStutter DEF RejectWrite, commandVars, prefectVars
<1>6. ASSUME NEW t \in Threads, RetractWrite(t) PROVE [Ledger!Next]_Ledger!ledger
  <2>1. \A b \in Approvals : told'[b]["approved"] = told[b]["approved"]
    <3>1. job[t] \in Approvals
      BY <1>6 DEF RetractWrite, TypeOK
    <3>2. QED
      BY <1>6, <3>1, TellEffect DEF RetractWrite, Topics
  <2>2. QED
    BY <1>6, <2>1, GateLedgerStutter DEF RetractWrite, commandVars, prefectVars
<1>7. ASSUME NEW a \in Approvals, Sweep(a) PROVE [Ledger!Next]_Ledger!ledger
  BY <1>7, GateLedgerStutter DEF Sweep, prefectVars, TypeOK
<1>8. ASSUME NEW a \in Approvals, Land(a) PROVE [Ledger!Next]_Ledger!ledger
  <2>1. Settlement[a] # "none"
    BY <1>8 DEF Land, Settlement, UnderwayOK, TypeOK
  <2>2. UNCHANGED <<Settlement, Announced>> /\ runs' = runs \cup {a}
    BY <1>8 DEF Land, Settlement, Announced, commandVars
  <2>3. Ledger!RunAppears(a)
    BY <2>1, <2>2 DEF Ledger!RunAppears
  <2>4. QED
    BY <2>3 DEF Ledger!Next
<1>9. CASE UNCHANGED <<command, told, runs>>
  BY <1>9, GateLedgerStutter
<1>10. QED
  BY <1>1, <1>2, <1>3, <1>4, <1>5, <1>6, <1>7, <1>8, <1>9
  DEF Next, Approve, Refuse, vars, commandVars, prefectVars, NotifyChange, Expire,
      ApproveRead, ClaimLost, DispatchRefused, Dispatch, Answered, Unanswered,
      CompleteFails, RejectRead, RetractRead, LeaseLapses, Crash, Drop

\* The commands of approvals, claimed, swept, crashed under and answered late
\* as they may be, are decided as the ledger of commands says: each at most
\* once, with its run, and announced in the step that decides.
THEOREM GateRefinement == Spec => ImplementsLedger
<1>1. Init => UnderwayOK
  BY DEF Init, UnderwayOK, Dispatching
<1>2. GateInv /\ UnderwayOK /\ [Next]_vars => UnderwayOK'
  BY UnderwayStep DEF GateInv
<1>3. GateInv /\ UnderwayOK /\ [Next]_vars => [Ledger!Next]_Ledger!ledger
  BY GateLedgerStep
<1>4. QED
  BY <1>1, <1>2, <1>3, GateLedgerInit, GateCorrect, PTL
  DEF Spec, ImplementsLedger, Ledger!Spec

\* An approval that says it was granted has the training run it was for: the
\* completing transaction is reached only with Prefect's answer in hand.
THEOREM RunCorrect == Spec => []ApprovalHasRun
<1>1. GateInv => ApprovalHasRun
  BY DEF GateInv
<1>2. QED
  BY <1>1, GateCorrect, PTL
=============================================================================
