-------------------------- MODULE QuotaSeamProofs --------------------------
(***************************************************************************)
(* The project's quota, for any requests, GPUs, limit and bound on faults: *)
(* the reservation table implements the ledger of the project's GPUs, the  *)
(* limit is never exceeded, and a job that runs has its quota.             *)
(***************************************************************************)
EXTENDS QuotaSeam, FiniteSetTheorems, TLAPS

RowType == [state : {"none", "reserved", "committed", "released", "expired"},
            bound : BOOLEAN, live : BOOLEAN]

\* A row follows its call up to the bind, and from then on its job.
PlaceInv ==
    /\ \A r \in Requests : call[r] \in {"admitted", "submitted", "binding"} =>
          /\ ~row[r].bound /\ row[r].state \in {"reserved", "expired"}
          /\ row[r].live => row[r].state = "reserved"
    /\ \A r \in Requests : call[r] \in {"idle", "refused", "admitted"} => job[r] = "none"
    /\ \A r \in Requests : row[r].bound => row[r].state \in {"committed", "released"}
    /\ \A r \in Requests : row[r].bound /\ job[r] = "running" /\ r \notin adrift
          => row[r].state = "committed"

\* A request that was not admitted has no row, and only a bind commits.
RowInv ==
    /\ \A r \in Requests : call[r] \in {"idle", "refused"} => row[r].state = "none"
    /\ \A r \in Requests : row[r].state = "committed" => row[r].bound

\* What is taken fits: a lapsed reservation counts until it is swept, so that
\* it may still be committed.
Units(S) == UNION {{r} \X (1 .. Gpus[r]) : r \in S}
LimitInv == IsFiniteSet(Units(Taken)) /\ GpusOf(Taken) <= Limit

----------------------------------------------------------------------------
(* Types *)

\* Rewriting fields of rows keeps them rows.
LEMMA SweptTyped ==
  ASSUME TypeOK, NEW S \in SUBSET Lapsed
  PROVE  /\ Swept(S) \in [Requests -> RowType]
         /\ \A r \in Requests : Swept(S)[r] = IF r \in S THEN [row[r] EXCEPT !.state = "expired"] ELSE row[r]
  BY DEF TypeOK, RowType, Swept

LEMMA ReleasedTyped ==
  ASSUME TypeOK, NEW r \in Requests
  PROVE  Released(r, TRUE) \in [Requests -> RowType] /\ Released(r, FALSE) \in [Requests -> RowType]
  BY DEF TypeOK, RowType, Released

LEMMA BoundTyped ==
  ASSUME TypeOK, NEW r \in Requests
  PROVE  Bound(r) \in [Requests -> RowType]
<1>1. [row[r] EXCEPT !.state = "committed", !.bound = TRUE] \in RowType
  BY DEF TypeOK, RowType
<1> QED  BY <1>1 DEF TypeOK, RowType, Bound

LEMMA TypeInit == Init => TypeOK
  BY QuotaAssumption DEF Init, TypeOK, NoRow, Calls

LEMMA TypeStep ==
  ASSUME TypeOK, [Next]_vars
  PROVE  TypeOK'
<1> USE QuotaAssumption DEF TypeOK, RowType, Calls, UseFault
<1>1. ASSUME NEW r \in Requests, NEW S \in SUBSET Lapsed, Reserve(r, S) PROVE TypeOK'
  BY <1>1, SweptTyped DEF Reserve
<1>2. ASSUME NEW r \in Requests, NEW S \in SUBSET Lapsed, Refuse(r, S) PROVE TypeOK'
  BY <1>2, SweptTyped DEF Refuse
<1>3. ASSUME NEW r \in Requests, Lapse(r) PROVE TypeOK'
  BY <1>3 DEF Lapse
<1>4. ASSUME NEW r \in Requests, BlockEnds(r) PROVE TypeOK'
  <2>1. row' \in [Requests -> RowType]
    <3>1. row' = Released(r, FALSE) \/ row' = row
      BY <1>4 DEF BlockEnds, TryRelease
    <3> QED  BY <3>1, ReleasedTyped
  <2>2. faults' \in 0 .. MaxFaults
    <3>1. faults' = faults \/ (faults < MaxFaults /\ faults' = faults + 1)
      BY <1>4, Zenon DEF BlockEnds, TryRelease
    <3> QED  BY <3>1
  <2> QED  BY <1>4, <2>1, <2>2 DEF BlockEnds
<1>5. ASSUME NEW r \in Requests, Submit(r) PROVE TypeOK'
  BY <1>5 DEF Submit
<1>6. ASSUME NEW r \in Requests, SubmitFails(r) PROVE TypeOK'
  <2>1. row' \in [Requests -> RowType]
    <3>1. row' = Released(r, FALSE) \/ row' = row
      BY <1>6 DEF SubmitFails, TryRelease
    <3> QED  BY <3>1, ReleasedTyped
  <2>2. faults' \in 0 .. MaxFaults
    <3>1. faults' = faults \/ (faults < MaxFaults /\ faults' = faults + 1)
      BY <1>6, Zenon DEF SubmitFails, TryRelease
    <3> QED  BY <3>1
  <2> QED  BY <1>6, <2>1, <2>2 DEF SubmitFails
<1>7. ASSUME NEW r \in Requests, ReadClock(r) PROVE TypeOK'
  BY <1>7 DEF ReadClock
<1>8. ASSUME NEW r \in Requests, Bind(r) PROVE TypeOK'
  BY <1>8, BoundTyped DEF Bind
<1>9. ASSUME NEW r \in Requests, BindFails(r) PROVE TypeOK'
  BY <1>9, BoundTyped DEF BindFails
<1>10. ASSUME NEW r \in Requests, Crash(r) PROVE TypeOK'
  BY <1>10 DEF Crash
<1>11. ASSUME NEW r \in Requests, End(r) PROVE TypeOK'
  BY <1>11 DEF End
<1>12. ASSUME NEW r \in Requests, Requeue(r) PROVE TypeOK'
  BY <1>12 DEF Requeue
<1>13. ASSUME NEW r \in Requests, Finish(r) PROVE TypeOK'
  <2>1. row' \in [Requests -> RowType]
    <3>1. row' = Released(r, TRUE) \/ row' = row
      BY <1>13 DEF Finish, TryRelease
    <3> QED  BY <3>1, ReleasedTyped
  <2>2. faults' \in 0 .. MaxFaults
    <3>1. faults' = faults \/ (faults < MaxFaults /\ faults' = faults + 1)
      BY <1>13, Zenon DEF Finish, TryRelease
    <3> QED  BY <3>1
  <2> QED  BY <1>13, <2>1, <2>2 DEF Finish
<1>14. ASSUME NEW r \in Requests, GiveUp(r) PROVE TypeOK'
  <2>1. row' \in [Requests -> RowType]
    <3>1. row' = Released(r, TRUE) \/ row' = row
      BY <1>14 DEF GiveUp, TryRelease
    <3> QED  BY <3>1, ReleasedTyped
  <2>2. faults' \in 0 .. MaxFaults
    <3>1. faults' = faults \/ (faults < MaxFaults /\ faults' = faults + 1)
      BY <1>14, Zenon DEF GiveUp, TryRelease
    <3> QED  BY <3>1
  <2> QED  BY <1>14, <2>1, <2>2 DEF GiveUp
<1>15. ASSUME NEW r \in Requests, Stop(r) PROVE TypeOK'
  <2>1. row' \in [Requests -> RowType]
    <3>1. row' = Released(r, TRUE) \/ row' = row
      BY <1>15 DEF Stop, TryRelease
    <3> QED  BY <3>1, ReleasedTyped
  <2>2. faults' \in 0 .. MaxFaults
    <3>1. faults' = faults \/ (faults < MaxFaults /\ faults' = faults + 1)
      BY <1>15, Zenon DEF Stop, TryRelease
    <3> QED  BY <3>1
  <2> QED  BY <1>15, <2>1, <2>2 DEF Stop
<1>16. ASSUME NEW r \in Requests, Ask(r) PROVE TypeOK'
  BY <1>16, ReleasedTyped DEF Ask
<1>17. ASSUME NEW r \in Requests, AskFails(r) PROVE TypeOK'
  BY <1>17 DEF AskFails
<1>18. ASSUME NEW S \in SUBSET Lapsed, Reconcile(S) PROVE TypeOK'
  BY <1>18, SweptTyped DEF Reconcile, JobHolders
<1>19. ASSUME ReconcileDies PROVE TypeOK'
  BY <1>19 DEF ReconcileDies
<1>20. ASSUME UNCHANGED vars PROVE TypeOK'
  BY <1>20 DEF vars
<1> QED
  BY <1>1, <1>2, <1>3, <1>4, <1>5, <1>6, <1>7, <1>8, <1>9, <1>10, <1>11, <1>12, <1>13, <1>14,
     <1>15, <1>16, <1>17, <1>18, <1>19, <1>20 DEF Next

\* Every row, call and job stays what the store, the callers and the scheduler
\* may say of it, and no more faults happen than the bound.
THEOREM QuotaTypeCorrect == Spec => []TypeOK
<1>1. TypeOK /\ [Next]_vars => TypeOK'
  BY TypeStep
<1> QED  BY TypeInit, <1>1, PTL DEF Spec

----------------------------------------------------------------------------
(* A row follows its call, and then its job *)

LEMMA PlaceStep ==
  ASSUME TypeOK, PlaceInv, [Next]_vars
  PROVE  PlaceInv'
<1> USE DEF TypeOK, PlaceInv
<1>1. ASSUME NEW r \in Requests, NEW S \in SUBSET Lapsed, Reserve(r, S) PROVE PlaceInv'
  <2>1. \A q \in Requests : q # r =>
           /\ row'[q].state = IF q \in S THEN "expired" ELSE row[q].state
           /\ row'[q].bound = row[q].bound /\ row'[q].live = row[q].live
    BY <1>1 DEF Reserve, Swept
  <2>2. row'[r] = [state |-> "reserved", bound |-> FALSE, live |-> TRUE]
    BY <1>1 DEF Reserve, Swept
  <2>3. \A q \in S : row[q].state = "reserved" /\ ~row[q].live
    BY DEF Lapsed
  <2> QED  BY <1>1, <2>1, <2>2, <2>3 DEF Reserve
<1>2. ASSUME NEW r \in Requests, NEW S \in SUBSET Lapsed, Refuse(r, S) PROVE PlaceInv'
  <2>1. \A q \in Requests : 
           /\ row'[q].state = IF q \in S THEN "expired" ELSE row[q].state
           /\ row'[q].bound = row[q].bound /\ row'[q].live = row[q].live
    BY <1>2 DEF Refuse, Swept
  <2>2. \A q \in S : row[q].state = "reserved" /\ ~row[q].live
    BY DEF Lapsed
  <2> QED  BY <1>2, <2>1, <2>2 DEF Refuse
<1>3. ASSUME NEW r \in Requests, Lapse(r) PROVE PlaceInv'
  BY <1>3 DEF Lapse
<1>4. ASSUME NEW r \in Requests, BlockEnds(r) PROVE PlaceInv'
  BY <1>4 DEF BlockEnds, TryRelease, Released, Resolvable
<1>5. ASSUME NEW r \in Requests, Submit(r) PROVE PlaceInv'
  BY <1>5 DEF Submit
<1>6. ASSUME NEW r \in Requests, SubmitFails(r) PROVE PlaceInv'
  BY <1>6 DEF SubmitFails, TryRelease, Released, Resolvable
<1>7. ASSUME NEW r \in Requests, ReadClock(r) PROVE PlaceInv'
  BY <1>7 DEF ReadClock
<1>8. ASSUME NEW r \in Requests, Bind(r) PROVE PlaceInv'
  BY <1>8 DEF Bind, Bound
<1>9. ASSUME NEW r \in Requests, BindFails(r) PROVE PlaceInv'
  BY <1>9 DEF BindFails, Bound
<1>10. ASSUME NEW r \in Requests, Crash(r) PROVE PlaceInv'
  BY <1>10 DEF Crash
<1>11. ASSUME NEW r \in Requests, End(r) PROVE PlaceInv'
  BY <1>11 DEF End
<1>12. ASSUME NEW r \in Requests, Requeue(r) PROVE PlaceInv'
  BY <1>12 DEF Requeue
<1>13. ASSUME NEW r \in Requests, Finish(r) PROVE PlaceInv'
  BY <1>13 DEF Finish, TryRelease, Released, Resolvable
<1>14. ASSUME NEW r \in Requests, GiveUp(r) PROVE PlaceInv'
  <2>1. \A q \in Requests :
           /\ row'[q].state = row[q].state \/ (q = r /\ row[q].bound /\ row'[q].state = "released")
           /\ row'[q].bound = row[q].bound /\ row'[q].live = row[q].live
    BY <1>14 DEF GiveUp, TryRelease, Released, UseFault
  <2>2. /\ job'[r] = "running" => r \in adrift'
        /\ \A q \in Requests : q # r => job'[q] = job[q]
    BY <1>14 DEF GiveUp
  <2>3. adrift \subseteq adrift' /\ call' = [call EXCEPT ![r] = "over"] /\ call[r] = "waiting"
    BY <1>14 DEF GiveUp
  <2> QED  BY <2>1, <2>2, <2>3
<1>15. ASSUME NEW r \in Requests, Stop(r) PROVE PlaceInv'
  BY <1>15 DEF Stop, TryRelease, Released, Resolvable
<1>16. ASSUME NEW r \in Requests, Ask(r) PROVE PlaceInv'
  BY <1>16 DEF Ask, Released, Resolvable
<1>17. ASSUME NEW r \in Requests, AskFails(r) PROVE PlaceInv'
  BY <1>17 DEF AskFails
<1>18. ASSUME NEW S \in SUBSET Lapsed, Reconcile(S) PROVE PlaceInv'
  <2>1. \A q \in Requests : 
           /\ row'[q].state = IF q \in S THEN "expired" ELSE row[q].state
           /\ row'[q].bound = row[q].bound /\ row'[q].live = row[q].live
    BY <1>18 DEF Reconcile, Swept
  <2>2. \A q \in S : row[q].state = "reserved" /\ ~row[q].live
    BY DEF Lapsed
  <2> QED  BY <1>18, <2>1, <2>2 DEF Reconcile
<1>19. ASSUME ReconcileDies \/ UNCHANGED vars PROVE PlaceInv'
  BY <1>19 DEF ReconcileDies, vars
<1> QED
  BY <1>1, <1>2, <1>3, <1>4, <1>5, <1>6, <1>7, <1>8, <1>9, <1>10, <1>11, <1>12, <1>13, <1>14,
     <1>15, <1>16, <1>17, <1>18, <1>19 DEF Next

LEMMA RowStep ==
  ASSUME TypeOK, RowInv, [Next]_vars
  PROVE  RowInv'
<1> USE DEF TypeOK, RowInv
<1>1. ASSUME NEW r \in Requests, NEW S \in SUBSET Lapsed, Reserve(r, S) PROVE RowInv'
  <2>1. \A q \in Requests : row'[q].state = IF q = r THEN "reserved"
                                               ELSE IF q \in S THEN "expired" ELSE row[q].state
    BY <1>1 DEF RowType, Reserve, Swept
  <2>2. \A q \in Requests : q # r => row'[q].bound = row[q].bound
    BY <1>1 DEF RowType, Reserve, Swept
  <2>3. \A q \in S : row[q].state = "reserved"
    BY DEF Lapsed
  <2> QED  BY <1>1, <2>1, <2>2, <2>3 DEF Reserve
<1>2. ASSUME NEW S \in SUBSET Lapsed, row' = Swept(S),
             \A q \in Requests : call'[q] \in {"idle", "refused"} => call[q] \in {"idle", "refused"}
      PROVE  RowInv'
  <2>1. \A q \in Requests : row'[q].state = (IF q \in S THEN "expired" ELSE row[q].state) /\ row'[q].bound = row[q].bound
    BY <1>2 DEF RowType, Swept
  <2>2. \A q \in S : row[q].state = "reserved"
    BY DEF Lapsed
  <2> QED  BY <1>2, <2>1, <2>2
<1>3. ASSUME NEW r \in Requests, NEW S \in SUBSET Lapsed, Refuse(r, S) PROVE RowInv'
  BY <1>2, <1>3 DEF Refuse
<1>4. ASSUME NEW S \in SUBSET Lapsed, Reconcile(S) PROVE RowInv'
  BY <1>2, <1>4 DEF Reconcile
<1>5. ASSUME NEW r \in Requests, Lapse(r) PROVE RowInv'
  BY <1>5 DEF Lapse
<1>6. ASSUME NEW r \in Requests, BlockEnds(r) \/ SubmitFails(r) \/ Finish(r) \/ GiveUp(r) \/ Stop(r) PROVE RowInv'
  <2>1. \E b \in BOOLEAN : row' = Released(r, b) \/ row' = row
    BY <1>6 DEF BlockEnds, SubmitFails, Finish, GiveUp, Stop, TryRelease
  <2>2. \A q \in Requests : /\ row'[q].state = row[q].state \/ (Resolvable(q) /\ row'[q].state = "released")
                            /\ row'[q].bound = row[q].bound
    BY <2>1 DEF Released, Resolvable
  <2>3. call' = [call EXCEPT ![r] = "over"]
    BY <1>6 DEF BlockEnds, SubmitFails, Finish, GiveUp, Stop
  <2> QED  BY <2>2, <2>3 DEF Resolvable
<1>7. ASSUME NEW r \in Requests, Submit(r) \/ ReadClock(r) \/ Crash(r) \/ End(r) \/ Requeue(r) \/ AskFails(r) PROVE RowInv'
  BY <1>7 DEF Submit, ReadClock, Crash, End, Requeue, AskFails
<1>8. ASSUME NEW r \in Requests, Bind(r) \/ BindFails(r) PROVE RowInv'
  <2>1. row' = row \/ row' = Bound(r)
    BY <1>8 DEF Bind, BindFails
  <2>2. \A q \in Requests : \/ row'[q].state = row[q].state /\ row'[q].bound = row[q].bound
                            \/ row[q].state = "reserved" /\ row'[q].bound /\ row'[q].state = "committed"
    BY <2>1 DEF Bound
  <2>3. call' = [call EXCEPT ![r] = "waiting"]
    BY <1>8 DEF Bind, BindFails
  <2> QED  BY <2>2, <2>3
<1>9. ASSUME NEW r \in Requests, Ask(r) PROVE RowInv'
  BY <1>9 DEF Ask, Released, Resolvable
<1>10. ASSUME ReconcileDies \/ UNCHANGED vars PROVE RowInv'
  BY <1>10 DEF ReconcileDies, vars
<1> QED
  BY <1>1, <1>3, <1>4, <1>5, <1>6, <1>7, <1>8, <1>9, <1>10 DEF Next

LEMMA QuotaInvCorrect == Spec => [](TypeOK /\ PlaceInv /\ RowInv)
<1>1. Init => PlaceInv /\ RowInv
  BY DEF Init, NoRow, PlaceInv, RowInv
<1>2. TypeOK /\ PlaceInv /\ RowInv /\ [Next]_vars => (TypeOK /\ PlaceInv /\ RowInv)'
  BY TypeStep, PlaceStep, RowStep
<1> QED  BY TypeInit, <1>1, <1>2, PTL DEF Spec

----------------------------------------------------------------------------
(* Every step is a step of the ledger *)

\* A sweep frees the rows it expires, none of them of a job at work.
LEMMA SweepFrees ==
  ASSUME TypeOK, PlaceInv, NEW S \in SUBSET Lapsed
  PROVE  /\ S \subseteq Taken \ Working
         /\ \A q \in Requests : Swept(S)[q].state = (IF q \in S THEN "expired" ELSE row[q].state)
                                /\ Swept(S)[q].bound = row[q].bound
         /\ Counted(S) = Taken \ S
<1>1. \A q \in S : q \in Requests /\ row[q].state = "reserved"
  BY DEF Lapsed
<1>2. S \subseteq Taken \ Working
  BY <1>1 DEF PlaceInv, Taken, Working, Resolvable
<1>3. \A q \in Requests : Swept(S)[q].state = (IF q \in S THEN "expired" ELSE row[q].state)
                          /\ Swept(S)[q].bound = row[q].bound
  BY DEF TypeOK, RowType, Swept
<1> QED  BY <1>2, <1>3 DEF Counted, Taken

\* A sweep gives back what it expires.
LEMMA SweepGivesBack ==
  ASSUME TypeOK, PlaceInv, NEW S \in SUBSET Lapsed, row' = Swept(S), UNCHANGED <<job, adrift>>
  PROVE  Ledger!GiveBack(S) /\ S \in SUBSET Taken
<1>1. Taken' = Taken \ S
  BY SweepFrees DEF Taken, Resolvable
<1>2. Returned' = Returned \cup S
  BY SweepFrees DEF Returned, Lapsed
<1>3. Working' = Working
  BY SweepFrees DEF Working
<1> QED  BY <1>1, <1>2, <1>3, SweepFrees DEF Ledger!GiveBack, Ledger!Frees

\* A release gives back one row, or finds nothing to give back.
LEMMA ReleaseFrees ==
  ASSUME TypeOK, NEW r \in Requests, NEW b \in BOOLEAN, row' = Released(r, b)
  PROVE  /\ \A q \in Requests : row'[q].bound = row[q].bound
         /\ \/ Taken' = Taken /\ Returned' = Returned
            \/ /\ r \in Taken /\ row[r].bound = b
               /\ Taken' = Taken \ {r} /\ Returned' = Returned \cup {r}
<1>1. CASE Resolvable(r) /\ row[r].bound = b
  <2>1. \A q \in Requests : row'[q].state = (IF q = r THEN "released" ELSE row[q].state)
                            /\ row'[q].bound = row[q].bound
    BY <1>1 DEF TypeOK, RowType, Released
  <2>2. Taken' = Taken \ {r}
    BY <2>1 DEF Taken, Resolvable
  <2>3. Returned' = Returned \cup {r}
    BY <2>1 DEF Returned
  <2>4. r \in Taken
    BY <1>1 DEF Taken
  <2> QED  BY <1>1, <2>1, <2>2, <2>3, <2>4
<1>2. CASE ~(Resolvable(r) /\ row[r].bound = b)
  <2>1. row' = row
    BY <1>2 DEF Released
  <2> QED  BY <2>1 DEF Taken, Returned, Resolvable
<1> QED  BY <1>1, <1>2

\* A release by a call that never bound, or for a job that is not at work or
\* stops being, is a step of the ledger.
LEMMA ReleaseStep ==
  ASSUME TypeOK, NEW r \in Requests, NEW b \in BOOLEAN, row' = Released(r, b) \/ row' = row,
         \A q \in Requests \ {r} : q \in Working' <=> q \in Working,
         r \in Working' => r \in Working /\ row' = row
  PROVE  [Ledger!Next]_Ledger!quota
<1>0. /\ \A q \in Requests : row'[q].bound = row[q].bound
      /\ \/ Taken' = Taken /\ Returned' = Returned
         \/ /\ r \in Taken /\ row' # row
            /\ Taken' = Taken \ {r} /\ Returned' = Returned \cup {r}
  <2>1. CASE row' = row
    BY <2>1 DEF Taken, Returned, Resolvable
  <2>2. CASE row' # row
    BY <2>2, ReleaseFrees
  <2> QED  BY <2>1, <2>2
<1>1. Working \subseteq Requests /\ Working' \subseteq Requests
  BY DEF Working
<1>2. CASE r \notin Working
  <2>1. Working' = Working
    BY <1>1, <1>2
  <2>2. CASE Taken' = Taken /\ Returned' = Returned
    BY <2>1, <2>2 DEF Ledger!quota
  <2>3. CASE r \in Taken /\ Taken' = Taken \ {r} /\ Returned' = Returned \cup {r}
    <3>1. {r} \in SUBSET (Taken \ Working)
      BY <1>2, <2>3
    <3>2. Ledger!GiveBack({r}) /\ {r} \in SUBSET Taken
      BY <2>1, <2>3, <3>1 DEF Ledger!GiveBack, Ledger!Frees
    <3> QED  BY <3>2 DEF Ledger!Next
  <2> QED  BY <1>0, <2>2, <2>3
<1>3. CASE r \in Working /\ r \notin Working'
  <2>1. Working' = Working \ {r}
    BY <1>1, <1>3
  <2>2. Ledger!EndWork(r)
    BY <1>0, <1>3, <2>1 DEF Ledger!EndWork
  <2> QED  BY <2>2 DEF Ledger!Next
<1>4. CASE r \in Working /\ r \in Working'
  <2>1. Working' = Working
    BY <1>1, <1>4
  <2> QED  BY <1>4, <2>1 DEF Ledger!quota, Taken, Returned, Resolvable
<1> QED  BY <1>2, <1>3, <1>4

LEMMA LedgerStep ==
  ASSUME TypeOK, PlaceInv, RowInv, [Next]_vars
  PROVE  [Ledger!Next]_Ledger!quota
<1> DEFINE Goal == [Ledger!Next]_Ledger!quota
<1>0. ASSUME UNCHANGED <<row, job, adrift>> PROVE Goal
  BY <1>0 DEF Ledger!quota, Taken, Returned, Working, Resolvable
<1>a. ASSUME NEW S \in SUBSET Lapsed, row' = Swept(S), UNCHANGED <<job, adrift>> PROVE Goal
  BY <1>a, SweepGivesBack DEF Ledger!Next
<1>1. ASSUME NEW r \in Requests, NEW S \in SUBSET Lapsed, Reserve(r, S) PROVE Goal
  <2>1. \A q \in Requests : /\ row'[q].state = IF q = r THEN "reserved"
                                                  ELSE IF q \in S THEN "expired" ELSE row[q].state
                            /\ row'[q].bound = IF q = r THEN FALSE ELSE row[q].bound
    BY <1>1, SweepFrees DEF TypeOK, RowType, Reserve, Swept
  <2>2. row[r].state = "none" /\ job[r] = "none" /\ UNCHANGED <<job, adrift>>
    BY <1>1 DEF Reserve, RowInv, PlaceInv
  <2>3. S \in SUBSET Requests /\ r \notin S /\ \A q \in S : row[q].state = "reserved"
    BY <2>2 DEF Lapsed
  <2>4. Taken' = (Taken \ S) \cup {r} /\ r \notin Taken
    BY <2>1, <2>2, <2>3 DEF Taken, Resolvable
  <2>5. Returned' = Returned \cup S /\ r \notin Returned
    BY <2>1, <2>2, <2>3 DEF Returned
  <2>6. Working' = Working
    BY <2>1, <2>2 DEF Working
  <2>7. S \in SUBSET (Taken \ Working) /\ S \in SUBSET Taken
    BY SweepFrees
  <2>8. GpusOf(Taken \ S) + Gpus[r] <= Limit
    <3>1. GpusOf(Counted(S)) + Gpus[r] <= Limit
      BY <1>1 DEF Reserve
    <3> QED  BY <3>1, SweepFrees
  <2>9. Ledger!Take(r, S)
    BY <2>4, <2>5, <2>6, <2>7, <2>8 DEF Ledger!Take, Ledger!Frees
  <2> QED  BY <2>7, <2>9 DEF Ledger!Next
<1>2. ASSUME NEW r \in Requests, NEW S \in SUBSET Lapsed, Refuse(r, S) PROVE Goal
  BY <1>2, <1>a DEF Refuse
<1>3. ASSUME NEW r \in Requests, Lapse(r) PROVE Goal
  <2>1. \A q \in Requests : row'[q].state = row[q].state /\ row'[q].bound = row[q].bound
    BY <1>3 DEF TypeOK, Lapse
  <2> QED  BY <1>3, <2>1 DEF Lapse, Ledger!quota, Taken, Returned, Working, Resolvable
<1>4. ASSUME NEW r \in Requests, BlockEnds(r) PROVE Goal
  <2>1. /\ row' = Released(r, FALSE) \/ row' = row
        /\ UNCHANGED <<job, adrift>> /\ ~row[r].bound
    BY <1>4 DEF BlockEnds, TryRelease, PlaceInv
  <2>2. \A q \in Requests : row'[q].bound = row[q].bound
    BY <2>1, ReleaseFrees
  <2> QED  BY <2>1, <2>2, ReleaseStep DEF Working
<1>5. ASSUME NEW r \in Requests, Submit(r) PROVE Goal
  <2>1. \A q \in Requests : row'[q].bound /\ q = r => FALSE
    BY <1>5 DEF Submit, PlaceInv
  <2>2. Working' = Working
    BY <1>5, <2>1 DEF Submit, TypeOK, Working
  <2> QED  BY <1>5, <2>2 DEF Submit, Ledger!quota, Taken, Returned, Resolvable
<1>6. ASSUME NEW r \in Requests, SubmitFails(r) PROVE Goal
  <2>1. /\ row' = Released(r, FALSE) \/ row' = row
        /\ adrift' = adrift /\ ~row[r].bound
        /\ \A q \in Requests : q # r => job'[q] = job[q]
    BY <1>6 DEF SubmitFails, TryRelease, PlaceInv, TypeOK
  <2>2. \A q \in Requests : row'[q].bound = row[q].bound
    BY <2>1, ReleaseFrees
  <2> QED  BY <2>1, <2>2, ReleaseStep DEF Working
<1>7. ASSUME NEW r \in Requests, Bind(r) \/ BindFails(r) PROVE Goal
  <2>1. row' \in {row, Bound(r)} /\ UNCHANGED <<job, adrift>> /\ ~row[r].bound
    BY <1>7 DEF Bind, BindFails, PlaceInv
  <2>2. CASE row' = row
    BY <1>0, <2>1, <2>2
  <2>3. CASE row' = Bound(r) /\ Bound(r) # row
    <3>1. \A q \in Requests :
             /\ row'[q].state = IF q = r THEN "committed" ELSE row[q].state
             /\ row'[q].bound = IF q = r THEN TRUE ELSE row[q].bound
      BY <2>3 DEF TypeOK, RowType, Bound
    <3>2. row[r].state = "reserved"
      BY <2>3 DEF Bound
    <3>3. Taken' = Taken /\ Returned' = Returned /\ r \in Taken
      BY <3>1, <3>2 DEF Taken, Returned, Resolvable
    <3>4. Working' = Working \cup {r} \/ Working' = Working
      BY <2>1, <3>1 DEF Working
    <3>5. Ledger!StartWork(r) \/ UNCHANGED Ledger!quota
      BY <3>3, <3>4 DEF Ledger!StartWork, Ledger!quota
    <3> QED  BY <3>5 DEF Ledger!Next
  <2> QED  BY <2>1, <2>2, <2>3
<1>8. ASSUME NEW r \in Requests, ReadClock(r) \/ Crash(r) \/ AskFails(r) PROVE Goal
  BY <1>0, <1>8 DEF ReadClock, Crash, AskFails
<1>9. ASSUME NEW r \in Requests, End(r) \/ Requeue(r) PROVE Goal
  <2>1. row' = row /\ (\A q \in Requests : q # r => job'[q] = job[q] /\ (q \in adrift' <=> q \in adrift))
    BY <1>9 DEF End, Requeue, TypeOK
  <2>2. r \notin Working'
    BY <1>9 DEF End, Requeue, TypeOK, Working
  <2> QED  BY <2>1, <2>2, ReleaseStep DEF Working
<1>10. ASSUME NEW r \in Requests, Finish(r) PROVE Goal
  <2>1. /\ row' = Released(r, TRUE) \/ row' = row
        /\ UNCHANGED <<job, adrift>> /\ job[r] = "ended"
    BY <1>10 DEF Finish, TryRelease
  <2>2. \A q \in Requests : row'[q].bound = row[q].bound
    BY <2>1, ReleaseFrees
  <2> QED  BY <2>1, <2>2, ReleaseStep DEF Working
<1>11. ASSUME NEW r \in Requests, GiveUp(r) \/ Stop(r) PROVE Goal
  <2>1. /\ row' = Released(r, TRUE) \/ row' = row
        /\ \A q \in Requests : q # r => job'[q] = job[q] /\ (q \in adrift' <=> q \in adrift)
        /\ job'[r] # "running" \/ r \in adrift'
    BY <1>11 DEF GiveUp, Stop, TryRelease, TypeOK
  <2>2. \A q \in Requests : row'[q].bound = row[q].bound
    BY <2>1, ReleaseFrees
  <2> QED  BY <2>1, <2>2, ReleaseStep DEF Working
<1>12. ASSUME NEW r \in Requests, Ask(r) PROVE Goal
  <2>1. /\ row' = row \/ (row' = Released(r, TRUE) /\ job[r] = "ended")
        /\ UNCHANGED <<job, adrift>>
    BY <1>12 DEF Ask
  <2>2. CASE row' = row
    BY <1>0, <2>1, <2>2
  <2>3. CASE row' = Released(r, TRUE) /\ job[r] = "ended"
    <3>1. \A q \in Requests : row'[q].bound = row[q].bound
      BY <2>3, ReleaseFrees
    <3> QED  BY <2>1, <2>3, <3>1, ReleaseStep DEF Working
  <2> QED  BY <2>1, <2>2, <2>3
<1>13. ASSUME NEW S \in SUBSET Lapsed, Reconcile(S) PROVE Goal
  BY <1>13, <1>a DEF Reconcile
<1>14. ASSUME ReconcileDies \/ UNCHANGED vars PROVE Goal
  BY <1>0, <1>14 DEF ReconcileDies, vars
<1> QED
  BY <1>1, <1>2, <1>3, <1>4, <1>5, <1>6, <1>7, <1>8, <1>9, <1>10, <1>11, <1>12, <1>13, <1>14 DEF Next

\* The reservation table keeps what the ledger promises: GPUs are taken only
\* while they fit, each request's once, and never given back under a job at
\* work (reserve, release_by_holder, bind_and_commit, reconcile_job_reservations).
THEOREM QuotaRefinement == Spec => ImplementsQuota
<1>1. Init => Ledger!Init
  BY DEF Init, NoRow, Ledger!Init, Taken, Returned, Working, Resolvable
<1>2. TypeOK /\ PlaceInv /\ RowInv /\ [Next]_vars => [Ledger!Next]_Ledger!quota
  BY LedgerStep
<1> QED  BY <1>1, <1>2, QuotaInvCorrect, PTL DEF Spec, ImplementsQuota, Ledger!Spec

----------------------------------------------------------------------------
(* What the ledger keeps *)

\* GPUs of a part are no more than those of the whole.
LEMMA UnitsOfPart ==
  ASSUME NEW A \in SUBSET Requests, NEW B \in SUBSET A, IsFiniteSet(Units(A))
  PROVE  IsFiniteSet(Units(B)) /\ GpusOf(B) <= GpusOf(A) /\ GpusOf(A) \in Nat /\ GpusOf(B) \in Nat
<1>1. Units(B) \in SUBSET Units(A)
  BY DEF Units
<1> QED  BY <1>1, FS_Subset, FS_CardinalityType DEF GpusOf, Units

\* One request's GPUs.
LEMMA UnitsOfOne ==
  ASSUME NEW r \in Requests
  PROVE  IsFiniteSet({r} \X (1 .. Gpus[r])) /\ Cardinality({r} \X (1 .. Gpus[r])) = Gpus[r]
<1>1. Gpus[r] \in Nat
  BY QuotaAssumption
<1>2. IsFiniteSet(1 .. Gpus[r]) /\ Cardinality(1 .. Gpus[r]) = Gpus[r]
  BY <1>1, FS_Interval
<1>3. IsFiniteSet({r}) /\ Cardinality({r}) = 1
  BY FS_Singleton
<1>4. Cardinality({r} \X (1 .. Gpus[r])) = 1 * Gpus[r] /\ IsFiniteSet({r} \X (1 .. Gpus[r]))
  BY <1>2, <1>3, FS_Product
<1> QED  BY <1>1, <1>4

\* A request adds no more than its GPUs.
LEMMA UnitsOfMore ==
  ASSUME NEW A \in SUBSET Requests, NEW r \in Requests, IsFiniteSet(Units(A))
  PROVE  IsFiniteSet(Units(A \cup {r})) /\ GpusOf(A \cup {r}) <= GpusOf(A) + Gpus[r]
<1> DEFINE One == {r} \X (1 .. Gpus[r])
<1>1. Units(A \cup {r}) = Units(A) \cup One
  BY DEF Units
<1>2. IsFiniteSet(One) /\ Cardinality(One) = Gpus[r] /\ Gpus[r] \in Nat
  BY UnitsOfOne, QuotaAssumption
<1>3. IsFiniteSet(Units(A) \cap One)
  BY FS_Intersection
<1>4. Cardinality(Units(A) \cap One) \in Nat /\ Cardinality(Units(A)) \in Nat
  BY <1>3, FS_CardinalityType
<1> HIDE DEF One
<1>5. IsFiniteSet(Units(A) \cup One)
      /\ Cardinality(Units(A) \cup One) = Cardinality(Units(A)) + Gpus[r] - Cardinality(Units(A) \cap One)
  BY <1>2, FS_Union
<1>6. GpusOf(A) = Cardinality(Units(A)) /\ GpusOf(A \cup {r}) = Cardinality(Units(A \cup {r}))
  BY DEF GpusOf, Units
<1>7. IsFiniteSet(Units(A \cup {r}))
      /\ GpusOf(A \cup {r}) = GpusOf(A) + Gpus[r] - Cardinality(Units(A) \cap One)
  BY <1>1, <1>5, <1>6, Zenon
<1> QED  BY <1>2, <1>4, <1>6, <1>7

\* No step of the ledger exceeds the limit.
LEMMA LimitStep ==
  ASSUME LimitInv, [Ledger!Next]_Ledger!quota
  PROVE  LimitInv'
<1>0. Taken \in SUBSET Requests /\ Taken' \in SUBSET Requests /\ Limit \in Nat
  BY QuotaAssumption DEF Taken
<1>s. Units(Taken)' = Units(Taken') /\ GpusOf(Taken)' = GpusOf(Taken')
  BY DEF Units, GpusOf
<1>1. CASE Taken' \subseteq Taken
  <2>1. Taken' \in SUBSET Taken
    BY <1>1
  <2>2. IsFiniteSet(Units(Taken')) /\ GpusOf(Taken') <= GpusOf(Taken)
        /\ GpusOf(Taken) \in Nat /\ GpusOf(Taken') \in Nat
    BY <1>0, <2>1, UnitsOfPart DEF LimitInv
  <2> QED  BY <1>0, <1>s, <2>2 DEF LimitInv
<1>2. ASSUME NEW r \in Requests, NEW B \in SUBSET Taken, Ledger!Take(r, B)
      PROVE  LimitInv'
  <2>1. Taken \ B \in SUBSET Taken
    OBVIOUS
  <2>2. Taken' = (Taken \ B) \cup {r} /\ GpusOf(Taken \ B) + Gpus[r] <= Limit
    BY <1>2 DEF Ledger!Take
  <2>3. IsFiniteSet(Units(Taken \ B)) /\ GpusOf(Taken \ B) \in Nat
    BY <1>0, <2>1, UnitsOfPart DEF LimitInv
  <2>4. IsFiniteSet(Units(Taken')) /\ GpusOf(Taken') <= GpusOf(Taken \ B) + Gpus[r]
    BY <1>0, <2>1, <2>2, <2>3, UnitsOfMore
  <2>5. Gpus[r] \in Nat /\ GpusOf(Taken') \in Nat
    BY <2>4, FS_CardinalityType, QuotaAssumption DEF GpusOf, Units
  <2> QED  BY <1>0, <1>s, <2>2, <2>3, <2>4, <2>5 DEF LimitInv
<1>3. Taken' \subseteq Taken \/ \E r \in Requests, B \in SUBSET Taken : Ledger!Take(r, B)
  BY DEF Ledger!Next, Ledger!quota, Ledger!GiveBack, Ledger!StartWork, Ledger!EndWork
<1> QED  BY <1>1, <1>2, <1>3

\* Nor does one take the GPUs of a job at work, or take GPUs up again.
LEMMA PaidStep ==
  ASSUME Ledger!WorkIsPaid, Ledger!TakenOnce, [Ledger!Next]_Ledger!quota
  PROVE  Ledger!WorkIsPaid' /\ Ledger!TakenOnce'
  BY DEF Ledger!WorkIsPaid, Ledger!TakenOnce, Ledger!Next, Ledger!quota, Ledger!Take, Ledger!GiveBack,
         Ledger!Frees, Ledger!StartWork, Ledger!EndWork

\* The ledger keeps the limit, pays for all work, and takes nothing up twice.
THEOREM QuotaLedgerCorrect ==
  Ledger!Spec => [](LimitInv /\ Ledger!WithinLimit /\ Ledger!WorkIsPaid /\ Ledger!TakenOnce)
<1>1. Ledger!Init => LimitInv /\ Ledger!WorkIsPaid /\ Ledger!TakenOnce
  <2> SUFFICES ASSUME Ledger!Init PROVE LimitInv /\ Ledger!WorkIsPaid /\ Ledger!TakenOnce
    OBVIOUS
  <2>1. Taken = {} /\ Units({}) = {}
    BY DEF Ledger!Init, Units
  <2>2. LimitInv
    BY <2>1, FS_EmptySet, QuotaAssumption DEF LimitInv, GpusOf, Units
  <2> QED  BY <2>2 DEF Ledger!Init, Ledger!WorkIsPaid, Ledger!TakenOnce
<1>2. LimitInv /\ [Ledger!Next]_Ledger!quota => LimitInv'
  BY LimitStep
<1>3. Ledger!WorkIsPaid /\ Ledger!TakenOnce /\ [Ledger!Next]_Ledger!quota
        => (Ledger!WorkIsPaid /\ Ledger!TakenOnce)'
  BY PaidStep
<1>4. LimitInv => Ledger!WithinLimit
  BY DEF LimitInv, Ledger!WithinLimit
<1> QED  BY <1>1, <1>2, <1>3, <1>4, PTL DEF Ledger!Spec

----------------------------------------------------------------------------
(* What the reservation table keeps *)

\* The project never holds more GPUs than its limit, whatever lapses or is
\* committed late: what it holds is among what the ledger has taken (reserve).
THEOREM LimitCorrect == Spec => []LimitHolds
<1>1. LimitInv => LimitHolds
  <2> SUFFICES ASSUME LimitInv PROVE LimitHolds
    OBVIOUS
  <2> DEFINE Held == {r \in Requests : Holds(r)}
  <2>1. Taken \in SUBSET Requests /\ Held \in SUBSET Taken
    BY DEF Taken, Holds, Resolvable
  <2> HIDE DEF Held
  <2>2. GpusOf(Held) <= GpusOf(Taken) /\ GpusOf(Taken) \in Nat /\ GpusOf(Held) \in Nat
    BY <2>1, UnitsOfPart DEF LimitInv
  <2>3. GpusOf(Held) <= Limit
    BY <2>2, QuotaAssumption DEF LimitInv
  <2> QED  BY <2>3 DEF LimitHolds, Held
<1> QED  BY <1>1, QuotaRefinement, QuotaLedgerCorrect, PTL DEF ImplementsQuota

\* A job that runs has its quota, from its submission while its reservation
\* is ahead and for good once bound (bind_and_commit, reconcile_job_reservations).
THEOREM HeldCorrect == Spec => []RunningIsHeld
<1>1. PlaceInv => RunningIsHeld
  BY DEF PlaceInv, RunningIsHeld, Guarded, Holds
<1> QED  BY <1>1, QuotaInvCorrect, PTL

\* What reconcile has to find is there to be found: a row that holds GPUs is a
\* reservation that lapses by itself, or is listed under the id of its job.
THEOREM HeldIsListed ==
  Spec => [](\A r \in Requests : Holds(r) => row[r].state = "reserved" \/ r \in JobHolders)
<1>1. RowInv => \A r \in Requests : Holds(r) => row[r].state = "reserved" \/ r \in JobHolders
  BY DEF RowInv, Holds, JobHolders
<1> QED  BY <1>1, QuotaInvCorrect, PTL
=============================================================================
