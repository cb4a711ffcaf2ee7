---------------------------- MODULE PlansProofs ----------------------------
(***************************************************************************)
(* Plans, for any worlds, appliers and bounds: plan and apply keep a       *)
(* ledger of plannings, each claimed and executed once; an execution has   *)
(* policy's or a human's leave; and an applied plan was executed.          *)
(***************************************************************************)
EXTENDS Plans, SequenceTheorems, TLAPS

\* The applies that hold a claim, also those that do no longer act (MayAct).
InFlight(a) == apply[a].at \in {"check", "act", "applied", "failed"}

\* Every claim of an apply is of a planning that is over as soon as the plan
\* reads planned again; no two are of one planning.
Taken(h, n) == n <= planned[h] /\ (plan[h].state = "planned" => n < planned[h])
ClaimsInv ==
    /\ \A a \in Appliers : apply[a].at # "idle" => apply[a].hash \in Worlds
    /\ \A a \in Appliers : InFlight(a) => Taken(apply[a].hash, apply[a].claimed)
    /\ \A a, b \in Appliers : InFlight(a) /\ InFlight(b) /\ a # b /\ apply[a].hash = apply[b].hash
                                => apply[a].claimed # apply[b].claimed

\* A token stands for the planning it was minted in: in the row, in an apply
\* that read it, and in an execution.
Stands(t, h, n) == t # None => t \in 1 .. Len(minted) /\ minted[t] = [hash |-> h, planning |-> n]
TokensInv ==
    /\ \A h \in Worlds : Stands(plan[h].approval, h, planned[h])
    /\ \A a \in Appliers : apply[a].at # "idle" => Stands(apply[a].approval, apply[a].hash, apply[a].read)
    /\ \A a \in Appliers : apply[a].approved => apply[a].token # None /\ apply[a].token = apply[a].approval
    /\ \A i \in 1 .. Len(acted) :
          /\ Stands(acted[i].token, acted[i].hash, acted[i].read)
          /\ acted[i].policy = "allow" \/ (acted[i].policy = "require" /\ acted[i].token # None)

\* Unless the plan was planned again under it, an apply holds the current
\* planning of a plan that is applying, and one that says applied was executed.
Executed(h, n) == \E i \in 1 .. Len(acted) : acted[i].hash = h /\ acted[i].claimed = n
AppliesInv ==
    /\ \A a \in Appliers : InFlight(a) /\ apply[a].hash \notin replanned
          => plan[apply[a].hash].state = "applying" /\ apply[a].claimed = planned[apply[a].hash]
    /\ \A a \in Appliers : apply[a].at = "applied" => Executed(apply[a].hash, apply[a].claimed)
    /\ AppliedIsTrue

PlansInv == TypeOK /\ ClaimsInv /\ TokensInv /\ AppliesInv

----------------------------------------------------------------------------
(* Types *)

\* A record of an apply with some fields written.
LEMMA AtTyped ==
  ASSUME NEW x \in Calls, NEW p \in {"idle", "expire", "gate", "claim", "check", "act", "applied", "failed"}
  PROVE  /\ [x EXCEPT !.at = p] \in Calls
         /\ \A b \in BOOLEAN : [x EXCEPT !.at = p, !.approved = b] \in Calls
         /\ \A n \in Nat : [x EXCEPT !.at = p, !.claimed = n] \in Calls
  BY DEF Calls

LEMMA IdleTyped == Idle \in Calls
  BY DEF Idle, Calls, MaybeToken

LEMMA FaultTyped ==
  ASSUME budget \in [plans : 0 .. MaxPlannings, faults : 0 .. MaxFaults], UseFault
  PROVE  budget' \in [plans : 0 .. MaxPlannings, faults : 0 .. MaxFaults]
<1>1. budget.faults + 1 \in 0 .. MaxFaults
  BY PlansAssumption DEF UseFault
<1>2. QED
  BY <1>1 DEF UseFault

\* A plan whose state is written.
LEMMA RowTyped ==
  ASSUME plan \in [Worlds -> Rows], NEW h
  PROVE  /\ \A s \in PlanStates : [plan EXCEPT ![h].state = s] \in [Worlds -> Rows]
         /\ [plan EXCEPT ![h].state = "applying"] \in [Worlds -> Rows]
         /\ [plan EXCEPT ![h].state = IF @ = "planned" THEN "expired" ELSE @] \in [Worlds -> Rows]
<1>1. ASSUME NEW s \in PlanStates PROVE [plan EXCEPT ![h].state = s] \in [Worlds -> Rows]
  BY DEF Rows
<1>2. "applying" \in PlanStates /\ "expired" \in PlanStates
  BY DEF PlanStates
<1>3. [plan EXCEPT ![h].state = IF @ = "planned" THEN "expired" ELSE @] \in [Worlds -> Rows]
  <2> DEFINE s == IF plan[h].state = "planned" THEN "expired" ELSE plan[h].state
  <2>1. CASE h \in Worlds
    <3>1. s \in PlanStates
      BY <1>2, <2>1 DEF Rows
    <3>2. [plan EXCEPT ![h].state = s] \in [Worlds -> Rows]
      BY <1>1, <3>1
    <3>3. QED
      BY <3>2
  <2>2. CASE h \notin Worlds
    BY <2>2
  <2>3. QED
    BY <2>1, <2>2
<1>4. QED
  BY <1>1, <1>2, <1>3

LEMMA FinishedTyped ==
  ASSUME plan \in [Worlds -> Rows], NEW h, NEW s \in {"applied", "failed", "rejected"}
  PROVE  Finished(h, s) \in [Worlds -> Rows]
  BY DEF Finished, Rows, PlanStates

LEMMA TypeInit == Init => TypeOK
  BY PlansAssumption, IdleTyped DEF Init, TypeOK, NoPlan, Rows, PlanStates, MaybeToken, Mints, Acts

LEMMA TypeStep ==
  ASSUME TypeOK, ClaimsInv, TokensInv, Next
  PROVE  TypeOK'
<1>t. /\ world \in Worlds /\ policy \in Policies /\ plan \in [Worlds -> Rows] /\ apply \in [Appliers -> Calls]
      /\ snapshots \subseteq [hash : Worlds, required : BOOLEAN]
      /\ planned \in [Worlds -> Nat] /\ replanned \subseteq Worlds
      /\ minted \in Seq(Mints) /\ Len(minted) <= MaxTokens /\ acted \in Seq(Acts)
      /\ budget \in [plans : 0 .. MaxPlannings, faults : 0 .. MaxFaults]
      /\ Len(minted) \in Nat /\ MaxTokens \in Nat
  BY PlansAssumption DEF TypeOK
<1>1. CASE Snapshot
  <2>1. budget' \in [plans : 0 .. MaxPlannings, faults : 0 .. MaxFaults]
    <3>1. budget.plans + 1 \in 0 .. MaxPlannings
      BY <1>t, <1>1, PlansAssumption DEF Snapshot
    <3>2. QED
      BY <1>t, <1>1, <3>1 DEF Snapshot
  <2>2. snapshots' \subseteq [hash : Worlds, required : BOOLEAN]
    <3> DEFINE q == policy = "require" \/ Hitl
    <3>1. q \in BOOLEAN
      BY PlansAssumption
    <3>2. snapshots' = snapshots \cup {[hash |-> world, required |-> q]}
      BY <1>1 DEF Snapshot
    <3> HIDE DEF q
    <3>3. [hash |-> world, required |-> q] \in [hash : Worlds, required : BOOLEAN]
      BY <1>t, <3>1
    <3>4. QED
      BY <1>t, <3>2, <3>3
  <2>3. QED
    BY <1>t, <1>1, <2>1, <2>2 DEF TypeOK, Snapshot
<1>2. ASSUME NEW s \in snapshots, Put(s) PROVE TypeOK'
  <2>1. s.hash \in Worlds /\ s.required \in BOOLEAN
    BY <1>t
  <2>2. Reset(s.hash, s.required) \in Rows
    BY <2>1 DEF Reset, Rows, PlanStates, MaybeToken
  <2>3. plan' \in [Worlds -> Rows] /\ planned' \in [Worlds -> Nat] /\ replanned' \subseteq Worlds
    <3>1. CASE UNCHANGED <<plan, planned, replanned>>
      BY <1>t, <3>1
    <3>2. CASE /\ plan' = [plan EXCEPT ![s.hash] = Reset(s.hash, s.required)]
               /\ planned' = [planned EXCEPT ![s.hash] = @ + 1]
               /\ replanned' = IF plan[s.hash].state = "applying" THEN replanned \cup {s.hash} ELSE replanned
      BY <1>t, <2>1, <2>2, <3>2
    <3>3. QED
      BY <1>2, <3>1, <3>2 DEF Put
  <2>4. snapshots' \subseteq snapshots
    BY <1>2 DEF Put
  <2>5. QED
    BY <1>t, <1>2, <2>3, <2>4 DEF TypeOK, Put
<1>3. ASSUME NEW h \in Worlds, Approve(h) PROVE TypeOK'
  <2>1. [hash |-> h, planning |-> planned[h]] \in Mints
    BY <1>t DEF Mints
  <2>2. minted' \in Seq(Mints) /\ Len(minted') = Len(minted) + 1
    BY <1>t, <1>3, <2>1 DEF Approve
  <2>3. Len(minted) + 1 \in Tokens
    BY <1>t, <1>3 DEF Approve, Tokens
  <2>4. plan' \in [Worlds -> Rows]
    BY <1>t, <1>3, <2>3 DEF Approve, Rows, MaybeToken
  <2>5. QED
    BY <1>t, <1>3, <2>2, <2>3, <2>4 DEF TypeOK, Approve, Tokens
<1>4. ASSUME NEW h \in Worlds, Expire(h) PROVE TypeOK'
  BY <1>t, <1>4 DEF TypeOK, Expire, Rows
<1>5. CASE ChangeWorld \/ ChangePolicy
  BY <1>5 DEF TypeOK, ChangeWorld, ChangePolicy
<1>6. ASSUME NEW a \in Appliers, NEW h \in Worlds, NEW t \in Tokens \cup {None}, ApplyRead(a, h, t)
      PROVE  TypeOK'
  <2>1. [at |-> IF plan[h].live THEN "gate" ELSE "expire", hash |-> h, token |-> t,
         approval |-> plan[h].approval, required |-> plan[h].required,
         approved |-> FALSE, read |-> planned[h], claimed |-> 0] \in Calls
    BY <1>t DEF Rows, Calls, MaybeToken
  <2>2. apply' \in [Appliers -> Calls]
    BY <1>t, <1>6, <2>1 DEF ApplyRead
  <2>3. QED
    BY <1>6, <2>2 DEF TypeOK, ApplyRead
<1>7. ASSUME NEW a \in Appliers, MarkExpired(a) \/ Crash(a) PROVE TypeOK'
  <2>1. apply' \in [Appliers -> Calls]
    BY <1>t, <1>7, IdleTyped DEF MarkExpired, Crash
  <2>2. CASE MarkExpired(a)
    <3>1. plan' \in [Worlds -> Rows]
      BY <1>t, <2>2, RowTyped DEF MarkExpired
    <3>2. QED
      BY <2>1, <2>2, <3>1 DEF TypeOK, MarkExpired
  <2>3. CASE Crash(a)
    BY <1>t, <2>1, <2>3, FaultTyped DEF TypeOK, Crash
  <2>4. QED
    BY <1>7, <2>2, <2>3
<1>8. ASSUME NEW a \in Appliers, Gate(a) PROVE TypeOK'
  <2>1. apply[a] \in Calls /\ apply[a].required \in BOOLEAN
    BY <1>t DEF Calls
  <2>2. NeedsHuman(a) \in BOOLEAN
    BY <2>1, PlansAssumption DEF NeedsHuman
  <2>3. [apply[a] EXCEPT !.at = "claim", !.approved = NeedsHuman(a)] \in Calls
    BY <2>1, <2>2, AtTyped
  <2>4. apply' \in [Appliers -> Calls]
    BY <1>t, <1>8, <2>3, IdleTyped DEF Gate
  <2>5. QED
    BY <1>8, <2>4 DEF TypeOK, Gate
<1>9. ASSUME NEW a \in Appliers, Claim(a) PROVE TypeOK'
  <2>1. apply[a] \in Calls /\ apply[a].hash \in Worlds
    BY <1>t, <1>9 DEF Claim, ClaimsInv
  <2>2. [apply[a] EXCEPT !.at = "check", !.claimed = planned[apply[a].hash]] \in Calls
    BY <1>t, <2>1, AtTyped
  <2>3. apply' \in [Appliers -> Calls]
    BY <1>t, <1>9, <2>2, IdleTyped DEF Claim
  <2>4. plan' \in [Worlds -> Rows]
    <3>1. [plan EXCEPT ![apply[a].hash].state = "applying"] \in [Worlds -> Rows]
      BY <1>t, RowTyped
    <3>2. plan' = [plan EXCEPT ![apply[a].hash].state = "applying"] \/ plan' = plan
      BY <1>9 DEF Claim
    <3>3. QED
      BY <1>t, <3>1, <3>2
  <2>5. QED
    BY <1>9, <2>3, <2>4 DEF TypeOK, Claim
<1>10. ASSUME NEW a \in Appliers, Check(a) PROVE TypeOK'
  <2>1. apply[a] \in Calls /\ [apply[a] EXCEPT !.at = "act"] \in Calls
    BY <1>t, AtTyped
  <2>2. apply' \in [Appliers -> Calls]
    BY <1>t, <1>10, <2>1, IdleTyped DEF Check
  <2>3. plan' \in [Worlds -> Rows]
    BY <1>t, <1>10, FinishedTyped DEF Check
  <2>4. budget' \in [plans : 0 .. MaxPlannings, faults : 0 .. MaxFaults]
    BY <1>t, <1>10, FaultTyped DEF Check
  <2>5. QED
    BY <1>10, <2>2, <2>3, <2>4 DEF TypeOK, Check
<1>11. ASSUME NEW a \in Appliers, Act(a) PROVE TypeOK'
  <2> DEFINE e == [hash |-> apply[a].hash, read |-> apply[a].read, claimed |-> apply[a].claimed,
                   token |-> IF apply[a].approved THEN apply[a].token ELSE None, policy |-> policy]
  <2>1. /\ apply[a] \in Calls /\ apply[a].hash \in Worlds
        /\ [apply[a] EXCEPT !.at = "applied"] \in Calls /\ [apply[a] EXCEPT !.at = "failed"] \in Calls
    BY <1>t, <1>11, AtTyped DEF Act, ClaimsInv
  <2>2. e \in Acts
    BY <1>t, <2>1 DEF Calls, Acts, MaybeToken
  <2>3. acted' \in Seq(Acts)
    <3>1. acted' = Append(acted, e)
      BY <1>11 DEF Act
    <3> HIDE DEF e
    <3>2. QED
      BY <1>t, <2>2, <3>1
  <2>4. apply' \in [Appliers -> Calls]
    BY <1>t, <1>11, <2>1 DEF Act
  <2>5. budget' \in [plans : 0 .. MaxPlannings, faults : 0 .. MaxFaults]
    BY <1>t, <1>11, FaultTyped DEF Act
  <2>6. QED
    BY <1>t, <1>11, <2>3, <2>4, <2>5 DEF TypeOK, Act
<1>12. ASSUME NEW a \in Appliers, ActFails(a) PROVE TypeOK'
  <2>1. [apply[a] EXCEPT !.at = "failed"] \in Calls
    BY <1>t, AtTyped
  <2>2. budget' \in [plans : 0 .. MaxPlannings, faults : 0 .. MaxFaults]
    BY <1>t, <1>12, FaultTyped DEF ActFails
  <2>3. QED
    BY <1>t, <1>12, <2>1, <2>2 DEF TypeOK, ActFails
<1>13. ASSUME NEW a \in Appliers, Finish(a) PROVE TypeOK'
  BY <1>t, <1>13, IdleTyped, FinishedTyped DEF TypeOK, Finish
<1>14. QED
  BY <1>1, <1>2, <1>3, <1>4, <1>5, <1>6, <1>7, <1>8, <1>9, <1>10, <1>11, <1>12, <1>13
  DEF Next, ApplyStep

----------------------------------------------------------------------------
(* Claims *)

\* The step of an apply: the others keep their record, its own is written.
LEMMA OneApplies ==
  ASSUME TypeOK, NEW a \in Appliers, NEW r, apply' = [apply EXCEPT ![a] = r]
  PROVE  apply'[a] = r /\ \A b \in Appliers : b # a => apply'[b] = apply[b]
  BY DEF TypeOK

LEMMA ClaimsTyped ==
  ASSUME TypeOK, ClaimsInv
  PROVE  /\ \A h \in Worlds : planned[h] \in Nat
         /\ \A a \in Appliers : apply[a].claimed \in Nat
         /\ \A a \in Appliers : apply[a].at # "idle" => apply[a].hash \in Worlds
         /\ \A i \in 1 .. Len(acted) : acted[i].hash \in Worlds /\ acted[i].claimed \in Nat
<1>1. \A a \in Appliers : apply[a] \in Calls
  BY DEF TypeOK
<1>2. \A i \in 1 .. Len(acted) : acted[i] \in Acts
  BY DEF TypeOK
<1>3. QED
  BY <1>1, <1>2 DEF TypeOK, ClaimsInv, Calls, Acts

\* A step that claims nothing, and that makes no plan planned again without
\* counting it.
LEMMA ClaimsKept ==
  ASSUME TypeOK, ClaimsInv,
         \A h \in Worlds, n \in Nat : Taken(h, n) => Taken(h, n)',
         \A a \in Appliers : apply'[a].at # "idle" => apply'[a].hash \in Worlds,
         \A a \in Appliers : InFlight(a)' => /\ InFlight(a)
                                           /\ apply'[a].hash = apply[a].hash
                                           /\ apply'[a].claimed = apply[a].claimed
  PROVE  ClaimsInv'
<1>t. \A a \in Appliers : apply[a].claimed \in Nat
  BY ClaimsTyped
<1>1. \A a \in Appliers : InFlight(a)' => Taken(apply[a].hash, apply[a].claimed)'
  <2>1. \A a \in Appliers : InFlight(a) => Taken(apply[a].hash, apply[a].claimed) /\ apply[a].hash \in Worlds
    BY DEF ClaimsInv, InFlight
  <2>2. \A a \in Appliers : InFlight(a)' =>
            apply'[a].claimed <= planned'[apply'[a].hash]
            /\ (plan'[apply'[a].hash].state = "planned" => apply'[a].claimed < planned'[apply'[a].hash])
    BY <1>t, <2>1 DEF Taken
  <2>3. QED
    BY <2>2 DEF Taken
<1>2. \A a, b \in Appliers : InFlight(a)' /\ InFlight(b)' /\ a # b /\ apply'[a].hash = apply'[b].hash
                                => apply'[a].claimed # apply'[b].claimed
  BY DEF ClaimsInv
<1>3. QED
  BY <1>1, <1>2 DEF ClaimsInv

\* The step of an apply that only moves it, and may end its plan.
LEMMA ClaimsMoved ==
  ASSUME TypeOK, ClaimsInv, planned' = planned,
         \A h \in Worlds : plan'[h].state = "planned" => plan[h].state = "planned",
         NEW a \in Appliers, NEW r, apply' = [apply EXCEPT ![a] = r],
         r.at # "idle" => r.hash \in Worlds,
         r.at \in {"check", "act", "applied", "failed"}
            => InFlight(a) /\ r.hash = apply[a].hash /\ r.claimed = apply[a].claimed
  PROVE  ClaimsInv'
<1>1. apply'[a] = r /\ \A b \in Appliers : b # a => apply'[b] = apply[b]
  BY OneApplies
<1>2. \A h \in Worlds, n \in Nat : Taken(h, n) => Taken(h, n)'
  BY DEF Taken
<1>3. \A b \in Appliers : apply'[b].at # "idle" => apply'[b].hash \in Worlds
  BY <1>1 DEF ClaimsInv
<1>4. \A b \in Appliers : InFlight(b)' => /\ InFlight(b)
                                          /\ apply'[b].hash = apply[b].hash
                                          /\ apply'[b].claimed = apply[b].claimed
  BY <1>1 DEF InFlight
<1>5. QED
  BY <1>2, <1>3, <1>4, ClaimsKept

LEMMA ClaimsStep ==
  ASSUME TypeOK, TypeOK', ClaimsInv, Next
  PROVE  ClaimsInv'
<1>t. /\ \A h \in Worlds : planned[h] \in Nat
      /\ \A a \in Appliers : apply[a].claimed \in Nat
      /\ \A a \in Appliers : apply[a].at # "idle" => apply[a].hash \in Worlds
      /\ plan \in [Worlds -> Rows] /\ planned \in [Worlds -> Nat] /\ apply \in [Appliers -> Calls]
  BY ClaimsTyped DEF TypeOK
<1>0. ASSUME UNCHANGED <<apply, planned>>,
             \A h \in Worlds : plan'[h].state = "planned" => plan[h].state = "planned"
      PROVE  ClaimsInv'
  <2>1. \A h \in Worlds, n \in Nat : Taken(h, n) => Taken(h, n)'
    BY <1>0 DEF Taken
  <2>2. /\ \A a \in Appliers : apply'[a].at # "idle" => apply'[a].hash \in Worlds
        /\ \A a \in Appliers : InFlight(a)' => /\ InFlight(a)
                                             /\ apply'[a].hash = apply[a].hash
                                             /\ apply'[a].claimed = apply[a].claimed
    BY <1>t, <1>0 DEF InFlight
  <2>3. QED
    BY <1>0, <2>1, <2>2, ClaimsKept
<1>i. Idle.at = "idle"
  BY DEF Idle
<1>1. CASE Snapshot \/ ChangeWorld \/ ChangePolicy
  BY <1>0, <1>1 DEF Snapshot, ChangeWorld, ChangePolicy
<1>2. ASSUME NEW h \in Worlds, Approve(h) \/ Expire(h) PROVE ClaimsInv'
  <2>1. \A g \in Worlds : plan'[g].state = plan[g].state
    <3>1. CASE Approve(h)
      BY <1>t, <3>1 DEF Approve, Rows
    <3>2. CASE Expire(h)
      BY <1>t, <3>2 DEF Expire, Rows
    <3>3. QED
      BY <1>2, <3>1, <3>2
  <2>2. QED
    BY <1>0, <1>2, <2>1 DEF Approve, Expire
<1>3. ASSUME NEW s \in snapshots, Put(s) PROVE ClaimsInv'
  <2>1. CASE UNCHANGED <<plan, planned, replanned>>
    BY <1>0, <1>3, <2>1 DEF Put
  <2>2. CASE /\ plan' = [plan EXCEPT ![s.hash] = Reset(s.hash, s.required)]
             /\ planned' = [planned EXCEPT ![s.hash] = @ + 1]
    <3>1. s.hash \in Worlds
      BY DEF TypeOK
    <3>2. \A h \in Worlds, n \in Nat : Taken(h, n) => Taken(h, n)'
      BY <1>t, <2>2, <3>1 DEF Taken
    <3>3. UNCHANGED apply
      BY <1>3 DEF Put
    <3>4. /\ \A a \in Appliers : apply'[a].at # "idle" => apply'[a].hash \in Worlds
          /\ \A a \in Appliers : InFlight(a)' => /\ InFlight(a)
                                               /\ apply'[a].hash = apply[a].hash
                                               /\ apply'[a].claimed = apply[a].claimed
      BY <1>t, <3>3 DEF InFlight
    <3>5. QED
      BY <3>2, <3>3, <3>4, ClaimsKept
  <2>3. QED
    BY <1>3, <2>1, <2>2 DEF Put
<1>4. ASSUME NEW a \in Appliers, NEW h \in Worlds, NEW t \in Tokens \cup {None}, ApplyRead(a, h, t)
      PROVE  ClaimsInv'
  <2> DEFINE r == [at |-> IF plan[h].live THEN "gate" ELSE "expire", hash |-> h, token |-> t,
                   approval |-> plan[h].approval, required |-> plan[h].required,
                   approved |-> FALSE, read |-> planned[h], claimed |-> 0]
  <2>1. apply' = [apply EXCEPT ![a] = r] /\ UNCHANGED <<plan, planned>>
    BY <1>4 DEF ApplyRead
  <2>2. r.hash \in Worlds /\ r.at \in {"gate", "expire"}
    OBVIOUS
  <2> HIDE DEF r
  <2>3. QED
    BY <2>1, <2>2, ClaimsMoved
<1>5. ASSUME NEW a \in Appliers, MarkExpired(a) \/ Crash(a) \/ Finish(a) PROVE ClaimsInv'
  <2>1. apply' = [apply EXCEPT ![a] = Idle] /\ UNCHANGED planned
    BY <1>5 DEF MarkExpired, Crash, Finish
  <2>2. \A h \in Worlds : plan'[h].state = "planned" => plan[h].state = "planned"
    <3>1. CASE MarkExpired(a)
      BY <1>t, <3>1 DEF MarkExpired, Rows
    <3>2. CASE Crash(a)
      BY <3>2 DEF Crash
    <3>3. CASE Finish(a)
      BY <1>t, <3>3 DEF Finish, Finished, Rows
    <3>4. QED
      BY <1>5, <3>1, <3>2, <3>3
  <2>3. QED
    BY <1>i, <2>1, <2>2, ClaimsMoved
<1>6. ASSUME NEW a \in Appliers, Gate(a) PROVE ClaimsInv'
  <2>1. apply[a] \in Calls /\ apply[a].hash \in Worlds /\ UNCHANGED <<plan, planned>>
    BY <1>t, <1>6 DEF Gate
  <2>2. CASE apply' = [apply EXCEPT ![a] = Idle]
    BY <1>i, <2>1, <2>2, ClaimsMoved
  <2>3. CASE apply' = [apply EXCEPT ![a].at = "claim", ![a].approved = NeedsHuman(a)]
    <3> DEFINE r == [apply[a] EXCEPT !.at = "claim", !.approved = NeedsHuman(a)]
    <3>1. apply' = [apply EXCEPT ![a] = r]
      BY <1>t, <2>3
    <3>2. r.at = "claim" /\ r.hash \in Worlds
      BY <2>1 DEF Calls
    <3> HIDE DEF r
    <3>3. QED
      BY <2>1, <3>1, <3>2, ClaimsMoved
  <2>4. QED
    BY <1>6, <2>2, <2>3 DEF Gate
<1>7. ASSUME NEW a \in Appliers, Check(a) PROVE ClaimsInv'
  <2>1. apply[a] \in Calls /\ apply[a].hash \in Worlds /\ UNCHANGED planned /\ apply[a].at = "check"
    BY <1>t, <1>7 DEF Check
  <2>2. \A h \in Worlds : plan'[h].state = "planned" => plan[h].state = "planned"
    BY <1>t, <1>7 DEF Check, Finished, Rows
  <2>3. CASE apply' = [apply EXCEPT ![a] = Idle]
    BY <1>i, <2>1, <2>2, <2>3, ClaimsMoved
  <2>4. CASE apply' = [apply EXCEPT ![a].at = "act"]
    <3> DEFINE r == [apply[a] EXCEPT !.at = "act"]
    <3>1. apply' = [apply EXCEPT ![a] = r]
      BY <1>t, <2>4
    <3>2. /\ r.at = "act" /\ r.hash = apply[a].hash /\ r.claimed = apply[a].claimed
          /\ InFlight(a)
      BY <2>1 DEF Calls, InFlight
    <3> HIDE DEF r
    <3>3. QED
      BY <2>1, <2>2, <3>1, <3>2, ClaimsMoved
  <2>5. QED
    BY <1>7, <2>3, <2>4 DEF Check
<1>8. ASSUME NEW a \in Appliers, ActFails(a) PROVE ClaimsInv'
  <2> DEFINE r == [apply[a] EXCEPT !.at = "failed"]
  <2>1. apply[a] \in Calls /\ apply[a].hash \in Worlds /\ UNCHANGED <<plan, planned>> /\ apply[a].at = "act"
    BY <1>t, <1>8 DEF ActFails
  <2>2. apply' = [apply EXCEPT ![a] = r]
    BY <1>t, <1>8 DEF ActFails
  <2>3. r.at = "failed" /\ r.hash = apply[a].hash /\ r.claimed = apply[a].claimed /\ InFlight(a)
    BY <2>1 DEF Calls, InFlight
  <2> HIDE DEF r
  <2>4. QED
    BY <2>1, <2>2, <2>3, ClaimsMoved
<1>9. ASSUME NEW a \in Appliers, Claim(a) PROVE ClaimsInv'
  <2> DEFINE h == apply[a].hash
  <2>1. apply[a] \in Calls /\ h \in Worlds /\ UNCHANGED planned
    BY <1>t, <1>9 DEF Claim
  <2>2. CASE apply' = [apply EXCEPT ![a] = Idle] /\ plan' = plan
    BY <1>i, <2>1, <2>2, ClaimsMoved
  <2>3. CASE /\ Claimable(h) /\ plan' = [plan EXCEPT ![h].state = "applying"]
             /\ apply' = [apply EXCEPT ![a].at = "check", ![a].claimed = planned[h]]
    <3> DEFINE r == [apply[a] EXCEPT !.at = "check", !.claimed = planned[h]]
    <3>1. apply' = [apply EXCEPT ![a] = r]
      BY <1>t, <2>3
    <3>2. r.at = "check" /\ r.hash = h /\ r.claimed = planned[h]
      BY <2>1 DEF Calls
    <3> HIDE DEF r
    <3>3. apply'[a] = r /\ \A b \in Appliers : b # a => apply'[b] = apply[b]
      BY <3>1, OneApplies
    <3>4. /\ plan[h].state = "planned" /\ plan'[h].state = "applying"
          /\ \A g \in Worlds : g # h => plan'[g] = plan[g]
      BY <1>t, <2>1, <2>3 DEF Claimable, Rows
    <3> HIDE DEF h
    <3>5. \A n \in Nat : Taken(h, n) => n < planned[h]
      BY <3>4 DEF Taken
    <3>6. \A g \in Worlds, n \in Nat : Taken(g, n) => Taken(g, n)'
      BY <1>t, <2>1, <3>4 DEF Taken
    <3>7. planned'[h] \in Nat /\ planned[h] \in Nat /\ planned'[h] = planned[h]
      BY <1>t, <2>1
    <3>8. \A b \in Appliers : b # a /\ InFlight(b)' => /\ InFlight(b) /\ apply'[b] = apply[b]
                                                      /\ apply[b].hash \in Worlds
                                                      /\ Taken(apply[b].hash, apply[b].claimed)
      BY <3>3 DEF InFlight, ClaimsInv
    <3>9. \A b \in Appliers : b # a /\ InFlight(b)' /\ apply[b].hash = h => apply[b].claimed < planned[h]
      BY <1>t, <3>5, <3>8
    <3>10. \A b \in Appliers : apply'[b].at # "idle" => apply'[b].hash \in Worlds
      BY <1>t, <2>1, <3>2, <3>3
    <3>11. \A b \in Appliers : InFlight(b)' => Taken(apply[b].hash, apply[b].claimed)'
      <4>1. \A b \in Appliers : InFlight(b)' =>
                apply'[b].claimed <= planned'[apply'[b].hash]
                /\ (plan'[apply'[b].hash].state = "planned" => apply'[b].claimed < planned'[apply'[b].hash])
        <5>1. apply'[a].claimed <= planned'[apply'[a].hash] /\ plan'[apply'[a].hash].state # "planned"
          BY <3>2, <3>3, <3>4, <3>7
        <5>2. ASSUME NEW b \in Appliers, b # a, InFlight(b)'
              PROVE  apply'[b].claimed <= planned'[apply'[b].hash]
                /\ (plan'[apply'[b].hash].state = "planned" => apply'[b].claimed < planned'[apply'[b].hash])
          <6>1. Taken(apply[b].hash, apply[b].claimed) /\ apply[b].hash \in Worlds /\ apply'[b] = apply[b]
                /\ apply[b].claimed \in Nat
            BY <1>t, <3>8, <5>2
          <6>2. apply[b].claimed <= planned'[apply[b].hash]
                /\ (plan'[apply[b].hash].state = "planned" => apply[b].claimed < planned'[apply[b].hash])
            BY <3>6, <6>1 DEF Taken
          <6>3. QED
            BY <6>1, <6>2
        <5>3. QED
          BY <5>1, <5>2
      <4>2. QED
        BY <4>1 DEF Taken
    <3>12. \A b, c \in Appliers : InFlight(b)' /\ InFlight(c)' /\ b # c /\ apply'[b].hash = apply'[c].hash
                                => apply'[b].claimed # apply'[c].claimed
      <4>1. \A b, c \in Appliers : InFlight(b) /\ InFlight(c) /\ b # c /\ apply[b].hash = apply[c].hash
                                => apply[b].claimed # apply[c].claimed
        BY DEF ClaimsInv
      <4>2. \A b \in Appliers : b # a /\ InFlight(b)' /\ apply'[b].hash = apply'[a].hash
                                => apply'[b].claimed # apply'[a].claimed
        BY <1>t, <3>2, <3>3, <3>7, <3>8, <3>9
      <4>3. QED
        BY <3>8, <4>1, <4>2
    <3>13. QED
      BY <3>10, <3>11, <3>12 DEF ClaimsInv
  <2>4. QED
    BY <1>9, <2>2, <2>3 DEF Claim
<1>10. ASSUME NEW a \in Appliers, Act(a) PROVE ClaimsInv'
  <2>1. apply[a] \in Calls /\ apply[a].hash \in Worlds /\ UNCHANGED <<plan, planned>> /\ apply[a].at = "act"
    BY <1>t, <1>10 DEF Act
  <2>2. PICK end \in {"applied", "failed"} : apply' = [apply EXCEPT ![a] = [apply[a] EXCEPT !.at = end]]
    BY <1>t, <1>10 DEF Act
  <2> DEFINE r == [apply[a] EXCEPT !.at = end]
  <2>3. r.at \in {"applied", "failed"} /\ r.hash = apply[a].hash /\ r.claimed = apply[a].claimed /\ InFlight(a)
    BY <2>1 DEF Calls, InFlight
  <2>4. apply' = [apply EXCEPT ![a] = r]
    BY <2>2
  <2> HIDE DEF r
  <2>5. QED
    BY <2>1, <2>3, <2>4, ClaimsMoved
<1>11. QED
  BY <1>1, <1>2, <1>3, <1>4, <1>5, <1>6, <1>7, <1>8, <1>9, <1>10 DEF Next, ApplyStep

----------------------------------------------------------------------------
(* Tokens *)

\* A token that stands for a planning stands for it from then on.
LEMMA TokensLast ==
  ASSUME TypeOK, Next
  PROVE  /\ Len(minted) \in Nat /\ Len(minted') \in Nat /\ Len(minted) <= Len(minted')
         /\ \A t \in 1 .. Len(minted) : minted'[t] = minted[t]
<1>t. minted \in Seq(Mints) /\ Len(minted) \in Nat
  BY DEF TypeOK
<1>1. CASE UNCHANGED minted
  BY <1>t, <1>1
<1>2. ASSUME NEW h \in Worlds, Approve(h)
      PROVE  /\ Len(minted') = Len(minted) + 1
             /\ \A t \in 1 .. Len(minted) : minted'[t] = minted[t]
  <2> DEFINE m == [hash |-> h, planning |-> planned[h]]
  <2>1. minted' = Append(minted, m)
    BY <1>2 DEF Approve
  <2> HIDE DEF m
  <2>2. QED
    BY <1>t, <2>1
<1>3. UNCHANGED minted \/ \E h \in Worlds : Approve(h)
  BY DEF Next, ApplyStep, Snapshot, Put, Expire, Crash, ChangeWorld, ChangePolicy, ApplyRead,
         MarkExpired, Gate, Claim, Check, Act, ActFails, Finish
<1>4. QED
  BY <1>t, <1>1, <1>2, <1>3

\* What TokensInv says of one plan, one apply and one execution.
RowToken(h)  == Stands(plan[h].approval, h, planned[h])
CallToken(a) ==
    /\ apply[a].at # "idle" => Stands(apply[a].approval, apply[a].hash, apply[a].read)
    /\ apply[a].approved => apply[a].token # None /\ apply[a].token = apply[a].approval
ActToken(i)  ==
    /\ Stands(acted[i].token, acted[i].hash, acted[i].read)
    /\ acted[i].policy = "allow" \/ (acted[i].policy = "require" /\ acted[i].token # None)
LEMMA TokensParts ==
  TokensInv <=> /\ \A h \in Worlds : RowToken(h)
                /\ \A a \in Appliers : CallToken(a)
                /\ \A i \in 1 .. Len(acted) : ActToken(i)
  BY DEF TokensInv, RowToken, CallToken, ActToken

LEMMA TokensKept ==
  ASSUME TypeOK, TokensInv, Next
  PROVE  /\ \A h \in Worlds : plan'[h].approval = plan[h].approval /\ planned'[h] = planned[h] => RowToken(h)'
         /\ \A a \in Appliers : apply'[a] = apply[a] => CallToken(a)'
         /\ \A i \in 1 .. Len(acted) : acted'[i] = acted[i] => ActToken(i)'
<1>1. /\ Len(minted) \in Nat /\ Len(minted') \in Nat /\ Len(minted) <= Len(minted')
      /\ \A t \in 1 .. Len(minted) : minted'[t] = minted[t]
  BY TokensLast
<1>2. \A t \in 1 .. Len(minted) : t \in 1 .. Len(minted') /\ minted'[t] = minted[t]
  BY <1>1
<1>3. /\ \A h \in Worlds : RowToken(h)
      /\ \A a \in Appliers : CallToken(a)
      /\ \A i \in 1 .. Len(acted) : ActToken(i)
  BY TokensParts
<1>4. ASSUME NEW h \in Worlds, plan'[h].approval = plan[h].approval, planned'[h] = planned[h] PROVE RowToken(h)'
  BY <1>2, <1>3, <1>4 DEF RowToken, Stands
<1>5. ASSUME NEW a \in Appliers, apply'[a] = apply[a] PROVE CallToken(a)'
  BY <1>2, <1>3, <1>5 DEF CallToken, Stands
<1>6. ASSUME NEW i \in 1 .. Len(acted), acted'[i] = acted[i] PROVE ActToken(i)'
  BY <1>2, <1>3, <1>6 DEF ActToken, Stands
<1>7. QED
  BY <1>4, <1>5, <1>6

LEMMA TokensStep ==
  ASSUME TypeOK, TypeOK', ClaimsInv, TokensInv, Next
  PROVE  TokensInv'
<1>t. /\ plan \in [Worlds -> Rows] /\ planned \in [Worlds -> Nat] /\ apply \in [Appliers -> Calls]
      /\ minted \in Seq(Mints) /\ Len(minted) \in Nat /\ acted \in Seq(Acts)
      /\ \A a \in Appliers : apply[a] \in Calls
      /\ \A h \in Worlds : plan[h] \in Rows
  BY DEF TypeOK
<1>k. /\ \A h \in Worlds : plan'[h].approval = plan[h].approval /\ planned'[h] = planned[h] => RowToken(h)'
      /\ \A a \in Appliers : apply'[a] = apply[a] => CallToken(a)'
      /\ \A i \in 1 .. Len(acted) : acted'[i] = acted[i] => ActToken(i)'
  BY TokensKept
<1>0. /\ \A h \in Worlds : RowToken(h)
      /\ \A a \in Appliers : CallToken(a)
      /\ \A i \in 1 .. Len(acted) : ActToken(i)
  BY TokensParts
\* The plans: a reset plan has no token, an approved one that of its planning.
<1>1. ASSUME NEW h \in Worlds PROVE RowToken(h)'
  <2>1. CASE plan'[h].approval = plan[h].approval /\ planned'[h] = planned[h]
    BY <1>k, <2>1
  <2>2. CASE plan'[h].approval = None
    BY <2>2 DEF RowToken, Stands
  <2>3. ASSUME Approve(h) PROVE RowToken(h)'
    <3> DEFINE m == [hash |-> h, planning |-> planned[h]]
    <3>1. minted' = Append(minted, m) /\ planned' = planned
      BY <2>3 DEF Approve
    <3>2. plan'[h].approval = Len(minted) + 1
      BY <1>t, <2>3 DEF Approve, Rows
    <3> HIDE DEF m
    <3>3. Len(minted') = Len(minted) + 1 /\ minted'[Len(minted) + 1] = m
      BY <1>t, <3>1
    <3>4. m = [hash |-> h, planning |-> planned[h]]
      BY DEF m
    <3>5. QED
      BY <1>t, <3>1, <3>2, <3>3, <3>4 DEF RowToken, Stands
  <2>4. \/ plan'[h].approval = plan[h].approval /\ planned'[h] = planned[h]
        \/ plan'[h].approval = None
        \/ Approve(h)
    <3>1. CASE UNCHANGED <<plan, planned>>
      BY <3>1
    <3>2. ASSUME NEW g \in Worlds, Approve(g) PROVE g = h \/ (plan'[h] = plan[h] /\ planned'[h] = planned[h])
      BY <1>t, <3>2 DEF Approve
    <3>3. ASSUME NEW g \in Worlds, Expire(g) PROVE plan'[h].approval = plan[h].approval /\ planned'[h] = planned[h]
      BY <1>t, <3>3 DEF Expire, Rows
    <3>4. ASSUME NEW s \in snapshots, Put(s)
          PROVE  (plan'[h] = plan[h] /\ planned'[h] = planned[h]) \/ plan'[h].approval = None
      BY <1>t, <3>4 DEF Put, Reset
    <3>5. ASSUME NEW a \in Appliers, ApplyStep(a)
          PROVE  plan'[h].approval = plan[h].approval /\ planned'[h] = planned[h]
      <4>1. /\ planned' = planned
            /\ plan' = plan \/ \E g, q : plan' = [plan EXCEPT ![g].state = q]
        <5>1. CASE MarkExpired(a)
          <6> DEFINE g == apply[a].hash
                     q == IF plan[g].state = "planned" THEN "expired" ELSE plan[g].state
          <6>1. plan' = [plan EXCEPT ![g].state = q] /\ planned' = planned
            BY <5>1 DEF MarkExpired
          <6> HIDE DEF g, q
          <6>2. QED
            BY <6>1
        <5>2. CASE ~MarkExpired(a)
          BY <3>5, <5>2 DEF ApplyStep, ApplyRead, Gate, Claim, Check, Act, ActFails, Finish, Finished
        <5>3. QED
          BY <5>1, <5>2
      <4>2. ASSUME NEW g, NEW q, plan' = [plan EXCEPT ![g].state = q]
            PROVE  plan'[h].approval = plan[h].approval
        BY <1>t, <4>2 DEF Rows
      <4>3. QED
        BY <4>1, <4>2
    <3>6. QED
      BY <3>1, <3>2, <3>3, <3>4, <3>5 DEF Next, Snapshot, Crash, ChangeWorld, ChangePolicy
  <2>5. QED
    BY <2>1, <2>2, <2>3, <2>4
\* The applies: a read apply has the token of the row, an approved one uses it.
<1>2. ASSUME NEW a \in Appliers, \E b \in Appliers : ApplyStep(b) \/ Crash(b) PROVE CallToken(a)'
  <2>1. PICK b \in Appliers : ApplyStep(b) \/ Crash(b)
    BY <1>2
  <2>2. CASE apply'[a] = apply[a]
    BY <1>k, <2>2
  <2>3. CASE apply'[a] = Idle
    BY <2>3 DEF CallToken, Idle
  <2>4. ASSUME apply'[a] # apply[a] PROVE b = a
    BY <1>t, <2>1, <2>4
    DEF ApplyStep, Crash, ApplyRead, MarkExpired, Gate, Claim, Check, Act, ActFails, Finish
  <2>5. ASSUME NEW h \in Worlds, NEW t \in Tokens \cup {None}, ApplyRead(a, h, t) PROVE CallToken(a)'
    <3> DEFINE r == [at |-> IF plan[h].live THEN "gate" ELSE "expire", hash |-> h, token |-> t,
                     approval |-> plan[h].approval, required |-> plan[h].required,
                     approved |-> FALSE, read |-> planned[h], claimed |-> 0]
    <3>1. apply'[a] = r /\ minted' = minted
      BY <1>t, <2>5 DEF ApplyRead
    <3>2. r.hash = h /\ r.approval = plan[h].approval /\ r.read = planned[h] /\ r.approved = FALSE
      OBVIOUS
    <3> HIDE DEF r
    <3>3. QED
      BY <1>0, <3>1, <3>2 DEF CallToken, RowToken, Stands
  <2>6. ASSUME Gate(a), apply'[a] # Idle PROVE CallToken(a)'
    <3> DEFINE r == [apply[a] EXCEPT !.at = "claim", !.approved = NeedsHuman(a)]
    <3>1. apply'[a] = r /\ minted' = minted /\ apply[a].at = "gate" /\ (NeedsHuman(a) => Matches(a))
      BY <1>t, <2>6 DEF Gate
    <3>2. /\ r.hash = apply[a].hash /\ r.approval = apply[a].approval /\ r.read = apply[a].read
          /\ r.token = apply[a].token /\ (r.approved <=> NeedsHuman(a))
      BY <1>t DEF Calls
    <3> HIDE DEF r
    <3>3. QED
      BY <1>0, <3>1, <3>2 DEF CallToken, Stands, Matches
  <2>7. ASSUME Claim(a) \/ Check(a) \/ Act(a) \/ ActFails(a), apply'[a] # Idle PROVE CallToken(a)'
    <3>1. /\ apply'[a].hash = apply[a].hash /\ apply'[a].approval = apply[a].approval
          /\ apply'[a].read = apply[a].read /\ apply'[a].token = apply[a].token
          /\ apply'[a].approved = apply[a].approved /\ apply[a].at # "idle" /\ minted' = minted
      <4>1. CASE Claim(a)
        BY <1>t, <2>7, <4>1 DEF Claim, Calls
      <4>2. CASE Check(a)
        BY <1>t, <2>7, <4>2 DEF Check, Calls
      <4>3. CASE Act(a) \/ ActFails(a)
        BY <1>t, <4>3 DEF Act, ActFails, Calls
      <4>4. QED
        BY <2>7, <4>1, <4>2, <4>3
    <3>2. QED
      BY <1>0, <3>1 DEF CallToken, Stands
  <2>8. CASE Crash(a) \/ MarkExpired(a) \/ Finish(a)
    <3>1. apply'[a] = Idle
      BY <1>t, <2>8 DEF Crash, MarkExpired, Finish
    <3>2. QED
      BY <2>3, <3>1
  <2>9. QED
    BY <2>1, <2>2, <2>3, <2>4, <2>5, <2>6, <2>7, <2>8 DEF ApplyStep
<1>3. ASSUME NEW a \in Appliers PROVE CallToken(a)'
  <2>1. CASE \E b \in Appliers : ApplyStep(b) \/ Crash(b)
    BY <1>2, <2>1
  <2>2. CASE ~ \E b \in Appliers : ApplyStep(b) \/ Crash(b)
    <3>1. apply' = apply
      BY <2>2 DEF Next, Snapshot, Put, Approve, Expire, ChangeWorld, ChangePolicy
    <3>2. QED
      BY <1>k, <3>1
  <2>3. QED
    BY <2>1, <2>2
\* The executions: the tool's gate let it through.
<1>4. ASSUME NEW i \in 1 .. Len(acted') PROVE ActToken(i)'
  <2>1. ASSUME NEW a \in Appliers, Act(a) PROVE ActToken(i)'
    <3> DEFINE e == [hash |-> apply[a].hash, read |-> apply[a].read, claimed |-> apply[a].claimed,
                     token |-> IF apply[a].approved THEN apply[a].token ELSE None, policy |-> policy]
    <3>1. acted' = Append(acted, e) /\ minted' = minted /\ GateOpen(a) /\ apply[a].at # "idle"
      BY <2>1 DEF Act
    <3>2. /\ e.hash = apply[a].hash /\ e.read = apply[a].read /\ e.policy = policy
          /\ e.token = IF apply[a].approved THEN apply[a].token ELSE None
      OBVIOUS
    <3> HIDE DEF e
    <3>3. /\ Len(acted') = Len(acted) + 1 /\ Len(acted) \in Nat /\ acted'[Len(acted) + 1] = e
          /\ \A j \in 1 .. Len(acted) : acted'[j] = acted[j]
      BY <1>t, <3>1
    <3>4. CASE i \in 1 .. Len(acted)
      BY <1>k, <3>3, <3>4
    <3>5. CASE i = Len(acted) + 1
      <4>1. apply[a].approved \in BOOLEAN
        BY <1>t DEF Calls
      <4>2. CallToken(a)
        BY <1>0
      <4>3. Stands(e.token, e.hash, e.read)
        <5>1. CASE apply[a].approved
          BY <3>1, <3>2, <4>2, <5>1 DEF CallToken, Stands
        <5>2. CASE ~apply[a].approved
          BY <3>2, <5>2 DEF Stands
        <5>3. QED
          BY <5>1, <5>2
      <4>4. e.policy = "allow" \/ (e.policy = "require" /\ e.token # None)
        BY <3>1, <3>2, <4>2 DEF CallToken, GateOpen
      <4>5. acted'[i] = e
        BY <3>3, <3>5
      <4>6. QED
        BY <3>1, <4>3, <4>4, <4>5 DEF ActToken, Stands
    <3>6. QED
      BY <3>3, <3>4, <3>5
  <2>2. CASE acted' = acted
    BY <1>k, <2>2
  <2>3. acted' = acted \/ \E a \in Appliers : Act(a)
    BY DEF Next, ApplyStep, Snapshot, Put, Approve, Expire, Crash, ChangeWorld, ChangePolicy, ApplyRead,
           MarkExpired, Gate, Claim, Check, ActFails, Finish
  <2>4. QED
    BY <2>1, <2>2, <2>3
<1>5. QED
  <2>1. /\ \A h \in Worlds : RowToken(h)'
        /\ \A a \in Appliers : CallToken(a)'
        /\ \A i \in 1 .. Len(acted') : ActToken(i)'
    BY <1>1, <1>3, <1>4
  <2>2. QED
    BY <2>1, TokensParts DEF TokensInv, RowToken, CallToken, ActToken

----------------------------------------------------------------------------
(* Applies and their plans *)

\* What AppliesInv says of one apply and of one plan.
Holds(a)    == InFlight(a) /\ apply[a].hash \notin replanned
                   => plan[apply[a].hash].state = "applying" /\ apply[a].claimed = planned[apply[a].hash]
Done(a)     == apply[a].at = "applied" => Executed(apply[a].hash, apply[a].claimed)
Truthful(h) == plan[h].state = "applied" /\ h \notin replanned => Executed(h, planned[h])
LEMMA AppliesParts ==
  AppliesInv <=> (\A a \in Appliers : Holds(a) /\ Done(a)) /\ (\A h \in Worlds : Truthful(h))
  BY DEF AppliesInv, Holds, Done, Truthful, AppliedIsTrue, Executed

\* A step in which nothing is executed, reset or claimed, and no plan ends.
LEMMA AppliesKept ==
  ASSUME AppliesInv, acted' = acted, planned' = planned, replanned' = replanned,
         \A a \in Appliers : InFlight(a)' => /\ InFlight(a)
                                           /\ apply'[a].hash = apply[a].hash
                                           /\ apply'[a].claimed = apply[a].claimed,
         \A a \in Appliers : apply'[a].at = "applied" => apply[a].at = "applied",
         \A a \in Appliers : InFlight(a)' /\ plan[apply[a].hash].state = "applying"
                                => plan'[apply[a].hash].state = "applying",
         \A h \in Worlds : plan'[h].state = "applied" => plan[h].state = "applied"
  PROVE  AppliesInv'
<1>0. (\A a \in Appliers : Holds(a) /\ Done(a)) /\ (\A h \in Worlds : Truthful(h))
  BY AppliesParts
<1>1. ASSUME NEW a \in Appliers PROVE Holds(a)'
  BY <1>0 DEF Holds
<1>2. ASSUME NEW a \in Appliers PROVE Done(a)'
  BY <1>0 DEF Done, Executed, InFlight
<1>3. ASSUME NEW h \in Worlds PROVE Truthful(h)'
  BY <1>0 DEF Truthful, Executed
<1>4. (\A a \in Appliers : Holds(a)' /\ Done(a)') /\ (\A h \in Worlds : Truthful(h)')
  BY <1>1, <1>2, <1>3
<1>5. QED
  BY <1>4 DEF AppliesInv, Holds, Done, Truthful, AppliedIsTrue, Executed

\* The end of an apply that holds its claim: no other apply holds the plan, and
\* it says applied only after the execution.
LEMMA AppliesEnd ==
  ASSUME TypeOK, ClaimsInv, AppliesInv, NEW a \in Appliers, InFlight(a),
         NEW s \in {"applied", "failed", "rejected"}, s = "applied" => apply[a].at = "applied",
         plan' = Finished(apply[a].hash, s), apply' = [apply EXCEPT ![a] = Idle],
         UNCHANGED <<acted, planned, replanned>>
  PROVE  AppliesInv'
<1> DEFINE h == apply[a].hash
<1>0. (\A b \in Appliers : Holds(b) /\ Done(b)) /\ (\A g \in Worlds : Truthful(g))
  BY AppliesParts
<1>1. h \in Worlds /\ plan \in [Worlds -> Rows]
  BY DEF ClaimsInv, InFlight, TypeOK
<1>2. plan'[h].state = s /\ \A g \in Worlds : g # h => plan'[g] = plan[g]
  BY <1>1 DEF Finished, Rows
<1>3. apply'[a] = Idle /\ \A b \in Appliers : b # a => apply'[b] = apply[b]
  BY OneApplies
<1>4. ASSUME NEW b \in Appliers PROVE Holds(b)'
  <2>1. CASE b = a
    BY <1>3, <2>1 DEF Holds, InFlight, Idle
  <2>2. ASSUME b # a, InFlight(b), apply[b].hash \notin replanned PROVE apply[b].hash # h
    <3>1. SUFFICES ASSUME apply[b].hash = h PROVE FALSE
      OBVIOUS
    <3>2. apply[b].claimed = planned[h] /\ apply[a].claimed = planned[h]
      BY <1>0, <2>2, <3>1 DEF Holds
    <3>3. QED
      BY <2>2, <3>1, <3>2 DEF ClaimsInv
  <2>3. InFlight(b) => apply[b].hash \in Worlds
    BY DEF ClaimsInv, InFlight
  <2>4. QED
    BY <1>0, <1>2, <1>3, <2>1, <2>2, <2>3 DEF Holds, InFlight
<1>5. ASSUME NEW b \in Appliers PROVE Done(b)'
  BY <1>0, <1>3, <1>5 DEF Done, Executed, Idle
<1>6. ASSUME NEW g \in Worlds PROVE Truthful(g)'
  <2>1. CASE g # h
    BY <1>0, <1>2, <2>1 DEF Truthful, Executed
  <2>2. CASE g = h
    <3>1. ASSUME s = "applied", h \notin replanned PROVE Executed(h, planned[h])
      BY <1>0, <3>1 DEF Holds, Done
    <3>2. QED
      BY <1>2, <2>2, <3>1 DEF Truthful, Executed
  <2>3. QED
    BY <2>1, <2>2
<1>7. (\A b \in Appliers : Holds(b)' /\ Done(b)') /\ (\A g \in Worlds : Truthful(g)')
  BY <1>4, <1>5, <1>6
<1>8. QED
  BY <1>7 DEF AppliesInv, Holds, Done, Truthful, AppliedIsTrue, Executed

LEMMA AppliesStep ==
  ASSUME TypeOK, TypeOK', ClaimsInv, AppliesInv, Next
  PROVE  AppliesInv'
<1>t. /\ plan \in [Worlds -> Rows] /\ planned \in [Worlds -> Nat] /\ apply \in [Appliers -> Calls]
      /\ acted \in Seq(Acts) /\ \A a \in Appliers : apply[a] \in Calls
      /\ \A a \in Appliers : InFlight(a) => apply[a].hash \in Worlds
  BY DEF TypeOK, ClaimsInv, InFlight
<1>0. (\A b \in Appliers : Holds(b) /\ Done(b)) /\ (\A g \in Worlds : Truthful(g))
  BY AppliesParts
\* Steps that leave the applies' claims and the plans' states alone.
<1>q. ASSUME acted' = acted, planned' = planned, replanned' = replanned,
             \A h \in Worlds : plan'[h].state = plan[h].state,
             \A a \in Appliers : apply'[a] = apply[a] \/ ~InFlight(a)'
      PROVE  AppliesInv'
  BY <1>t, <1>q, AppliesKept DEF InFlight
<1>1. CASE Snapshot \/ ChangeWorld \/ ChangePolicy
  BY <1>1, <1>q DEF Snapshot, ChangeWorld, ChangePolicy
<1>2. ASSUME NEW h \in Worlds, Approve(h) \/ Expire(h) PROVE AppliesInv'
  <2>1. \A g \in Worlds : plan'[g].state = plan[g].state
    <3>1. CASE Approve(h)
      BY <1>t, <3>1 DEF Approve, Rows
    <3>2. CASE Expire(h)
      BY <1>t, <3>2 DEF Expire, Rows
    <3>3. QED
      BY <1>2, <3>1, <3>2
  <2>2. QED
    BY <1>2, <1>q, <2>1 DEF Approve, Expire
<1>3. ASSUME NEW s \in snapshots, Put(s) PROVE AppliesInv'
  <2>1. CASE UNCHANGED <<plan, planned, replanned>>
    BY <1>3, <1>q, <2>1 DEF Put
  <2>2. CASE /\ plan' = [plan EXCEPT ![s.hash] = Reset(s.hash, s.required)]
             /\ planned' = [planned EXCEPT ![s.hash] = @ + 1]
             /\ replanned' = IF plan[s.hash].state = "applying" THEN replanned \cup {s.hash} ELSE replanned
    <3> DEFINE h == s.hash
    <3>1. h \in Worlds /\ UNCHANGED <<apply, acted>>
      BY <1>3 DEF TypeOK, Put
    <3>2. /\ plan'[h].state = "planned"
          /\ \A g \in Worlds : g # h => plan'[g] = plan[g] /\ planned'[g] = planned[g]
          /\ replanned \subseteq replanned' /\ (plan[h].state = "applying" => h \in replanned')
      BY <1>t, <2>2, <3>1 DEF Reset
    <3> HIDE DEF h
    <3>3. ASSUME NEW a \in Appliers PROVE Holds(a)' /\ Done(a)'
      <4>1. Holds(a)'
        BY <1>t, <1>0, <3>1, <3>2 DEF Holds, InFlight
      <4>2. Done(a)'
        BY <1>0, <3>1 DEF Done, Executed
      <4>3. QED
        BY <4>1, <4>2
    <3>4. ASSUME NEW g \in Worlds PROVE Truthful(g)'
      BY <1>0, <3>1, <3>2 DEF Truthful, Executed
    <3>5. (\A b \in Appliers : Holds(b)' /\ Done(b)') /\ (\A g \in Worlds : Truthful(g)')
      BY <3>3, <3>4
    <3>6. QED
      BY <3>5 DEF AppliesInv, Holds, Done, Truthful, AppliedIsTrue, Executed
  <2>3. QED
    BY <1>3, <2>1, <2>2 DEF Put
<1>4. ASSUME NEW a \in Appliers, \/ \E h \in Worlds, t \in Tokens \cup {None} : ApplyRead(a, h, t)
                                \/ Gate(a) \/ Crash(a)
      PROVE  AppliesInv'
  <2>1. UNCHANGED <<plan, acted, planned, replanned>>
    BY <1>4 DEF ApplyRead, Gate, Crash
  <2>2. /\ \A b \in Appliers : b # a => apply'[b] = apply[b]
        /\ apply'[a].at \in {"expire", "gate", "claim", "idle"}
    BY <1>t, <1>4 DEF ApplyRead, Gate, Crash, Idle, Calls
  <2>3. QED
    BY <1>q, <2>1, <2>2 DEF InFlight
<1>5. ASSUME NEW a \in Appliers, MarkExpired(a) PROVE AppliesInv'
  <2>1. /\ UNCHANGED <<acted, planned, replanned>> /\ apply'[a] = Idle
        /\ \A b \in Appliers : b # a => apply'[b] = apply[b]
    BY <1>t, <1>5 DEF MarkExpired
  <2>2. \A h \in Worlds : plan'[h].state = IF plan[h].state = "planned" /\ h = apply[a].hash
                                          THEN "expired" ELSE plan[h].state
    BY <1>t, <1>5 DEF MarkExpired, Rows
  <2>3. \A b \in Appliers : /\ InFlight(b)' => InFlight(b) /\ apply'[b] = apply[b]
                            /\ apply'[b].at = "applied" => apply[b].at = "applied"
    BY <2>1 DEF InFlight, Idle
  <2>4. QED
    BY <1>t, <2>1, <2>2, <2>3, AppliesKept
<1>6. ASSUME NEW a \in Appliers, Claim(a) PROVE AppliesInv'
  <2> DEFINE h == apply[a].hash
  <2>1. UNCHANGED <<planned, acted, replanned>> /\ h \in Worlds
    BY <1>6 DEF Claim, ClaimsInv
  <2>2. CASE apply' = [apply EXCEPT ![a] = Idle] /\ plan' = plan
    BY <1>t, <1>q, <2>1, <2>2 DEF InFlight, Idle
  <2>3. CASE /\ Claimable(h) /\ plan' = [plan EXCEPT ![h].state = "applying"]
             /\ apply' = [apply EXCEPT ![a].at = "check", ![a].claimed = planned[h]]
    <3>1. /\ apply'[a].at = "check" /\ apply'[a].hash = h /\ apply'[a].claimed = planned[h]
          /\ \A b \in Appliers : b # a => apply'[b] = apply[b]
      BY <1>t, <2>3 DEF Calls
    <3>2. plan'[h].state = "applying" /\ \A g \in Worlds : g # h => plan'[g] = plan[g]
      BY <1>t, <2>1, <2>3 DEF Rows
    <3> HIDE DEF h
    <3>3. ASSUME NEW b \in Appliers PROVE Holds(b)'
      BY <1>t, <1>0, <2>1, <3>1, <3>2 DEF Holds, InFlight
    <3>4. ASSUME NEW b \in Appliers PROVE Done(b)'
      BY <1>0, <2>1, <3>1 DEF Done, Executed
    <3>5. ASSUME NEW g \in Worlds PROVE Truthful(g)'
      BY <1>0, <2>1, <3>2 DEF Truthful, Executed
    <3>6. (\A b \in Appliers : Holds(b)' /\ Done(b)') /\ (\A g \in Worlds : Truthful(g)')
      BY <3>3, <3>4, <3>5
    <3>7. QED
      BY <3>6 DEF AppliesInv, Holds, Done, Truthful, AppliedIsTrue, Executed
  <2>4. QED
    BY <1>6, <2>2, <2>3 DEF Claim
<1>7. ASSUME NEW a \in Appliers, Check(a) PROVE AppliesInv'
  <2>1. UNCHANGED <<planned, acted, replanned>> /\ InFlight(a) /\ apply[a].at = "check"
    BY <1>7 DEF Check, InFlight
  <2>2. CASE apply' = [apply EXCEPT ![a].at = "act"] /\ plan' = plan
    <3>1. \A b \in Appliers : /\ apply'[b].hash = apply[b].hash /\ apply'[b].claimed = apply[b].claimed
                              /\ InFlight(b)' => InFlight(b)
                              /\ apply'[b].at = "applied" => apply[b].at = "applied"
      BY <1>t, <2>1, <2>2 DEF Calls, InFlight
    <3>2. QED
      BY <2>1, <2>2, <3>1, AppliesKept
  <2>3. ASSUME NEW s \in {"rejected", "failed"}, plan' = Finished(apply[a].hash, s),
               apply' = [apply EXCEPT ![a] = Idle]
        PROVE  AppliesInv'
    BY <2>1, <2>3, AppliesEnd
  <2>4. QED
    BY <1>7, <2>2, <2>3 DEF Check
<1>8. ASSUME NEW a \in Appliers, Act(a) PROVE AppliesInv'
  <2> DEFINE e == [hash |-> apply[a].hash, read |-> apply[a].read, claimed |-> apply[a].claimed,
                   token |-> IF apply[a].approved THEN apply[a].token ELSE None, policy |-> policy]
  <2>1. UNCHANGED <<plan, planned, replanned>> /\ InFlight(a) /\ acted' = Append(acted, e)
    BY <1>8 DEF Act, InFlight
  <2>2. e.hash = apply[a].hash /\ e.claimed = apply[a].claimed
    OBVIOUS
  <2> HIDE DEF e
  <2>3. /\ Len(acted') = Len(acted) + 1 /\ Len(acted) \in Nat /\ acted'[Len(acted) + 1] = e
        /\ \A i \in 1 .. Len(acted) : acted'[i] = acted[i]
    BY <1>t, <2>1
  <2>4. /\ \A h, n : Executed(h, n) => \E i \in 1 .. Len(acted') : acted'[i].hash = h /\ acted'[i].claimed = n
        /\ \E i \in 1 .. Len(acted') : acted'[i].hash = apply[a].hash /\ acted'[i].claimed = apply[a].claimed
    BY <2>2, <2>3 DEF Executed
  <2>5. \A b \in Appliers : /\ apply'[b].hash = apply[b].hash /\ apply'[b].claimed = apply[b].claimed
                            /\ InFlight(b)' => InFlight(b)
                            /\ b # a => apply'[b] = apply[b]
    BY <1>t, <1>8, <2>1 DEF Act, Calls, InFlight
  <2>6. ASSUME NEW b \in Appliers PROVE Holds(b)'
    BY <1>0, <2>1, <2>5 DEF Holds
  <2>7. ASSUME NEW b \in Appliers PROVE Done(b)'
    <3>1. CASE b = a
      BY <2>4, <2>5, <3>1 DEF Done, Executed
    <3>2. CASE b # a
      <4>1. apply'[b].at = "applied" => Executed(apply[b].hash, apply[b].claimed)
        BY <1>0, <2>5, <3>2 DEF Done
      <4>2. QED
        BY <2>4, <2>5, <4>1 DEF Done, Executed
    <3>3. QED
      BY <3>1, <3>2
  <2>8. ASSUME NEW g \in Worlds PROVE Truthful(g)'
    BY <1>0, <2>1, <2>4 DEF Truthful, Executed
  <2>9. (\A b \in Appliers : Holds(b)' /\ Done(b)') /\ (\A g \in Worlds : Truthful(g)')
    BY <2>6, <2>7, <2>8
  <2>10. QED
    BY <2>9 DEF AppliesInv, Holds, Done, Truthful, AppliedIsTrue, Executed
<1>9. ASSUME NEW a \in Appliers, ActFails(a) PROVE AppliesInv'
  <2>1. UNCHANGED <<plan, planned, acted, replanned>>
    BY <1>9 DEF ActFails
  <2>2. \A b \in Appliers : /\ apply'[b].hash = apply[b].hash /\ apply'[b].claimed = apply[b].claimed
                            /\ InFlight(b)' => InFlight(b)
                            /\ apply'[b].at = "applied" => apply[b].at = "applied"
    BY <1>t, <1>9 DEF ActFails, Calls, InFlight
  <2>3. QED
    BY <2>1, <2>2, AppliesKept
<1>10. ASSUME NEW a \in Appliers, Finish(a) PROVE AppliesInv'
  BY <1>10, AppliesEnd DEF Finish, InFlight
<1>11. QED
  BY <1>1, <1>2, <1>3, <1>4, <1>5, <1>6, <1>7, <1>8, <1>9, <1>10 DEF Next, ApplyStep

----------------------------------------------------------------------------
(* The invariant *)

LEMMA PlansInit == Init => PlansInv
<1> SUFFICES ASSUME Init PROVE PlansInv
  OBVIOUS
<1>1. TypeOK
  BY TypeInit
<1>2. /\ \A a \in Appliers : apply[a] = Idle
      /\ \A h \in Worlds : plan[h] = NoPlan
      /\ Len(acted) = 0
  BY DEF Init
<1>3. ClaimsInv
  BY <1>2 DEF ClaimsInv, InFlight, MayAct, Idle
<1>4. TokensInv
  BY <1>2 DEF TokensInv, Stands, Idle, NoPlan
<1>5. AppliesInv
  BY <1>2 DEF AppliesInv, AppliedIsTrue, InFlight, Idle, NoPlan
<1>6. QED
  BY <1>1, <1>3, <1>4, <1>5 DEF PlansInv

LEMMA PlansStep == PlansInv /\ [Next]_vars => PlansInv'
<1> SUFFICES ASSUME PlansInv, [Next]_vars PROVE PlansInv'
  OBVIOUS
<1>1. CASE Next
  <2>1. TypeOK'
    BY <1>1, TypeStep DEF PlansInv
  <2>2. ClaimsInv' /\ TokensInv' /\ AppliesInv'
    BY <1>1, <2>1, ClaimsStep, TokensStep, AppliesStep DEF PlansInv
  <2>3. QED
    BY <2>1, <2>2 DEF PlansInv
<1>2. CASE UNCHANGED vars
  BY <1>2 DEF vars, PlansInv, TypeOK, ClaimsInv, InFlight, MayAct, Taken, TokensInv, Stands,
              AppliesInv, AppliedIsTrue, Executed
<1>3. QED
  BY <1>1, <1>2

LEMMA PlansAlways == Spec => []PlansInv
  BY PlansInit, PlansStep, PTL DEF Spec

----------------------------------------------------------------------------
(* The ledger of plannings *)

\* What its steps keep: claims and executions are of plannings that are over
\* for everybody else, each its own, and none without leave.
Plannings == Worlds \X Nat
Entries   == [planning : Plannings, by : {"policy", "human"}]
Past(p)   == p[2] <= planned[p[1]] /\ (p[1] \in Open => p[2] < planned[p[1]])
LedgerInv ==
    /\ planned \in [Worlds -> Nat] /\ Open \subseteq Worlds
    /\ Held \subseteq Plannings /\ Executions \in Seq(Entries)
    /\ \A p \in Held : Past(p)
    /\ \A i \in 1 .. Len(Executions) : Past(Executions[i].planning)
    /\ Ledger!Once /\ Ledger!Approved

LEMMA LedgerInvInit == Ledger!Init => LedgerInv
<1>1. Ledger!Init => Executions = <<>> /\ Len(Executions) = 0
  BY DEF Ledger!Init
<1>2. <<>> \in Seq(Entries)
  OBVIOUS
<1>3. QED
  BY <1>1, <1>2 DEF Ledger!Init, LedgerInv, Ledger!Once, Ledger!Approved

\* A step that executes nothing: claims go or are of a planning that was open.
LEMMA LedgerInvKept ==
  ASSUME LedgerInv, planned' \in [Worlds -> Nat], Open' \subseteq Worlds, Executions' = Executions,
         Granted \subseteq Granted',
         \A p \in Plannings : Past(p) => Past(p)',
         \A p \in Held' : p \in Held \/ (p \in Plannings /\ ~Past(p) /\ Past(p)')
  PROVE  LedgerInv'
<1>t. /\ Executions \in Seq(Entries) /\ Held \subseteq Plannings /\ Len(Executions) \in Nat
      /\ \A i \in 1 .. Len(Executions) : Executions[i] \in Entries /\ Executions[i].planning \in Plannings
  <2>1. Executions \in Seq(Entries)
    BY DEF LedgerInv
  <2>2. \A i \in 1 .. Len(Executions) : Executions[i] \in Entries
    BY <2>1
  <2>3. QED
    BY <2>1, <2>2 DEF LedgerInv, Entries
<1>1. Held' \subseteq Plannings /\ \A p \in Held' : Past(p)'
  BY <1>t DEF LedgerInv
<1>2. \A i \in 1 .. Len(Executions') : Past(Executions[i].planning)'
  BY <1>t DEF LedgerInv
<1>3. Ledger!Once'
  BY <1>t DEF LedgerInv, Ledger!Once
<1>4. Ledger!Approved'
  BY DEF LedgerInv, Ledger!Approved
<1>5. QED
  BY <1>1, <1>2, <1>3, <1>4 DEF LedgerInv, Past

LEMMA LedgerInvStep == LedgerInv /\ [Ledger!Next]_Ledger!ledger => LedgerInv'
<1> SUFFICES ASSUME LedgerInv, [Ledger!Next]_Ledger!ledger PROVE LedgerInv'
  OBVIOUS
<1>t. /\ planned \in [Worlds -> Nat] /\ Open \subseteq Worlds
      /\ Held \subseteq Plannings /\ Executions \in Seq(Entries) /\ Len(Executions) \in Nat
      /\ \A h \in Worlds : planned[h] \in Nat
  BY DEF LedgerInv
<1>1. ASSUME NEW h \in Worlds, Ledger!Plan(h) PROVE LedgerInv'
  <2>1. \A g \in Worlds : planned'[g] = IF g = h THEN planned[g] + 1 ELSE planned[g]
    BY <1>t, <1>1 DEF Ledger!Plan
  <2>2. \A p \in Plannings : Past(p) => Past(p)'
    BY <1>t, <1>1, <2>1 DEF Ledger!Plan, Past, Plannings
  <2>3. planned' \in [Worlds -> Nat]
    BY <1>t, <1>1 DEF Ledger!Plan
  <2>4. QED
    BY <1>t, <1>1, <2>2, <2>3, LedgerInvKept DEF Ledger!Plan
<1>2. ASSUME NEW h \in Worlds, Ledger!Grant(h) PROVE LedgerInv'
  <2>1. \A p \in Plannings : Past(p) => Past(p)'
    BY <1>2 DEF Ledger!Grant, Past
  <2>2. QED
    BY <1>t, <1>2, <2>1, LedgerInvKept DEF Ledger!Grant
<1>3. ASSUME NEW h \in Worlds, Ledger!Claim(h) PROVE LedgerInv'
  <2>1. \A p \in Plannings : Past(p) => Past(p)'
    BY <1>t, <1>3 DEF Ledger!Claim, Past, Plannings
  <2>2. ASSUME NEW p, p = <<h, planned[h]>> PROVE p \in Plannings /\ ~Past(p) /\ Past(p)'
    BY <1>t, <1>3, <2>2 DEF Ledger!Claim, Past, Plannings
  <2>3. Held' = Held \cup {<<h, planned[h]>>}
    BY <1>3 DEF Ledger!Claim, Ledger!Last
  <2>4. QED
    BY <1>t, <1>3, <2>1, <2>2, <2>3, LedgerInvKept DEF Ledger!Claim
<1>4. ASSUME NEW h \in Worlds, Ledger!Close(h) PROVE LedgerInv'
  <2>1. \A p \in Plannings : Past(p) => Past(p)'
    BY <1>4 DEF Ledger!Close, Past
  <2>2. QED
    BY <1>t, <1>4, <2>1, LedgerInvKept DEF Ledger!Close
<1>5. ASSUME NEW q \in Held, Ledger!Drop(q) PROVE LedgerInv'
  <2>1. Open' \subseteq Open
    BY <1>5 DEF Ledger!Drop
  <2>2. \A p \in Plannings : Past(p) => Past(p)'
    BY <1>5, <2>1 DEF Ledger!Drop, Past
  <2>3. QED
    BY <1>t, <1>5, <2>1, <2>2, LedgerInvKept DEF Ledger!Drop
<1>6. ASSUME NEW q \in Held, Ledger!Execute(q) PROVE LedgerInv'
  <2>1. PICK by \in {"policy", "human"} :
          Ledger!Leave(q, by) /\ Executions' = Append(Executions, [planning |-> q, by |-> by])
    BY <1>6 DEF Ledger!Execute
  <2> DEFINE e == [planning |-> q, by |-> by]
  <2>2. e \in Entries /\ e.planning = q /\ e.by = by
    BY <1>t DEF Entries
  <2> HIDE DEF e
  <2>3. /\ Executions' \in Seq(Entries) /\ Len(Executions') = Len(Executions) + 1
        /\ \A i \in 1 .. Len(Executions) : Executions'[i] = Executions[i]
        /\ Executions'[Len(Executions) + 1] = e
    <3>1. Executions' = Append(Executions, e)
      BY <2>1 DEF e
    <3>2. QED
      BY <1>t, <2>2, <3>1
  <2>4. UNCHANGED <<planned, Open, Granted>> /\ Held' = Held \ {q}
    BY <1>6 DEF Ledger!Execute
  <2>5. \A i \in 1 .. Len(Executions') : i \in 1 .. Len(Executions) \/ i = Len(Executions) + 1
    BY <1>t, <2>3
  <2>6. \A i \in 1 .. Len(Executions') : Past(Executions[i].planning)'
    <3>1. \A i \in 1 .. Len(Executions') : Past(Executions'[i].planning)
      BY <2>2, <2>3, <2>5 DEF LedgerInv
    <3>2. \A i \in 1 .. Len(Executions') :
            /\ Executions'[i].planning[2] <= planned'[Executions'[i].planning[1]]
            /\ Executions'[i].planning[1] \in Open'
                 => Executions'[i].planning[2] < planned'[Executions'[i].planning[1]]
      BY <2>4, <3>1 DEF Past
    <3>3. QED
      BY <3>2 DEF Past
  <2>7. Ledger!Once'
    <3>1. \A i \in 1 .. Len(Executions) : Executions'[i].planning # q
      BY <2>3 DEF LedgerInv, Ledger!Once
    <3>2. \A i, j \in 1 .. Len(Executions') : i # j => Executions'[i].planning # Executions'[j].planning
      BY <2>2, <2>3, <2>5, <3>1 DEF LedgerInv, Ledger!Once
    <3>3. \A i \in 1 .. Len(Executions') : Executions'[i].planning \notin Held'
      BY <2>2, <2>3, <2>4, <2>5 DEF LedgerInv, Ledger!Once
    <3>4. QED
      BY <3>2, <3>3 DEF Ledger!Once
  <2>8. Ledger!Approved'
    <3>1. by = "human" => \E g \in Granted : g[1] = q[1] /\ g[2] <= q[2]
      BY <2>1 DEF Ledger!Leave
    <3>2. QED
      BY <2>2, <2>3, <2>4, <2>5, <3>1 DEF LedgerInv, Ledger!Approved
  <2>9. \A p \in Held' : Past(p)'
    BY <2>4 DEF LedgerInv, Past
  <2>10. QED
    BY <1>t, <2>3, <2>4, <2>6, <2>7, <2>8, <2>9 DEF LedgerInv
<1>7. CASE Ledger!ChangePolicy \/ UNCHANGED Ledger!ledger
  <2>1. UNCHANGED <<planned, Open, Granted, Held, Executions>>
    BY <1>7 DEF Ledger!ChangePolicy, Ledger!ledger
  <2>2. \A p \in Plannings : Past(p) => Past(p)'
    BY <2>1 DEF Past
  <2>3. QED
    BY <1>t, <2>1, <2>2, LedgerInvKept
<1>8. QED
  BY <1>1, <1>2, <1>3, <1>4, <1>5, <1>6, <1>7 DEF Ledger!Next

\* An apply reads a planning that was, and claims none that is older.
ReadOK(a) ==
    /\ apply[a].at # "idle" => apply[a].read <= planned[apply[a].hash]
    /\ MayAct(a) => apply[a].read <= apply[a].claimed
ReadInv == \A a \in Appliers : ReadOK(a)

\* The step of an apply leaves the others alone.
LEMMA AloneApplies ==
  ASSUME NEW a \in Appliers, ApplyStep(a) \/ Crash(a), NEW b \in Appliers, b # a,
         apply \in [Appliers -> Calls]
  PROVE  apply'[b] = apply[b]
<1>1. ASSUME NEW h \in Worlds, NEW t, ApplyRead(a, h, t) PROVE apply'[b] = apply[b]
  BY <1>1 DEF ApplyRead
<1>2. ASSUME MarkExpired(a) \/ Finish(a) \/ Crash(a) PROVE apply'[b] = apply[b]
  BY <1>2 DEF MarkExpired, Finish, Crash
<1>3. ASSUME Gate(a) PROVE apply'[b] = apply[b]
  BY <1>3 DEF Gate
<1>4. ASSUME Claim(a) PROVE apply'[b] = apply[b]
  BY <1>4 DEF Claim
<1>5. ASSUME Check(a) PROVE apply'[b] = apply[b]
  BY <1>5 DEF Check
<1>6. ASSUME Act(a) PROVE apply'[b] = apply[b]
  BY <1>6 DEF Act
<1>7. ASSUME ActFails(a) PROVE apply'[b] = apply[b]
  BY <1>7 DEF ActFails
<1>8. QED
  BY <1>1, <1>2, <1>3, <1>4, <1>5, <1>6, <1>7 DEF ApplyStep

LEMMA ReadStep ==
  ASSUME TypeOK, ClaimsInv, ReadInv, Next
  PROVE  ReadInv'
<1>t. /\ apply \in [Appliers -> Calls] /\ planned \in [Worlds -> Nat]
      /\ \A a \in Appliers : apply[a] \in Calls
      /\ \A a \in Appliers : apply[a].read \in Nat /\ apply[a].claimed \in Nat
      /\ \A a \in Appliers : apply[a].at # "idle" => apply[a].hash \in Worlds
      /\ \A h \in Worlds : planned[h] \in Nat
  BY DEF TypeOK, ClaimsInv, Calls
<1>1. ASSUME NEW a \in Appliers, apply'[a] = apply[a], \A h \in Worlds : planned[h] <= planned'[h]
             /\ planned'[h] \in Nat
      PROVE  ReadOK(a)'
  BY <1>t, <1>1 DEF ReadInv, ReadOK, MayAct
<1>2. ASSUME UNCHANGED apply, \A h \in Worlds : planned[h] <= planned'[h] /\ planned'[h] \in Nat PROVE ReadInv'
  BY <1>1, <1>2 DEF ReadInv
<1>3. ASSUME NEW s \in snapshots, Put(s) PROVE ReadInv'
  <2>1. planned' = planned \/ planned' = [planned EXCEPT ![s.hash] = @ + 1]
    BY <1>3 DEF Put
  <2>2. \A h \in Worlds : planned[h] <= planned'[h] /\ planned'[h] \in Nat
    BY <1>t, <2>1
  <2>3. QED
    BY <1>2, <1>3, <2>2 DEF Put
<1>4. CASE UNCHANGED <<apply, planned>>
  BY <1>t, <1>2, <1>4
<1>5. ASSUME NEW a \in Appliers, ApplyStep(a) \/ Crash(a) PROVE ReadInv'
  <2>1. planned' = planned
    BY <1>5 DEF ApplyStep, Crash, ApplyRead, MarkExpired, Gate, Claim, Check, Act, ActFails, Finish
  <2>2. ASSUME NEW h \in Worlds, NEW t, ApplyRead(a, h, t) PROVE ReadOK(a)'
    <3>1. apply'[a] = [at |-> IF plan[h].live THEN "gate" ELSE "expire", hash |-> h, token |-> t,
                     approval |-> plan[h].approval, required |-> plan[h].required,
                     approved |-> FALSE, read |-> planned[h], claimed |-> 0]
      BY <1>t, <2>2 DEF ApplyRead
    <3>2. QED
      BY <1>t, <2>1, <3>1 DEF ReadOK, MayAct
  <2>3. ASSUME Claim(a) PROVE ReadOK(a)'
    <3>1. \/ apply'[a] = Idle
          \/ /\ apply[a].at = "claim" /\ apply'[a].read = apply[a].read
             /\ apply'[a].hash = apply[a].hash /\ apply'[a].claimed = planned[apply[a].hash]
      BY <1>t, <2>3 DEF Claim, Calls
    <3>2. QED
      BY <1>t, <2>1, <3>1 DEF ReadInv, ReadOK, MayAct, Idle
  <2>4. ASSUME MarkExpired(a) \/ Gate(a) \/ Check(a) \/ Act(a) \/ ActFails(a) \/ Finish(a) \/ Crash(a)
        PROVE  ReadOK(a)'
    <3>1. \/ apply'[a] = Idle
          \/ /\ apply[a].at # "idle" /\ apply'[a].read = apply[a].read
             /\ apply'[a].hash = apply[a].hash /\ apply'[a].claimed = apply[a].claimed
             /\ apply'[a].at \in {"check", "act"} => MayAct(a)
      BY <1>t, <2>4 DEF MarkExpired, Gate, Check, Act, ActFails, Finish, Crash, Calls, MayAct
    <3>2. QED
      BY <1>t, <2>1, <3>1 DEF ReadInv, ReadOK, MayAct, Idle
  <2>5. ReadOK(a)'
    BY <1>5, <2>2, <2>3, <2>4 DEF ApplyStep
  <2>6. \A b \in Appliers : b # a => apply'[b] = apply[b]
    BY <1>t, <1>5, AloneApplies
  <2>7. \A h \in Worlds : planned[h] <= planned'[h] /\ planned'[h] \in Nat
    BY <1>t, <2>1
  <2>8. QED
    BY <1>1, <2>5, <2>6, <2>7 DEF ReadInv
<1>6. QED
  BY <1>3, <1>4, <1>5 DEF Next, Snapshot, Approve, Expire, ChangeWorld, ChangePolicy

\* What is held moves with the applies that may act.
LEMMA HeldKept ==
  ASSUME \A a \in Appliers : /\ MayAct(a)' <=> MayAct(a)
                             /\ MayAct(a) => /\ apply'[a].hash = apply[a].hash
                                             /\ apply'[a].claimed = apply[a].claimed
  PROVE  Held' = Held
<1>1. \A p : p \in Held' <=> \E a \in Appliers : MayAct(a)' /\ p = <<apply'[a].hash, apply'[a].claimed>>
  BY DEF Held
<1>2. \A p : p \in Held <=> \E a \in Appliers : MayAct(a) /\ p = <<apply[a].hash, apply[a].claimed>>
  BY DEF Held
<1>3. \A p : p \in Held' <=> p \in Held
  BY <1>1, <1>2
<1>4. QED
  BY <1>3

LEMMA HeldDropped ==
  ASSUME TypeOK, ClaimsInv, NEW a \in Appliers, MayAct(a), ~MayAct(a)',
         \A b \in Appliers : b # a => apply'[b] = apply[b]
  PROVE  /\ <<apply[a].hash, apply[a].claimed>> \in Held
         /\ Held' = Held \ {<<apply[a].hash, apply[a].claimed>>}
<1>1. \A p : p \in Held' <=> \E b \in Appliers : MayAct(b)' /\ p = <<apply'[b].hash, apply'[b].claimed>>
  BY DEF Held
<1>2. \A p : p \in Held <=> \E b \in Appliers : MayAct(b) /\ p = <<apply[b].hash, apply[b].claimed>>
  BY DEF Held
<1>3. \A b \in Appliers : b # a /\ MayAct(b)
        => <<apply[b].hash, apply[b].claimed>> # <<apply[a].hash, apply[a].claimed>>
  BY DEF ClaimsInv, MayAct, InFlight
<1>4. \A b \in Appliers : b # a => (MayAct(b)' <=> MayAct(b))
  BY DEF MayAct
<1>5. \A p : p \in Held' <=> p \in Held /\ p # <<apply[a].hash, apply[a].claimed>>
  BY <1>1, <1>2, <1>3, <1>4
<1>6. QED
  BY <1>2, <1>5

LEMMA HeldClaimed ==
  ASSUME NEW a \in Appliers, ~MayAct(a), MayAct(a)',
         \A b \in Appliers : b # a => apply'[b] = apply[b]
  PROVE  Held' = Held \cup {<<apply'[a].hash, apply'[a].claimed>>}
<1>1. \A p : p \in Held' <=> \E b \in Appliers : MayAct(b)' /\ p = <<apply'[b].hash, apply'[b].claimed>>
  BY DEF Held
<1>2. \A p : p \in Held <=> \E b \in Appliers : MayAct(b) /\ p = <<apply[b].hash, apply[b].claimed>>
  BY DEF Held
<1>3. \A b \in Appliers : b # a => (MayAct(b)' <=> MayAct(b))
  BY DEF MayAct
<1>4. \A p : p \in Held' <=> p \in Held \/ p = <<apply'[a].hash, apply'[a].claimed>>
  BY <1>1, <1>2, <1>3
<1>5. QED
  BY <1>4

\* The history is read one execution at a time.
Entry(x) == [planning |-> <<x.hash, x.claimed>>, by |-> IF x.token = None THEN "policy" ELSE "human"]
LEMMA ExecutionsTyped ==
  ASSUME TypeOK, \A i \in 1 .. Len(acted) : acted[i].hash \in Worlds /\ acted[i].claimed \in Nat
  PROVE  /\ Executions \in Seq(Entries) /\ Len(Executions) = Len(acted)
         /\ \A i \in 1 .. Len(acted) : Executions[i] = Entry(acted[i])
<1>1. Len(acted) \in Nat
  BY DEF TypeOK
<1>2. Executions = [i \in 1 .. Len(acted) |-> Entry(acted[i])]
  BY DEF Executions, Entry
<1>3. \A i \in 1 .. Len(acted) : Entry(acted[i]) \in Entries
  BY DEF Entry, Entries, Plannings
<1>4. QED
  BY <1>1, <1>2, <1>3

LEMMA ExecutionsGrow ==
  ASSUME TypeOK, TypeOK', NEW e, acted' = Append(acted, e),
         \A i \in 1 .. Len(acted') : acted'[i].hash \in Worlds /\ acted'[i].claimed \in Nat
  PROVE  Executions' = Append(Executions, Entry(e))
<1>1. /\ acted \in Seq(Acts) /\ Len(acted) \in Nat /\ Len(acted') = Len(acted) + 1
      /\ acted'[Len(acted) + 1] = e /\ \A i \in 1 .. Len(acted) : acted'[i] = acted[i]
  BY DEF TypeOK
<1>2. /\ Executions \in Seq(Entries) /\ Len(Executions) = Len(acted)
      /\ \A i \in 1 .. Len(acted) : Executions[i] = Entry(acted[i])
  BY <1>1, ExecutionsTyped
<1>3. Executions' = [i \in 1 .. Len(acted') |-> Entry(acted'[i])]
  BY DEF Executions, Entry
<1>4. \A i \in 1 .. Len(acted') : Entry(acted'[i]) \in Entries
  BY DEF Entry, Entries, Plannings
<1>5. Executions' \in Seq(Entries) /\ Len(Executions') = Len(acted) + 1
  BY <1>1, <1>3, <1>4
<1>6. Entry(e) \in Entries
  BY <1>1, <1>4
<1> HIDE DEF Entry, Entries
<1>7. /\ Append(Executions, Entry(e)) \in Seq(Entries)
      /\ Len(Append(Executions, Entry(e))) = Len(acted) + 1
      /\ \A i \in 1 .. Len(acted) : Append(Executions, Entry(e))[i] = Executions[i]
      /\ Append(Executions, Entry(e))[Len(acted) + 1] = Entry(e)
  BY <1>1, <1>2, <1>6
<1>8. \A i \in 1 .. Len(acted) + 1 : Executions'[i] = Append(Executions, Entry(e))[i]
  <2>1. \A i \in 1 .. Len(acted) + 1 : i \in 1 .. Len(acted) \/ i = Len(acted) + 1
    BY <1>1
  <2>2. QED
    BY <1>1, <1>2, <1>3, <1>7, <2>1
<1>9. QED
  BY <1>5, <1>7, <1>8, SeqEqual

LEMMA PlanLedgerStep ==
  ASSUME PlansInv, TypeOK', ClaimsInv', ReadInv, Next
  PROVE  [Ledger!Next]_Ledger!ledger
<1>t. /\ apply \in [Appliers -> Calls] /\ plan \in [Worlds -> Rows] /\ planned \in [Worlds -> Nat]
      /\ TypeOK /\ ClaimsInv
      /\ \A a \in Appliers : apply[a] \in Calls
      /\ \A h \in Worlds : plan[h] \in Rows
      /\ \A a \in Appliers : apply[a].at # "idle" => apply[a].hash \in Worlds
  BY DEF PlansInv, TypeOK, ClaimsInv
<1>g. UNCHANGED minted => UNCHANGED Granted
  BY DEF Granted
<1>e. UNCHANGED acted => UNCHANGED Executions
  BY DEF Executions
<1>h. UNCHANGED apply => UNCHANGED Held
  BY DEF Held, MayAct
<1>o. UNCHANGED plan => UNCHANGED Open
  BY DEF Open
<1>0. UNCHANGED <<planned, Open, Granted, Held, Executions>> => Ledger!Next
  BY DEF Ledger!Next, Ledger!ChangePolicy
\* The plan of an apply that ends leaves the open ones.
<1>f. ASSUME NEW h \in Worlds, NEW q, q # "planned", plan' = [plan EXCEPT ![h].state = q]
      PROVE  Open' = Open \ {h}
  <2>1. \A g \in Worlds : plan'[g].state = IF g = h THEN q ELSE plan[g].state
    BY <1>t, <1>f DEF Rows
  <2>2. QED
    BY <1>f, <2>1 DEF Open
<1>1. CASE Snapshot \/ ChangeWorld \/ ChangePolicy
  BY <1>1, <1>g, <1>e, <1>h, <1>o, <1>0 DEF Snapshot, ChangeWorld, ChangePolicy
<1>2. ASSUME NEW s \in snapshots, Put(s) PROVE [Ledger!Next]_Ledger!ledger
  <2>1. CASE UNCHANGED <<plan, planned>>
    BY <1>2, <2>1, <1>g, <1>e, <1>h, <1>o, <1>0 DEF Put
  <2>2. CASE plan' = [plan EXCEPT ![s.hash] = Reset(s.hash, s.required)]
             /\ planned' = [planned EXCEPT ![s.hash] = @ + 1]
    <3>1. s.hash \in Worlds
      BY <1>t DEF TypeOK
    <3>2. Open' = Open \cup {s.hash}
      BY <1>t, <2>2, <3>1 DEF Open, Reset
    <3>3. Ledger!Plan(s.hash)
      BY <1>2, <2>2, <3>2, <1>g, <1>e, <1>h DEF Put, Ledger!Plan
    <3>4. QED
      BY <3>1, <3>3 DEF Ledger!Next
  <2>3. QED
    BY <1>2, <2>1, <2>2 DEF Put
<1>3. ASSUME NEW h \in Worlds, Approve(h) PROVE [Ledger!Next]_Ledger!ledger
  <2> DEFINE m == [hash |-> h, planning |-> planned[h]]
  <2>1. h \in Open /\ Open' = Open
    BY <1>t, <1>3 DEF Approve, Approvable, Open, Rows
  <2>2. minted \in Seq(Mints) /\ Len(minted) \in Nat /\ minted' = Append(minted, m)
    BY <1>t, <1>3 DEF TypeOK, Approve
  <2>3. m.hash = h /\ m.planning = planned[h]
    OBVIOUS
  <2> HIDE DEF m
  <2>4. /\ Len(minted') = Len(minted) + 1 /\ minted'[Len(minted) + 1] = m
        /\ \A t \in 1 .. Len(minted) : minted'[t] = minted[t]
    BY <2>2
  <2>5. \A t : t \in 1 .. Len(minted') <=> t \in 1 .. Len(minted) \/ t = Len(minted) + 1
    BY <2>2, <2>4
  <2>6. \A p : p \in Granted' <=> \E t \in 1 .. Len(minted') : p = <<minted'[t].hash, minted'[t].planning>>
    BY DEF Granted
  <2>7. \A p : p \in Granted <=> \E t \in 1 .. Len(minted) : p = <<minted[t].hash, minted[t].planning>>
    BY DEF Granted
  <2>8. \A p : p \in Granted' <=> p \in Granted \/ p = <<h, planned[h]>>
    BY <2>3, <2>4, <2>5, <2>6, <2>7
  <2>9. Granted' = Granted \cup {<<h, planned[h]>>}
    BY <2>8
  <2>10. Ledger!Grant(h)
    BY <1>3, <2>1, <2>9, <1>e, <1>h DEF Approve, Ledger!Grant, Ledger!Last
  <2>11. QED
    BY <2>10 DEF Ledger!Next
<1>4. ASSUME NEW h \in Worlds, Expire(h) PROVE [Ledger!Next]_Ledger!ledger
  <2>1. \A g \in Worlds : plan'[g].state = plan[g].state
    BY <1>t, <1>4 DEF Expire, Rows
  <2>2. Open' = Open
    BY <2>1 DEF Open
  <2>3. QED
    BY <1>4, <2>2, <1>g, <1>e, <1>h, <1>0 DEF Expire
<1>5. ASSUME NEW a \in Appliers, ApplyStep(a) \/ Crash(a) PROVE [Ledger!Next]_Ledger!ledger
  <2> DEFINE h == apply[a].hash
             p == <<apply[a].hash, apply[a].claimed>>
  <2>b. \A b \in Appliers : b # a => apply'[b] = apply[b]
    BY <1>t, <1>5, AloneApplies
  \* An apply that may act neither before nor after changes no claim.
  <2>n. ~MayAct(a) /\ ~MayAct(a)' => Held' = Held
    <3>1. \A b \in Appliers : b # a => (MayAct(b)' <=> MayAct(b))
      BY <2>b DEF MayAct
    <3>2. QED
      BY <2>b, <3>1, HeldKept
  <2>d. MayAct(a) /\ ~MayAct(a)' => p \in Held /\ Held' = Held \ {p}
    BY <1>t, <2>b, HeldDropped
  <2>w. apply[a].at # "idle" => h \in Worlds
    BY <1>t
  \* It ends its plan, if that is still open.
  <2>c. ASSUME apply[a].at # "idle", Held' = Held, planned' = planned, UNCHANGED <<minted, acted>>,
               Open' = Open \ {h}, policy' = policy
        PROVE  [Ledger!Next]_Ledger!ledger
    <3>1. CASE h \in Open
      <4>1. Ledger!Close(h)
        BY <2>c, <3>1, <1>g, <1>e DEF Ledger!Close
      <4>2. QED
        BY <2>c, <2>w, <4>1 DEF Ledger!Next
    <3>2. CASE h \notin Open
      <4>1. Open' = Open
        BY <2>c, <3>2
      <4>2. QED
        BY <2>c, <4>1, <1>g, <1>e, <1>0
    <3>3. QED
      BY <3>1, <3>2
  <2>x. ASSUME MayAct(a), ~MayAct(a)', planned' = planned, UNCHANGED <<minted, acted>>, policy' = policy,
               Open' = Open \/ Open' = Open \ {h}
        PROVE  [Ledger!Next]_Ledger!ledger
    <3>1. Ledger!Drop(p)
      BY <2>x, <2>d, <1>g, <1>e DEF Ledger!Drop
    <3>2. QED
      BY <2>x, <2>d, <3>1 DEF Ledger!Next
  <2>1. ASSUME NEW g \in Worlds, NEW t, ApplyRead(a, g, t) PROVE [Ledger!Next]_Ledger!ledger
    <3>1. ~MayAct(a) /\ ~MayAct(a)'
      BY <1>t, <2>1 DEF ApplyRead, MayAct
    <3>2. QED
      BY <2>1, <2>n, <3>1, <1>g, <1>e, <1>o, <1>0 DEF ApplyRead
  <2>2. CASE MarkExpired(a)
    <3>1. ~MayAct(a) /\ ~MayAct(a)' /\ apply[a].at # "idle"
      BY <1>t, <2>2 DEF MarkExpired, MayAct, Idle
    <3>2. Open' = Open \ {h}
      <4>1. h \in Worlds
        BY <2>w, <3>1
      <4>2. \A g \in Worlds : plan'[g].state = IF g = h /\ plan[g].state = "planned" THEN "expired" ELSE plan[g].state
        BY <1>t, <2>2, <4>1 DEF MarkExpired, Rows
      <4>3. QED
        BY <4>2 DEF Open
    <3>3. QED
      BY <2>2, <2>n, <2>c, <3>1, <3>2 DEF MarkExpired
  <2>3. CASE Gate(a)
    <3>1. ~MayAct(a) /\ ~MayAct(a)'
      BY <1>t, <2>3 DEF Gate, MayAct, Idle, Calls
    <3>2. QED
      BY <2>3, <2>n, <3>1, <1>g, <1>e, <1>o, <1>0 DEF Gate
  <2>4. CASE Claim(a)
    <3>1. CASE Claimable(h) /\ plan' = [plan EXCEPT ![h].state = "applying"]
               /\ apply' = [apply EXCEPT ![a].at = "check", ![a].claimed = planned[h]]
      <4>1. /\ ~MayAct(a) /\ MayAct(a)' /\ h \in Worlds
            /\ apply'[a].hash = h /\ apply'[a].claimed = planned[h]
        BY <1>t, <2>4, <2>w, <3>1 DEF Claim, MayAct, Calls
      <4>2. Held' = Held \cup {<<h, planned[h]>>}
        BY <2>b, <4>1, HeldClaimed
      <4>3. h \in Open /\ Open' = Open \ {h}
        BY <1>f, <3>1, <4>1 DEF Claimable, Open
      <4>4. Ledger!Claim(h)
        BY <2>4, <4>2, <4>3, <1>g, <1>e DEF Claim, Ledger!Claim, Ledger!Last
      <4>5. QED
        BY <4>1, <4>4 DEF Ledger!Next
    <3>2. CASE apply' = [apply EXCEPT ![a] = Idle] /\ plan' = plan
      <4>1. ~MayAct(a) /\ ~MayAct(a)'
        BY <1>t, <2>4, <3>2 DEF Claim, MayAct, Idle
      <4>2. QED
        BY <2>4, <2>n, <3>2, <4>1, <1>g, <1>e, <1>o, <1>0 DEF Claim
    <3>3. QED
      BY <2>4, <3>1, <3>2 DEF Claim
  <2>5. CASE Check(a)
    <3>1. MayAct(a) /\ apply[a].at # "idle" /\ UNCHANGED <<minted, acted, planned, policy>>
      BY <2>5 DEF Check, MayAct
    <3>2. CASE apply' = [apply EXCEPT ![a].at = "act"] /\ UNCHANGED plan
      <4>1. MayAct(a)' /\ apply'[a].hash = apply[a].hash /\ apply'[a].claimed = apply[a].claimed
        BY <1>t, <3>2 DEF MayAct, Calls
      <4>2. Held' = Held
        <5>1. \A b \in Appliers : b # a => (MayAct(b)' <=> MayAct(b))
          BY <2>b DEF MayAct
        <5>2. QED
          BY <2>b, <3>1, <4>1, <5>1, HeldKept
      <4>3. QED
        BY <3>1, <3>2, <4>2, <1>g, <1>e, <1>o, <1>0
    <3>3. ASSUME apply' = [apply EXCEPT ![a] = Idle], NEW q \in {"rejected", "failed"}, plan' = Finished(h, q)
          PROVE  [Ledger!Next]_Ledger!ledger
      <4>1. ~MayAct(a)'
        BY <1>t, <3>3 DEF MayAct, Idle
      <4>2. Open' = Open \ {h}
        BY <1>f, <2>w, <3>1, <3>3 DEF Finished
      <4>3. QED
        BY <2>x, <3>1, <4>1, <4>2
    <3>4. QED
      BY <2>5, <3>2, <3>3 DEF Check
  <2>6. CASE Act(a)
    <3> DEFINE e == [hash |-> apply[a].hash, read |-> apply[a].read, claimed |-> apply[a].claimed,
                     token |-> IF apply[a].approved THEN apply[a].token ELSE None, policy |-> policy]
    <3>1. MayAct(a) /\ ~MayAct(a)' /\ apply[a].at # "idle" /\ acted' = Append(acted, e)
      BY <1>t, <2>6 DEF Act, MayAct, Calls
    <3>2. \A i \in 1 .. Len(acted') : acted'[i].hash \in Worlds /\ acted'[i].claimed \in Nat
      <4>1. acted' \in Seq(Acts)
        BY DEF TypeOK
      <4>2. \A i \in 1 .. Len(acted') : acted'[i] \in Acts
        BY <4>1
      <4>3. QED
        BY <4>2 DEF Acts
    <3>3. Executions' = Append(Executions, Entry(e))
      BY <1>t, <3>1, <3>2, ExecutionsGrow
    <3>4. /\ e.hash = apply[a].hash /\ e.claimed = apply[a].claimed
          /\ e.token = IF apply[a].approved THEN apply[a].token ELSE None
      OBVIOUS
    <3> HIDE DEF e
    <3> DEFINE by == IF e.token = None THEN "policy" ELSE "human"
    <3>5. Entry(e) = [planning |-> p, by |-> by]
      BY <3>4 DEF Entry
    <3>6. Ledger!Leave(p, by)
      <4>1. CASE e.token = None
        <5>1. ~apply[a].approved
          BY <3>4, <4>1 DEF PlansInv, TokensInv
        <5>2. policy = "allow"
          BY <2>6, <5>1 DEF Act, GateOpen
        <5>3. QED
          BY <4>1, <5>2 DEF Ledger!Leave
      <4>2. CASE e.token # None
        <5>1. apply[a].token = apply[a].approval /\ apply[a].token # None /\ e.token = apply[a].token
          BY <3>4, <4>2 DEF PlansInv, TokensInv
        <5>2. Stands(apply[a].approval, h, apply[a].read)
          BY <3>1 DEF PlansInv, TokensInv
        <5>3. <<h, apply[a].read>> \in Granted
          BY <5>1, <5>2 DEF Stands, Granted
        <5>4. apply[a].read <= apply[a].claimed
          BY <3>1 DEF ReadInv, ReadOK
        <5>5. \E g \in Granted : g[1] = p[1] /\ g[2] <= p[2]
          BY <5>3, <5>4
        <5>6. QED
          BY <4>2, <5>5 DEF Ledger!Leave
      <4>3. QED
        BY <4>1, <4>2
    <3>7. by \in {"policy", "human"}
      OBVIOUS
    <3> HIDE DEF by
    <3>8. UNCHANGED <<policy, planned, Open, Granted>>
      BY <2>6, <1>g, <1>o DEF Act
    <3>9. Ledger!Execute(p)
      BY <2>d, <3>1, <3>3, <3>5, <3>6, <3>7, <3>8 DEF Ledger!Execute
    <3>10. QED
      BY <2>d, <3>1, <3>9 DEF Ledger!Next
  <2>7. CASE ActFails(a)
    <3>1. MayAct(a) /\ ~MayAct(a)'
      BY <1>t, <2>7 DEF ActFails, MayAct, Calls
    <3>2. QED
      BY <2>7, <2>x, <3>1, <1>o DEF ActFails
  <2>8. CASE Finish(a)
    <3>1. ~MayAct(a) /\ ~MayAct(a)' /\ apply[a].at # "idle" /\ apply[a].at # "planned"
      BY <1>t, <2>8 DEF Finish, MayAct, Idle
    <3>2. Open' = Open \ {h}
      BY <1>f, <2>8, <2>w, <3>1 DEF Finish, Finished
    <3>3. QED
      BY <2>8, <2>n, <2>c, <3>1, <3>2 DEF Finish
  <2>9. CASE Crash(a)
    <3>1. ~MayAct(a)'
      BY <1>t, <2>9 DEF Crash, MayAct, Idle
    <3>2. CASE MayAct(a)
      BY <2>9, <2>x, <3>1, <3>2, <1>o DEF Crash
    <3>3. CASE ~MayAct(a)
      BY <2>9, <2>n, <3>1, <3>3, <1>g, <1>e, <1>o, <1>0 DEF Crash
    <3>4. QED
      BY <3>2, <3>3
  <2>10. QED
    BY <1>5, <2>1, <2>2, <2>3, <2>4, <2>5, <2>6, <2>7, <2>8, <2>9 DEF ApplyStep
<1>6. QED
  BY <1>1, <1>2, <1>3, <1>4, <1>5 DEF Next

\* Rows, calls, tokens and executions keep their types for any worlds,
\* appliers and bounds.
THEOREM PlansTypeCorrect == Spec => []TypeOK
<1>1. PlansInv => TypeOK
  BY DEF PlansInv
<1>2. QED
  BY <1>1, PlansAlways, PTL

\* Behind the reads, resets, late finishes and crashes of plan and apply is a
\* ledger of plannings, each claimed once and executed by its claim alone.
THEOREM PlansRefinement == Spec => ImplementsPlanLedger
<1>1. Init => Ledger!Init /\ ReadInv
  <2> SUFFICES ASSUME Init PROVE Ledger!Init /\ ReadInv
    OBVIOUS
  <2>1. Open = {} /\ Held = {} /\ ReadInv
    BY DEF Init, Open, Held, MayAct, NoPlan, Idle, ReadInv, ReadOK
  <2>2. Granted = {} /\ Executions = <<>>
    <3>1. Len(minted) = 0 /\ Len(acted) = 0
      BY DEF Init
    <3>2. Granted = {}
      BY <3>1 DEF Granted
    <3>3. Executions \in Seq(Entries) /\ Len(Executions) = 0
      BY <3>1 DEF Executions
    <3>4. QED
      BY <3>2, <3>3, EmptySeq
  <2>3. QED
    BY <2>1, <2>2 DEF Init, Ledger!Init
<1>2. PlansInv /\ ReadInv /\ [Next]_vars => ReadInv'
  <2>1. PlansInv /\ ReadInv /\ Next => ReadInv'
    BY ReadStep DEF PlansInv
  <2>2. ReadInv /\ UNCHANGED vars => ReadInv'
    BY DEF ReadInv, ReadOK, MayAct, vars
  <2>3. QED
    BY <2>1, <2>2
<1>3. PlansInv /\ PlansInv' /\ ReadInv /\ [Next]_vars => [Ledger!Next]_Ledger!ledger
  <2>1. PlansInv /\ PlansInv' /\ ReadInv /\ Next => [Ledger!Next]_Ledger!ledger
    BY PlanLedgerStep DEF PlansInv
  <2>2. UNCHANGED vars => UNCHANGED Ledger!ledger
    BY DEF vars, Ledger!ledger, Open, Granted, Held, MayAct, Executions
  <2>3. QED
    BY <2>1, <2>2
<1>4. QED
  BY <1>1, <1>2, <1>3, PlansAlways, PTL DEF Spec, ImplementsPlanLedger, Ledger!Spec

\* In the ledger no planning is executed twice, nor while it may be executed by
\* another apply, and a human's leave is an approval of the plan.
THEOREM PlanLedgerCorrect == Ledger!Spec => [](Ledger!Once /\ Ledger!Approved)
<1>1. LedgerInv => Ledger!Once /\ Ledger!Approved
  BY DEF LedgerInv
<1>2. QED
  BY <1>1, LedgerInvInit, LedgerInvStep, PTL DEF Ledger!Spec

\* However many applies run, crash and overlap with plans being reset, no two
\* executions of a plan took the same planning of it.
THEOREM PlanningCorrect == Spec => []OnePerPlanning
<1>1. TypeOK /\ Ledger!Once => OnePerPlanning
  <2> SUFFICES ASSUME TypeOK, Ledger!Once, NEW i \in 1 .. Len(acted), NEW j \in 1 .. Len(acted), i # j,
                      acted[i].hash = acted[j].hash
               PROVE  acted[i].claimed # acted[j].claimed
    BY DEF OnePerPlanning
  <2>1. \A n \in 1 .. Len(acted) : acted[n] \in Acts
    BY DEF TypeOK
  <2>2. /\ Len(Executions) = Len(acted)
        /\ \A n \in 1 .. Len(acted) : Executions[n] = Entry(acted[n])
    BY <2>1, ExecutionsTyped DEF Acts
  <2>3. Executions[i].planning # Executions[j].planning
    BY <2>2 DEF Ledger!Once
  <2>4. \A x : Entry(x).planning = <<x.hash, x.claimed>>
    BY DEF Entry
  <2>5. QED
    BY <2>2, <2>3, <2>4
<1>2. QED
  BY <1>1, PlansTypeCorrect, PlansRefinement, PlanLedgerCorrect, PTL DEF ImplementsPlanLedger

\* However policy moves between the gate and the tool, an execution has
\* policy's leave, or a token a human minted for this plan.
THEOREM AuthorisedCorrect == Spec => []ActIsAuthorised
<1>1. PlansInv => ActIsAuthorised
  <2>1. SUFFICES ASSUME PlansInv, NEW i \in 1 .. Len(acted), acted[i].policy # "allow"
                 PROVE  /\ acted[i].policy = "require" /\ acted[i].token \in 1 .. Len(minted)
                        /\ minted[acted[i].token].hash = acted[i].hash
    BY DEF ActIsAuthorised
  <2>2. /\ acted[i].policy = "require" /\ acted[i].token # None
        /\ Stands(acted[i].token, acted[i].hash, acted[i].read)
    BY <2>1 DEF PlansInv, TokensInv
  <2>3. QED
    BY <2>2 DEF Stands
<1>2. QED
  BY <1>1, PlansAlways, PTL

\* The token of an execution that claimed the planning it read was minted for
\* that planning.
THEOREM TokenCorrect == Spec => []TokenOfItsPlanning
<1>1. PlansInv => TokenOfItsPlanning
  <2>1. SUFFICES ASSUME PlansInv, NEW i \in 1 .. Len(acted), acted[i].token # None, acted[i].read = acted[i].claimed
                 PROVE  minted[acted[i].token] = [hash |-> acted[i].hash, planning |-> acted[i].claimed]
    BY DEF TokenOfItsPlanning
  <2>2. QED
    BY <2>1 DEF PlansInv, TokensInv, Stands
<1>2. QED
  BY <1>1, PlansAlways, PTL

\* A plan that reads applied and was not reset under a running apply was
\* executed in its current planning.
THEOREM AppliedCorrect == Spec => []AppliedIsTrue
<1>1. PlansInv => AppliedIsTrue
  BY DEF PlansInv, AppliesInv
<1>2. QED
  BY <1>1, PlansAlways, PTL
=============================================================================
