------------------------------- MODULE Plans -------------------------------
(***************************************************************************)
(* Plan and apply of one mutating call of an agent (examlops/plans.py over *)
(* examlops/data/plans.py). The hash of a plan covers the call and the     *)
(* state it depends on, so a plan of this call is named by the world it    *)
(* was planned in. A row is planned, approved by a human for a token,      *)
(* claimed by one apply, checked against the world, and finished; one that *)
(* ended or expired is planned again in place (put, "reset").              *)
(*                                                                         *)
(* One action is one transaction of the plan store, one read of policy or  *)
(* world, or the tool's own call. Storage errors refuse the request before *)
(* it changes anything and are left out; audit records too.                *)
(***************************************************************************)
EXTENDS Naturals, Sequences, FiniteSets

CONSTANTS
    Worlds,        \* what the preconditions of the call can be; plan hashes
    Appliers,      \* concurrent apply_plan calls
    None,          \* no token
    Hitl,          \* whether the tool's tier always needs a human (hitl_required)
    MaxPlannings,  \* bound: plan_change calls
    MaxTokens,     \* bound: approve_plan calls
    MaxFaults      \* bound: crashed applies, and tools that fail

ASSUME PlansAssumption ==
    /\ IsFiniteSet(Worlds) /\ Worlds # {} /\ IsFiniteSet(Appliers)
    /\ Hitl \in BOOLEAN /\ MaxPlannings \in Nat /\ MaxTokens \in Nat /\ MaxFaults \in Nat
    /\ None \notin Nat /\ None \notin Worlds

VARIABLES
    world,      \* the state the call depends on
    policy,     \* what the agent_write policy decides for this call
    plan,       \* agent_plans: state, whether expires_at is ahead, approval, required_approvals
    snapshots,  \* plan_change calls between their snapshot and their put
    apply,      \* an apply_plan call: where it is, its plan and token, and the row it read
    planned,    \* times a plan was created or reset
    minted,     \* tokens: the plan and the planning each was minted for
    acted,      \* executions of the tool
    replanned,  \* plans reset while an apply of them was running
    budget      \* plan_change calls and faults so far

vars == <<world, policy, plan, snapshots, apply, planned, minted, acted, replanned, budget>>

Policies == {"allow", "require", "deny"}
Tokens == 1 .. MaxTokens
NoPlan == [state |-> "none", live |-> FALSE, approval |-> None, required |-> FALSE]
Idle == [at |-> "idle", hash |-> None, token |-> None, approval |-> None, required |-> FALSE,
         approved |-> FALSE, read |-> 0, claimed |-> 0]
Live(h) == plan[h].state \in {"planned", "applying"} /\ plan[h].live

Init ==
    /\ world \in Worlds /\ policy \in Policies
    /\ plan = [h \in Worlds |-> NoPlan]
    /\ snapshots = {} /\ apply = [a \in Appliers |-> Idle]
    /\ planned = [h \in Worlds |-> 0]
    /\ minted = <<>> /\ acted = <<>> /\ replanned = {}
    /\ budget = [plans |-> 0, faults |-> 0]

UseFault == budget.faults < MaxFaults /\ budget' = [budget EXCEPT !.faults = @ + 1]

----------------------------------------------------------------------------
(* plan_change and approve_plan *)

\* plan_change probes the policy gate and takes the snapshot.
Snapshot ==
    /\ policy # "deny" /\ budget.plans < MaxPlannings
    /\ budget' = [budget EXCEPT !.plans = @ + 1]
    /\ snapshots' = snapshots \cup {[hash |-> world, required |-> policy = "require" \/ Hitl]}
    /\ UNCHANGED <<world, policy, plan, apply, planned, minted, acted, replanned>>

\* put: created, existing, or reset.
Keep(h) == Live(h)
ResetWithApproval(h, needed) == [plan[h] EXCEPT !.state = "planned", !.live = TRUE, !.required = needed]
Reset(h, needed) == [state |-> "planned", live |-> TRUE, approval |-> None, required |-> needed]
Put(s) ==
    LET h == s.hash
    IN /\ s \in snapshots /\ snapshots' = snapshots \ {s}
       /\ \/ Keep(h) /\ UNCHANGED <<plan, planned, replanned>>
          \/ /\ ~Keep(h)
             /\ plan' = [plan EXCEPT ![h] = Reset(h, s.required)]
             /\ planned' = [planned EXCEPT ![h] = @ + 1]
             /\ replanned' = IF plan[h].state = "applying" THEN replanned \cup {h} ELSE replanned
       /\ UNCHANGED <<world, policy, apply, minted, acted, budget>>

\* approve_plan: set_approval on a live planned plan; a later token replaces
\* the earlier one.
Approvable(h) == plan[h].state = "planned" /\ plan[h].live
Approve(h) ==
    /\ Len(minted) < MaxTokens /\ Approvable(h)
    /\ minted' = Append(minted, [hash |-> h, planning |-> planned[h]])
    /\ plan' = [plan EXCEPT ![h].approval = Len(minted) + 1]
    /\ UNCHANGED <<world, policy, snapshots, apply, planned, acted, replanned, budget>>

----------------------------------------------------------------------------
(* apply_plan *)

\* get: an expired plan is marked, another state than planned is refused.
ApplyRead(a, h, t) ==
    /\ apply[a].at = "idle" /\ plan[h].state = "planned"
    /\ t = None \/ t \in 1 .. Len(minted)
    /\ apply' = [apply EXCEPT ![a] =
                    [at |-> IF plan[h].live THEN "gate" ELSE "expire", hash |-> h, token |-> t,
                     approval |-> plan[h].approval, required |-> plan[h].required,
                     approved |-> FALSE, read |-> planned[h], claimed |-> 0]]
    /\ UNCHANGED <<world, policy, plan, snapshots, planned, minted, acted, replanned, budget>>
\* set_state(only_from planned): whatever planning the row is of by now.
MarkExpired(a) ==
    /\ apply[a].at = "expire"
    /\ plan' = [plan EXCEPT ![apply[a].hash].state = IF @ = "planned" THEN "expired" ELSE @]
    /\ apply' = [apply EXCEPT ![a] = Idle]
    /\ UNCHANGED <<world, policy, snapshots, planned, minted, acted, replanned, budget>>

\* The policy is evaluated again; a token is compared with the row that was read.
Matches(a) == apply[a].token # None /\ apply[a].token = apply[a].approval
NeedsHuman(a) == policy = "require" \/ apply[a].required \/ Hitl
Gate(a) ==
    /\ apply[a].at = "gate"
    /\ \/ /\ policy # "deny" /\ (NeedsHuman(a) => Matches(a))
          /\ apply' = [apply EXCEPT ![a].at = "claim", ![a].approved = NeedsHuman(a)]
       \/ /\ policy = "deny" \/ (NeedsHuman(a) /\ ~Matches(a))
          /\ apply' = [apply EXCEPT ![a] = Idle]
    /\ UNCHANGED <<world, policy, plan, snapshots, planned, minted, acted, replanned, budget>>

\* claim_apply: one conditional UPDATE.
ClaimableTwice(h) == plan[h].state \in {"planned", "applying"} /\ plan[h].live
Claimable(h)      == plan[h].state = "planned" /\ plan[h].live
Claim(a) ==
    LET h == apply[a].hash
    IN /\ apply[a].at = "claim"
       /\ \/ /\ Claimable(h)
             /\ plan' = [plan EXCEPT ![h].state = "applying"]
             /\ apply' = [apply EXCEPT ![a].at = "check", ![a].claimed = planned[h]]
          \/ ~Claimable(h) /\ apply' = [apply EXCEPT ![a] = Idle] /\ plan' = plan
       /\ UNCHANGED <<world, policy, snapshots, planned, minted, acted, replanned, budget>>

\* finish: by hash, whatever became of the row.
FinishedApplied(h, state) == [plan EXCEPT ![h].state = "applied"]
Finished(h, state) == [plan EXCEPT ![h].state = state]

\* The snapshot again; a read that fails ends the plan as failed.
Same(a) == world = apply[a].hash
Check(a) ==
    /\ apply[a].at = "check"
    /\ \/ /\ Same(a) /\ apply' = [apply EXCEPT ![a].at = "act"] /\ UNCHANGED <<plan, budget>>
       \/ /\ ~Same(a) /\ apply' = [apply EXCEPT ![a] = Idle]
          /\ plan' = Finished(apply[a].hash, "rejected") /\ budget' = budget
       \/ /\ UseFault /\ apply' = [apply EXCEPT ![a] = Idle]
          /\ plan' = Finished(apply[a].hash, "failed")
    /\ UNCHANGED <<world, policy, snapshots, planned, minted, acted, replanned>>

\* The tool's own gate evaluates the policy once more; then the tool acts, and
\* reports so, or acts and then raises or answers not ok.
GateOpen(a) == policy = "allow" \/ (policy = "require" /\ apply[a].approved)
Act(a) ==
    /\ apply[a].at = "act" /\ GateOpen(a)
    /\ acted' = Append(acted, [hash |-> apply[a].hash, read |-> apply[a].read, claimed |-> apply[a].claimed,
                               token |-> IF apply[a].approved THEN apply[a].token ELSE None,
                               policy |-> policy])
    /\ world' \in Worlds
    /\ \/ apply' = [apply EXCEPT ![a].at = "applied"] /\ budget' = budget
       \/ apply' = [apply EXCEPT ![a].at = "failed"] /\ UseFault
    /\ UNCHANGED <<policy, plan, snapshots, planned, minted, replanned>>
\* The gate refuses, or the tool fails before it acts.
ActFails(a) ==
    /\ apply[a].at = "act"
    /\ \/ ~GateOpen(a) /\ budget' = budget
       \/ GateOpen(a) /\ UseFault
    /\ apply' = [apply EXCEPT ![a].at = "failed"]
    /\ UNCHANGED <<world, policy, plan, snapshots, planned, minted, acted, replanned>>
Finish(a) ==
    /\ apply[a].at \in {"applied", "failed"}
    /\ plan' = Finished(apply[a].hash, apply[a].at)
    /\ apply' = [apply EXCEPT ![a] = Idle]
    /\ UNCHANGED <<world, policy, snapshots, planned, minted, acted, replanned, budget>>

----------------------------------------------------------------------------
(* Surroundings *)

Crash(a) ==
    /\ apply[a].at # "idle" /\ UseFault
    /\ apply' = [apply EXCEPT ![a] = Idle]
    /\ UNCHANGED <<world, policy, plan, snapshots, planned, minted, acted, replanned>>
Expire(h) ==
    /\ Live(h) /\ plan' = [plan EXCEPT ![h].live = FALSE]
    /\ UNCHANGED <<world, policy, snapshots, apply, planned, minted, acted, replanned, budget>>
ChangeWorld ==
    /\ world' \in Worlds \ {world}
    /\ UNCHANGED <<policy, plan, snapshots, apply, planned, minted, acted, replanned, budget>>
ChangePolicy ==
    /\ policy' \in Policies \ {policy}
    /\ UNCHANGED <<world, plan, snapshots, apply, planned, minted, acted, replanned, budget>>

ApplyStep(a) ==
    \/ \E h \in Worlds, t \in Tokens \cup {None} : ApplyRead(a, h, t)
    \/ MarkExpired(a) \/ Gate(a) \/ Claim(a) \/ Check(a) \/ Act(a) \/ ActFails(a) \/ Finish(a)
Next ==
    \/ Snapshot \/ \E s \in snapshots : Put(s)
    \/ \E h \in Worlds : Approve(h) \/ Expire(h)
    \/ \E a \in Appliers : ApplyStep(a) \/ Crash(a)
    \/ ChangeWorld \/ ChangePolicy
Spec == Init /\ [][Next]_vars

----------------------------------------------------------------------------
(* Properties *)

PlanStates == {"none", "planned", "applying", "applied", "failed", "rejected", "expired"}
MaybeToken == Tokens \cup {None}
Rows  == [state : PlanStates, live : BOOLEAN, approval : MaybeToken, required : BOOLEAN]
Calls == [at : {"idle", "expire", "gate", "claim", "check", "act", "applied", "failed"},
          hash : Worlds \cup {None}, token : MaybeToken, approval : MaybeToken, required : BOOLEAN,
          approved : BOOLEAN, read : Nat, claimed : Nat]
Mints == [hash : Worlds, planning : Nat]
Acts  == [hash : Worlds, read : Nat, claimed : Nat, token : MaybeToken, policy : Policies]
TypeOK ==
    /\ world \in Worlds /\ policy \in Policies
    /\ plan \in [Worlds -> Rows] /\ apply \in [Appliers -> Calls]
    /\ snapshots \subseteq [hash : Worlds, required : BOOLEAN]
    /\ planned \in [Worlds -> Nat] /\ replanned \subseteq Worlds
    /\ minted \in Seq(Mints) /\ Len(minted) <= MaxTokens /\ acted \in Seq(Acts)
    /\ budget \in [plans : 0 .. MaxPlannings, faults : 0 .. MaxFaults]

\* "Of N concurrent applies exactly one proceeds", "it can only be applied
\* once, while planned" (plans.py): every execution took a planning of its own,
\* although finish and set_state name the plan only by its hash.
OnePerPlanning ==
    \A i, j \in 1 .. Len(acted) :
        i # j /\ acted[i].hash = acted[j].hash => acted[i].claimed # acted[j].claimed

\* The call is made only while policy allows it, or with a token that a human
\* minted for this very plan, however policy and plan moved in between.
ActIsAuthorised ==
    \A i \in 1 .. Len(acted) :
        \/ acted[i].policy = "allow"
        \/ /\ acted[i].policy = "require" /\ acted[i].token \in 1 .. Len(minted)
           /\ minted[acted[i].token].hash = acted[i].hash

\* A token is of the planning it was minted for: an apply that claims the
\* planning it read executes with that planning's token.
TokenOfItsPlanning ==
    \A i \in 1 .. Len(acted) :
        acted[i].token # None /\ acted[i].read = acted[i].claimed
            => minted[acted[i].token] = [hash |-> acted[i].hash, planning |-> acted[i].claimed]

\* A plan that reads applied was executed in its current planning, unless it
\* was planned again while an apply of it was running.
AppliedIsTrue ==
    \A h \in Worlds :
        plan[h].state = "applied" /\ h \notin replanned
            => \E i \in 1 .. Len(acted) : acted[i].hash = h /\ acted[i].claimed = planned[h]

\* The plan store implements the ledger of plannings: a plan is open while it
\* reads planned, and a planning is held by the apply that claimed it.
MayAct(a) == apply[a].at \in {"check", "act"}
Open       == {h \in Worlds : plan[h].state = "planned"}
Granted    == {<<minted[t].hash, minted[t].planning>> : t \in 1 .. Len(minted)}
Held       == {<<apply[a].hash, apply[a].claimed>> : a \in {b \in Appliers : MayAct(b)}}
Executions == [i \in 1 .. Len(acted) |->
                 [planning |-> <<acted[i].hash, acted[i].claimed>>,
                  by |-> IF acted[i].token = None THEN "policy" ELSE "human"]]
Ledger == INSTANCE PlanLedger WITH
             Calls <- Worlds, open <- Open, granted <- Granted, held <- Held, done <- Executions
ImplementsPlanLedger == Ledger!Spec
=============================================================================
