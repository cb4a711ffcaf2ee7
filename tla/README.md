# A verification development of ExaMLOps

ExaMLOps is an MLOps platform: a control plane that turns requests, approvals and
repository pushes into training runs of Prefect; a transactional outbox, a relay and
durable consumers that carry its events; and libraries for admission, coordination,
agents, dataplane transfers, autoscaling and serving around a shared SQLite or Postgres
state database. Most of its hard behaviour is in one place: replicas of stateless
processes that act on shared rows under leases, in several transactions each, against
services that may answer late, twice or never.

This directory models that core in TLA+, checks it with TLC on small instances, and
proves the main safety properties with TLAPS for every instance.

## Inventory

Paths below `X/` are relative to `src/platform/cli/src/examlops/`; the control plane is
`src/platform/services/control_plane/`.

| Component | State | Operations and who calls them | What is hard | What makes it correct |
|---|---|---|---|---|
| Durable commands (`app.py`) | `control_plane_commands`, `admission_queue`, an outbox row per decision, the coordinator's lease of a pair | `POST /v1/retrain`, `DELETE /v1/commands`, `POST /retrain`, command workers, sweeps, the reconciler | leases that lapse under live dispatchers, several transactions per step, answers of Prefect lost or late | one claim at a time, one active command per pair, caps, each decision told once, nothing lost, terminal states final |
| Prefect gateway (`cplane/gateway.py`) | breaker state and failure count, a deadline per dispatch | every dispatch, reconciliation and health probe of a replica | calls that outlast the breaker's state changes | opens after consecutive failures, closes again after recovery |
| Approval gate (`app.py`) | `pending_approvals`, the approval's command | notify (CI), approve, reject, retract, expiry | reads and writes in separate transactions, a dispatch in between | an approval is decided once, and a decision that refuses training starts none |
| Model-zoo poller (`app.py`) | `modelzoo_events`, the poll lease | timer, webhooks, manual sync | a commit seen by the webhook and the poller, a lease that lapses in a cycle | a push retrains a model once |
| Outbox and relay (`X/data/events.py`, `X/events/`) | `event_outbox`: published, claimed, attempts | the transaction of every change; one relay loop per replica and `exa events relay` | crashes between publish and mark, late relays, timeouts of publishes that landed | nothing lost, poison only after real refusals, a published row frozen |
| Durable consumers (`X/events/consumer.py`) | `event_inbox`, the JetStream consumer, dead letters | `run_forever` in any number of processes | redelivery, copies of an event, crashes between handler, record and acknowledgement | acknowledged means handled or parked, bounded repeats |
| Coordination (`X/coordination`, `X/data/coordination.py`) | locks with a holder and an expiry, marks, windows | `POST /retrain`, pollers, pulls, streams | expiry under a live holder | at most one live holder; a late release frees nothing |
| Platform admission (`X/data/admission.py`) | `admission_queue` | enqueue, fair claim, complete | items recycled under a live worker | caps, fairness among tenants |
| Admission seam (`X/admission_seam`, `X/data/quota_reservations.py`) | reservations with a lifetime, then bound to a job | `admitted`, `submit_admitted`, the hook on terminal job states, `stop`, `exa admission reconcile` | a reservation that lapses while its job is submitted, clocks read before the lock, jobs that end unseen | held GPUs never above the limit; a bound job that runs keeps its GPUs; GPUs without a job come back |
| Tool-call idempotency (`X/idempotency.py`, `X/data/idempotency.py`) | one row per key, pending or done, with a lifetime | every mutating agent tool | calls that outlive their pending row; a finish and a release that do not look at whose row it is | one effect per key while the row lives, and answers that are of the request |
| Plans (`X/plans.py`, `X/data/plans.py`) | plan rows by hash: state, expiry, approval | `plan_change`, `approve_plan`, `apply_plan` | policy, world and the row itself move between the steps of an apply; a claim whose process dies; a late finish by hash | one execution per planning, authorised by policy or by its own token |
| Agent runtime (`X/agent_runtime`) | runs, checkpoints, interrupts, a tool journal and a lease per thread | submit, resume, cancel, execute on a background pool, recover | workers that outlive their lease, runs read before the lease is taken, crashes between effect and journal | one turn per thread, no gated effect without approval, a truthful journal, no run left running |
| Tool broker (`X/tool_broker`) | grants, call counters | every tool call | counting against several windows | limits never exceeded |
| Suspend (`X/suspend`) | tier of a session's state | suspend, resume, tier moves | a crash between copy and delete | state is never lost |
| Autoscale (`X/autoscale`) | replicas, warm cache, flights | requests to cold models, control loop | waiters of one wake-up, stale warmth | one wake at a time, every waiter answered |
| Dataplane (`X/dataplane`) | pulls, stream connectors, a lock per singleton stream, a heartbeat per acquisition | pull scheduler, stream supervisor | a holder cut off from its coordinator, whole-second expiry, calls answered late | a fenced holder stops before its key expires; no key is left behind |
| Offline executor (`X/offline`) | shard results | run, cancel | retries and cancellation | each shard counted once |
| Audit (`X/data/audit.py`, `X/audit_*`) | a hash chain | every change | concurrent appends, pruning | the chain verifies |
| Promotion, champion/challenger, rollback | MLflow aliases | operators, gates | alias moves between reads | one champion |
| Serving (`src/serving`) | loaded models, snapshots, budgets | requests, projector | reload under traffic | requests see a consistent snapshot |
| IAM, policy, guardrails, SLO, drift, feature store, finops, compliance, backup, upgrade, CLI, dashboard, pipelines | little shared mutable state, or sequential | | | not protocols; see "Not modelled" |

Interaction: a change and its outbox event commit in one transaction; the relay and the
consumers carry the event on. Commands and the admission queue share transactions
(`begin_immediate("admission")`). Everything else meets in rows with a lease: the lease
of a command claim, of a retrain pair, of an outbox batch, of a poll cycle.

PROJECT.json lists every component and, under "hazards", each place in this code that a
test would hardly reach, with the properties that cover it.

## Modules

| Module | Models | Abstracts or instantiates |
|---|---|---|
| `CommandLedger` | what the control plane promises of a command | |
| `HandOver` | what one stage of the event path promises of an event | |
| `PlanLedger` | what plan and apply promise of a call that needs care | |
| `QuotaLedger` | what the reservation table promises of a project's GPUs | |
| `CommandPlane` | commands, workers, callers, sweeps, reconciler, Prefect | implements `CommandLedger` |
| `MCCommandPlane` | instances for TLC | extends `CommandPlane` |
| `CommandPlaneProofs` | theorems | extends `CommandPlane`; the ledger's are about its instance; composes it with an event path |
| `ApprovalGate`, `MCApprovalGate` | approvals of a model against their commands | the claim of `CommandPlane` without its queue row; implements `CommandLedger` |
| `ApprovalGateProofs` | theorems | extends `ApprovalGate` |
| `EventRelay`, `MCEventRelay` | outbox and relays, JetStream's duplicate window | implements `HandOver` |
| `EventRelayProofs` | theorems | extends `EventRelay`; composes its stage with the consumer's |
| `EventConsumer`, `MCEventConsumer` | consumer processes, inbox, dead letters, redelivery | its repeated messages are what `EventRelay` shows possible; implements `HandOver` |
| `EventConsumerProofs` | theorems | extends `EventConsumer` |
| `Idempotency` | idempotency keys of tool calls | |
| `AgentRuntime`, `MCAgentRuntime` | workers that step the runs of one agent thread | composes `Idempotency`, and implements it |
| `AgentRuntimeProofs` | theorems on the keys, then on the runtime | extends `AgentRuntime` |
| `Plans`, `MCPlans` | two-phase agent actions | implements `PlanLedger` |
| `PlansProofs` | theorems | extends `Plans` |
| `StreamLeader`, `MCStreamLeader` | election, fence and give-back of a singleton stream, with time | |
| `StreamLeaderProofs` | theorems | extends `StreamLeader` |
| `QuotaSeam`, `MCQuotaSeam` | GPU reservations of a project and the jobs they are for | implements `QuotaLedger` |
| `QuotaSeamProofs` | theorems | extends `QuotaSeam` |

### CommandPlane: how it corresponds to the code

* One action is one database transaction or one exchange with Prefect. Every
  transaction on commands takes the write lock `admission`, so it is atomic; everything
  may interleave between two of them.
* A row of `control_plane_commands` is `state`, `attempts`, `runState`. Its clock is two
  facts: `lapsed` (the dispatch lease of `updated_at` ran out) and `cooling` (the backoff
  still runs). `adm` is its row in `admission_queue`, `emitted` counts its outbox events
  per topic, `noted` its `retrain.run_orphaned` annotation.
* A worker goes through `StartCycle` (the sweep of abandoned claims, then the snapshot of
  due commands), `Claim`, dispatch (`Dispatch`, then `Answered` or `Unanswered`, or
  `DispatchRefused`), `Complete` or `CompleteFails` and `Fail`, and `MarkDead`. A caller
  of `POST /retrain` takes the pair's lock, runs the same claim and dispatch, and
  releases. `Poll` and `Record` are the reconciler.
* `NextAttempt`, `Fenced`, `Released`, `HasCapacity`, `SweptState`, `Due`, `Active` are
  the conditions of the SQL statements, named.

Abstractions: the order of a worker's batch is left open; the sweep and the SELECT of a
cycle are one step (both use one `stale_before`); the backoff is checked on the
snapshot's moment; the gateway's tries within one budget are one POST; every caller is
in a replica of its own, so the in-process set never decides more than the lock does;
Prefect always reports a state; a POST with a known idempotency key returns the run it
has; runs are forgotten only after they ended; one terminal run state stands for all;
a reading equal to what is recorded is omitted; a worker whose transaction fails is a
crash of its cycle. Owner and hash mismatches (403, 409), authentication and metrics are
left out. The window in which a dead command is asked for its run is long enough.

### ApprovalGate

`status` is `pending_approvals.status`; `command`, `attempts` and `lapsed` are the row of
the command `approval:<id>`, which is synchronous: no worker dispatches it, the sweep only
fails it. Approvals are numbered in the order of `requested_at`, so `Newest` is the
`ORDER BY ... DESC LIMIT 1` of approve and reject. Two lock scopes shape the actions:
claims, completions and failures are one action each; opening is one too, because nothing
that commits inside it changes its outcome; a rejection and a retraction are two, since
claims and expiry may commit between their SELECT and their UPDATE. On SQLite, where every
`BEGIN IMMEDIATE` takes the one write lock, the behaviours are a subset. `told` counts the
outbox events; the audit rows are written beside them. Left out: policy, scope and
separation-of-duties refusals, the refusal of another principal's retry, `approving` rows
of releases without durable commands. Whether admission has capacity is open.

The approval's command is one of `CommandLedger`'s: `Settlement` reads it as open until it
succeeds (a failed approval is claimed again, and the queue never buries it), `runs` is
Prefect's, and `Announced` is what its success told. The ledger calls that topic
`retrain.scheduled`; `_complete_command` publishes the one its caller names, which is
`approval.approved` here.

### EventRelay

`rows`, `published`, `claimed`, `lapsed`, `attempts` are the outbox; a relay holds the
rows of its batch it has not done, and publishes the oldest first. `Accepted`, `Refused`,
`TimesOut` and `Unavailable` are the four answers of `publish_event`; a timeout may have
landed. `Defer` returns the rest of the batch with its attempt. `LeaseLapses` under a
live relay is a stall. `WindowCloses` forgets a message id; the default visibility
timeout (300 s) is longer than the default duplicate window (120 s), so a replay after a
crash is never dropped by the broker and only the consumer's inbox can tell. As a stage of
`HandOver`, an event is taken when its row is committed, passed on when the stream has a
copy, and closed when its row reads published.

### EventConsumer

A message is available, out, acknowledged or given up; a process holds a batch with the
delivery number of each message, which is what `handle` compares with `max_deliver`.
`Abort` is every way a cycle ends early: the process dies, or an inbox write, a dead
letter or an acknowledgement raises. A handler that fails is taken to have no effect.
JetStream (redelivery, `max_deliver`, `ack_wait`, late acknowledgements that still
count) is external. As a stage of `HandOver`, an event is taken when a message of it is in
the stream, passed on when its handler ran or it was parked, and closed when one of its
messages is acknowledged. Messages nothing can be read from are no event; they are
`AckedIsHandledOrParked`'s to speak of.

### Idempotency and AgentRuntime

`row` is `idempotency_keys`, `call` a caller inside `run_idempotent`. `Claim`, `Finished`
and `Released` are the three statements on the row; none of the last two looks at whose
row it is, so a caller that outlives its row (`Purge`) writes over another's. `acts`
counts effects, `lapses` rows purged, `unsure` failures that hid an effect: what is
promised is `acts <= 1 + lapses + unsure`.

`AgentRuntime` is one thread: `run` (status, requested stop, base checkpoint), `cps`,
`interrupt`, `journal`, `lease`. A worker goes through `Execute` or `Recover`, `Acquire`,
`Enter`, then its program: `Hold` before every step that counts, `Put` of a checkpoint,
`CallTool`, `Park` or `Invoke`, `Record`, `Finish` or `Stop`, `NextPending`, `Release`.
`Read` reads the run before `Acquire` takes the lease, as `execute` does. The tool's key
is the checkpoint, as in the code, so the gateway's call is a step of `Idempotency` and
`RuntimeImplementsKeys` is a refinement, not a remark. `todo` is the background pool,
lost with its process; `cancelling` is what `cancel` read before it writes. `overrun`
marks the workers whose lease lapsed under them, `performed` the effects.
One node with one tool call stands for a program: every longer program repeats its steps
under later checkpoints. Several transactions are one action where no other actor writes
the rows they touch in between. Left out: session sweep, close and quotas, retirements,
snapshots and sandboxes.

### Plans

A plan's hash covers its call and the world it depends on, so a plan of one call is named
by its world. `Snapshot` and `Put` are `plan_change`; `Approve` mints a token;
`ApplyRead`, `Gate`, `Claim`, `Check`, `Act` and `Finish` are `apply_plan`, one read or
transaction each, with the world and the policy free to change between any two.
A tool may act and then report failure or raise (`Act` ends `failed`), or fail before it
acts (`ActFails`).
`planned` counts the plannings of a hash (a reset is a new one), `minted` what each token
was minted for, `acted` every execution with the row it read and the planning it claimed,
`replanned` the plans reset under a running apply. Audit records, listing and storage
errors that refuse before any change are left out.

`PlanLedger` speaks of plannings only: a call is `open` while its row reads planned, a
planning is `held` by the apply that claimed it and may still act, and `done` are the
executions. A late `finish`, which names the row by its hash, is a step that may close the
next planning (`Drop`, `Close`); what it cannot do is open one again.

### StreamLeader

Time is in ticks, `Res` to the second; the lock's expiry is in whole seconds, as
`coord_locks` keeps it. A coordinator call is sent (`Elect`, `Beat`), served (`Serve`) and
answered (`Elected`, `Renewed`) at three times of its own, and may fail before or after it
was served (`RenewFails`, the last disjunct of `Elected`). `Watchdog` is the fence: a
watched lease whose last renewal was *sent* `Fence` ago is lost, and its connector told to
stop (`told`). `_serve` is three steps, `Check`, `Publish` and `Begin`, because a lease may
be lost between any two; `LooksAgain` is its second look. Nothing is assumed of speed: the
clock (`Tick`) runs on whatever a thread is about to do, so processes stall, watchdogs are
late, and a connector that was told to stop returns (`RunEnds`) when it has committed, or
never. The code gives no bound either: a singleton connector is a plug-in (Kafka's, the
one with the platform, is not singleton), and the supervisor handles runs that outlast
`STOP_JOIN_S`. `GiveBack` waits for the heartbeat's call no longer than `Join`; `Release` is
the unlock of a heartbeat whose renewal came too late. `early` records the keys given back
that way before their run thread gave them back, `unreleased` those that nobody gives back.
A token that nothing refers to any more is used again: the code draws a fresh one each time.

### QuotaSeam

`row` is a request's row of `quota_reservations`: its state, whether `holder` names the
job (`bound`) or still the admitting call, and whether `expires_at` is ahead (`live`).
`call` is where `admitted` or `submit_admitted` is, `job` what the scheduler runs, a
job that was cancelled being `ending` until it is gone. Every store call takes
`time.time()` before it waits for the table's write lock: a sweep may miss rows that
lapsed since (the set `S` of `Reserve`, `Refuse` and `Reconcile`), and a bind may commit a
row that has lapsed (`ReadClock`, then `Bind`). What saves the limit is that `reserve`
expires, in its own transaction, the lapsed rows it does not count. `Finish`, `GiveUp` and
`Stop` release through the hook, which may fail; `Reconcile`, `Ask` are
`exa admission reconcile`. `adrift` records the two ways a job outlives its quota after it
was taken for ended: it is requeued, or its wait fails and so does its cancellation. What
`RunningIsHeld` does not claim is what the code gives up by design: a submission whose
answer was lost, and a bind that lapsed or failed (both audited), leave a job without
quota. Left out: the policies' verdicts (a choice), GPU-hours (a second sum of the same
form), an edit of the limit, tenants, `commit` without a bind, which nothing calls.

`QuotaLedger` has three sets for all this: `taken` (rows that are reserved or committed,
lapsed ones included: these can still come to hold GPUs), `returned` (released or expired)
and `working` (bound jobs that run and were not taken for ended). `Take` returns lapsed rows
and takes in one step because `reserve` does.

## Runs

| Run | Instance | Shows |
|---|---|---|
| `async` | 2 asynchronous commands of a pair, 2 workers, 2 attempts, 1 fault | fencing, exclusion, burial and the end of attempts, refinement of `CommandLedger`: events and final states |
| `live` | 1 asynchronous and 1 synchronous command of a pair and tenant, 1 worker, 1 caller that may call twice, 1 fault, 2 slots, tenant cap 1, fairness | slots and caps; every command, run and slot settles |
| `approval` | 2 approvals of a model, 3 requests, 2 claims each, 1 fault | the two tables agree, decisions are final and told, refinement of `CommandLedger` |
| `relay` | 2 relays, 2 rows, 2 attempts, 2 faults, fairness | refinement of `HandOver`: nothing lost or published untaken; published rows frozen, the poison budget, every event settles |
| `consumer` | 2 processes, two copies of an event, 2 faults, fairness | the consumer: acknowledged means handled or parked, bounded repeats, every message settles |
| `agent` | 2 workers, 2 runs (one needs a human), the four multitask strategies, 4 checkpoints, 1 fault | the lease, approval before effect, the journal, the keys |
| `agent_live` | 2 workers, 2 runs, strategy enqueue, 5 checkpoints, 1 fault, fairness | a run whose worker died or stalled does not stay running |
| `plans` | 2 worlds, 2 applies at once, 2 plannings, 2 tokens, 1 fault | refinement of `PlanLedger`: one execution per planning; authorised, with the planning's token; applied means executed |
| `stream` | 2 replicas, 3 tokens, half-second ticks, TTL 5 s, 11 ticks, 1 fault | the leader holds a live key; connectors overlap only when one outruns its fence by more than a second or lost its key to its own heartbeat; a lost run is told; no stray key |
| `stream_overlap` | the same without faults | violated: two runs of a stream overlap (below) |
| `quota` | 2 jobs and a block, a limit of 2 GPUs, one job that takes both, 2 faults, fairness | the limit holds, bound jobs keep their GPUs, refinement of `QuotaLedger`, GPUs without a job come back |
| `tool_twice` | 2 workers, 2 runs, no fault | violated: a tool takes effect twice for one run (below) |

Bounds. Two of each actor suffice for every race between a late and a current holder;
two attempts separate "failed once" from "failed for the last time"; the fault bound
counts crashes, stalls and (in the relay) timeouts and failed writes, and a lease that
lapses after a crash costs nothing more. `MaxCalls` bounds how often clients of
`POST /retrain` call, so that the last retry is covered twice. Nothing else is bounded in
the command plane: handlers, refusals, outages, cancellations and lost POSTs are free.
`MaxClaims` bounds how often an approval's command is claimed: the second claim is the one
a late dispatcher meets. Three requests are a late dispatcher, its successor and an
operator who refuses. In the agent runtime two runs of two checkpoints each use four; the
fifth in `agent_live` and `tool_twice` is that of a node executed again. In `plans` the
second planning is the one a late apply of the first meets, and the second token the one
that replaces its approval. In `stream` five seconds are the smallest lifetime the code
accepts (`LeaderAssumption`); eleven half-seconds (`MaxTime`, a bound of the instance and
no deadline for anyone) hold an acquisition, its fence (3 s), its expiry and the next
replica's start beside a connector that does not return; half a second is what
whole-second expiry can differ from the clock. In `quota` the two jobs compete for GPUs that only one can have, the
block lapses next to them, and two faults are, for one, a crash and a reconcile that is
interrupted. Symmetry is used for workers, callers, requests, applies, worlds,
replicas and tokens in safety runs only; commands, approvals, events and runs are told
apart by their order or mode.

Types. `TypeOK` of every module is proved, as are `SuccessCorrect`, `OneStepper` and
`ParkedAtItsLimit`; the runs keep to what may be in doubt. Where a run checks a refinement
it does not check again what the refinement implies: `EventsMatchRows` and
`TerminalIsFinal` (of `ImplementsLedger`), `PublishedIsInStream` (of
`ImplementsHandOver`), `OnePerPlanning` and `ActIsAuthorised` (of `ImplementsPlanLedger`,
whose executions are by policy's leave or a human's) are theorems.

Fairness. The worker, relay and consumer loops are daemon threads that catch every
exception and sleep at most a few seconds, and each call they make has a timeout: a step
that can be taken is taken (weak fairness). Clocks advance (leases, backoffs, ack
waits). Prefect's POSTs land or are lost and runs end. In `relay` the broker,
asked again and again, answers (strong fairness on an accepted or refused publish):
without it an outage for ever would keep an event in the outbox, as it does in the
code. In `agent_live` a worker that lives takes its next step, the pool and the
maintainer's `recover` loop take up a run they see, and a dead holder's lease lapses. In
`quota` the TTL passes, `exa admission reconcile` is run again and again, as its help asks
("Run it periodically"), and the scheduler answers all but a bounded number of its
questions; no caller has to finish anything. No
client is obliged to call, cancel, resume or approve, and no thread to crash.

Deadlock is allowed where the modelled system may be at rest: every approval decided,
every event settled, every run settled or parked on a human, every plan ended, all quota
back, or the clock of `stream` at its bound.

## What the code does that its documentation does not say

Two `violation` runs, listed under "findings" with the quoted lines:

* `tool_twice`: `execute` reads the run before it takes the lease. When the holder drains
  that run meanwhile and another run of the thread moves on, the settled run is executed
  again from a new checkpoint and its tool called again under a new key, where
  docs/guides/agent-runtime.md:118 says that the side effect happens once.
* `stream_overlap`: the fence leaves a second for a connector to stop, and nothing bounds
  how long it takes, nor how long a process stalls before it looks at its lease; past that
  second the key expires and the next replica runs the stream too. supervisor.py:21 says
  that no two runs ever overlap "under any datastore stall, timing or exit path".
  `OverlapNeedsOverrun` says how much of that holds: with the connector back within the
  second, and no key given back early, no stall of the datastore, late answer, fault or
  exit makes two runs.

Also read off the models, without a run of their own:

* Failure and burial are two transactions and the claim does not look at `attempts`, so a
  command can be dispatched more often than the limit. `AttemptsEnd` says how much more:
  past the limit each other worker claims once what it had selected, and all of them once
  more for each fault that puts the burial off (with one worker and no fault: never).
* Cancelling a failed command frees its pair while the run of its lost answer trains, and
  a second run of the pair starts. A rejected approval has a run for the same reason
  (docs/reference/api.md:821).
* A synchronous call refused for capacity leaves a `pending` row that blocks its pair
  until the same key is tried again.
* The marks of a late relay clear the claim of its successor. A relay's crashes spend the
  attempts of the rows it held, which `AttemptsAccounted` counts as faults
  (event-backbone.md:145).
* An approval claimed between the two statements of a retraction is told, audited and
  answered as retracted while it trains.
* Undecodable messages share one dead-letter id, so the duplicate window drops all but the
  first. Two processes with two copies of an event both run the handler, within
  `EffectsBounded` (event-backbone.md:142). A message whose last two deliveries were lost
  is neither handled nor parked, the case `GivenUpAfterTwoLapses` delimits
  (consumer.py:18).
* `apply_plan` compares the token with the row it read, and claims the row there is: an
  apply that waits through a reset executes the next planning with the token of the last.
  `TokenOfItsPlanning` therefore speaks of applies that claim what they read.
* A run submitted between `_next_pending` and `release_lease` waits for its own execute,
  and one that was queued on the pool of a process that dies stays pending: `recover`
  looks at running runs only, which is why `RunningSettles` says nothing of pending ones.
* After a crash inside a tool call, the next worker journals `idempotency_in_progress` as
  the answer of the call.
* A renewal that succeeds after the fence gives the key back at once, while the connector
  it fenced is still returning; supervisor.py:38 says that a lease is given back only once
  its connector has returned. It is the case `early` of `OverlapNeedsOverrun`.
* The reservation of an `admitted` block is never committed, so a block that outlives the
  TTL (900 s by default) runs on without quota, where `dispatch.admitted` promises to hold
  it "for the block". `stop` gives the GPUs back when the cancellation is accepted, not
  when the job is gone. A release that fails in the hook is logged as left to "the TTL
  sweep", which never touches a committed row: `QuotaComesBack` needs the reconcile.
* A scheduler that no longer knows a job (`UNKNOWN`, or not found) keeps its row committed
  for ever: `reconcile_job_reservations` keeps what it cannot verify (completion.py:156).
  `QuotaComesBack` is about schedulers that answer in the end.
* An election answered after the fence, or even after the key's lifetime, starts its
  connector all the same, until the watchdog's first look: one of the overruns of
  `OverlapNeedsOverrun`.

## Proofs

For arbitrary finite sets of commands and of workers, any set of callers, any caps and
bounds, from `ConstantsAssumption` alone:

* (`CommandPlaneProofs`) `TypeCorrect`: `TypeInv` (types, and which control point holds which command) is
  inductive by itself.
* `Refinement`: every step of `CommandPlane` is a step of `CommandLedger` under the map
  `Decided`, `Started`, `runState`, `emitted`. It needs `ThreadInv`: a thread that holds
  an answer, or a reading of the reconciler, has a run behind it. From `LedgerCorrect`
  and the refinement follow `EventsCorrect`, `ExclusiveCorrect` and `TerminalCorrect`:
  they are proved of the ten-line actions of the ledger and carried over, which is what
  the abstract specification is for.
* `SuccessCorrect` follows from `ThreadInv`.
* `NewsIsTrue` composes the command plane with an event path (`HandOver`) whose
  hypothesis is the code's: an event is committed to the outbox only by the transaction
  that emits it (`OutboxFed`). Then whatever a consumer handles, however late, still
  describes its command.
* `CallsCorrect`: callers of `POST /retrain` overlap on a pair only after its lock ran
  out, each further one at the cost of a fault. The invariant counts the calls in a pair
  against the faults and the lock (`CallInv`); cardinality does the rest.
* `FenceCorrect`: the claims are unique because a claim uses an attempt number no thread
  has seen; the invariant says that every dispatching thread's number is at most the
  row's.
* `AttemptsCorrect`: that burial waits needs to know that a thread about to bury used the
  last attempt (`BuryInv`). That attempts end is a count (`EndInv`): past the limit, the
  attempts of a command and its `Claimants` (the workers that have it in their batch, or
  all of them while it may be selected) stay within `MaxAttempts` plus one round of the
  workers for each fault, less one. A claim moves a worker from one side to the other; the
  thread that fails it for the last time closes the selection until it buries it, unless
  a fault comes between.
* `SlotsCorrect`, `CapsCorrect`: `Released` frees exactly the slots of abandoned claims,
  and a claim adds one row to a set whose size it has just compared with the cap
  (cardinality lemmas of `FiniteSetTheorems`).

For any set of approvals and of requests, from `ApprovalAssumption` alone:

* `GateCorrect`: types, `StatusFollowsCommand`, `DecisionIsTold`, `ApprovalHasRun` and
  "an answer names a run" are inductive together.
  `AgreementCorrect`, `ToldCorrect` and `FinalCorrect` follow. The point of the argument
  is the completing UPDATE, which does not look at the approval: a dispatcher that passes
  the fence of the command finds `dispatching`, and agreement says that the approval is
  then `approving`, so no decision is overwritten and none is told twice.
* `RunCorrect`: an approved approval has a run.
* `GateRefinement`: every step of the gate is a step of `CommandLedger` or leaves it
  alone. Besides `GateCorrect` it needs `UnderwayOK`: a command with a request past its
  claim, or with a POST on its way, exists. So the two users of the claim, retrain commands
  and approvals, keep one abstract specification.

For any events, relays, batch size, attempt limit and number of faults, from
`RelayAssumption` alone (`EventRelayProofs`), the invariant `RelayInv` adds to the types:

* what the broker remembers, and what a relay saw accepted, has a copy in the stream
  (`StreamInv`), hence `PublishedCorrect`;
* `refused + Spent <= attempts <= refused + faults + Spent`, where `Spent` counts the
  relays whose attempt at the row is still open (`BudgetInv`). The lower bound is what
  makes the refund of `Defer` exact: a relay that gives back a row has an attempt of its
  own in the counter. Hence `AttemptsCorrect`;
* a row has as many relays as faults, and one more only while its claim is current
  (`OverlapInv`), hence `OverlapCorrect`. `FrozenCorrect` needs the types alone;
* every step is one of `HandOver` (`RelayHandsOver`): the stream has only committed events
  because a batch is of rows (`CommittedInv`).
* `PathCorrect` puts the relay's stage and a consumer's end to end: from `RelayHandsOver`,
  a consumer's `HandOver` and the single assumption that the consumer's messages come from
  the stream (`StreamFeeds`), the pair is one `HandOver` from the transaction to the
  acknowledgement. `ConsumerHandsOver` discharges the second premise for
  `EventConsumer`, and `NewsIsTrue` uses the conclusion.

For any consumers, messages, batch size and delivery limit (`EventConsumerProofs`),
`ConsumerInv` adds: which process has which delivery of which message (`HandsInv`), what
settles a message (`SettledInv`), how often a message was delivered, lost and refused
(`FlowInv`), and which process still owes the record of an effect (`EffectsInv`: the
effects of an event are bounded by the processes that ran its handler plus the records
that were lost). `AckCorrect`, `EffectsCorrect`, `GivenUpCorrect` and `ParkedCorrect`
follow, and `ConsumerHandsOver`: every step is one of `HandOver`.

For any callers, keys and requests (`AgentRuntimeProofs`, first half): effects are bounded by rows,
lapses and hidden effects, and while no row of a key lapsed the running call owns the row
(`KeyInvCorrect`), hence `KeysCorrect`.

For any workers, runs, gated runs, strategies and bounds (its second half): the
lease belongs to its stepper unless it overran it (`LeaseCorrect`); an interrupt that was
answered stays answered and a gated effect has one behind it (`ApprovalCorrect`); a
journaled success is an effect (`JournalCorrect`). Every step of the runtime is a step of
`Idempotency` or leaves the keys alone (`RuntimeImplementsKeys`), so `RuntimeKeysCorrect`
is `KeysCorrect` carried over. That `Latest` and `Min(Waiting)` are members of their sets
rests on two lemmas, from the well-foundedness of `<` on the naturals.

For any worlds, applies, tokens and bounds (`PlansProofs`), `PlansInv` says: every claim of
an apply is of a planning that is over once the plan reads planned again, and no two are of
one planning (`ClaimsInv`); a token stands for the planning it was minted in, in the row,
in an apply that read it and in an execution (`TokensInv`); an apply in flight holds the
current planning of a plan that is applying, unless the plan was planned again under it
(`AppliesInv`). `AuthorisedCorrect`, `TokenCorrect` and `AppliedCorrect` follow. That a
planning is executed once is proved of `PlanLedger` (`PlanLedgerCorrect`) and carried over
(`PlanningCorrect`) by `PlansRefinement`, which needs `ClaimsInv` for "a claim that goes is
nobody else's" and `ReadInv`, that an apply claims no planning older than the one it read,
for "a human approved the plan no later than the planning that is executed".

For any requests, GPUs, limit and bound on faults (`QuotaSeamProofs`), the limit is proved
of `QuotaLedger` and carried over:

* `QuotaRefinement`: every step of the seam is a step of the ledger under `Taken`,
  `Returned`, `Working`. What is taken includes lapsed rows: what is *held* would not be
  inductive, because a bind that read the clock in time may commit a row that has lapsed.
  That a release never returns the GPUs of a job at work is the part that needs an
  invariant: until its bind a row belongs to its call, and a bound row of a running job is
  committed unless the job ran on after it was taken for ended (`PlaceInv`); and that
  nobody takes twice needs that a call before its reservation has no row (`RowInv`).
* `QuotaLedgerCorrect`: in the ledger the taken GPUs fit the limit (`LimitInv`), work is
  on GPUs that are taken, and nothing is taken again once returned. The sum is over GPUs
  as elements of a set, so that lemmas on cardinality serve in place of an induction.
* `LimitCorrect` follows from the two, because a row that holds is taken; `HeldCorrect`
  from `PlaceInv`; and `HeldIsListed` from `RowInv`: whatever holds GPUs is a reservation
  that will lapse or is in the list the reconciler works through, the fact behind
  `QuotaComesBack` that needs no fairness.

For any replicas and tokens, any resolution of the clock and a lifetime of at least 5 s
(`LeaderAssumption`; `StreamLeaderProofs`), with no bound on stalls, calls or connectors,
`LeaderInv` says: which heartbeat has which owner (`OwnersInv`, `LeasesInv`); a call is
refused only when another holds the key (`ClockInv`); and the key is held for `Ttl` seconds
from the last renewal that was seen to succeed, and from one that was granted and not yet
seen, so that it is still its owner's a second after the fence, unless its heartbeat gave
it back (`KeyInv`). The arithmetic is in `SecondsCover` and `FenceFits`: a lock of `Ttl`
whole seconds covers `Ttl - 1` seconds of ticks from whatever tick it was asked at, and
`fence_after` leaves one of them. `KeyCorrect` and `OverlapCorrect` follow: two running
connectors cannot both be within that second, for the key has one holder. `ToldCorrect`
needs that a published run is told or sees `_lease_lost` when it begins; `StrayCorrect`
follows from `LeasesInv` and the tokens in `unreleased`.

Each invariant was model-checked on the runs' instances before it was proved.

Only model-checked: the liveness properties (of `live`, and `EventSettles`,
`MessageSettles`, `RunningSettles`, `QuotaComesBack`), which need fairness. Every safety
property of a passing run is proved. `ImplementsHandOver` of `EventConsumer` and the
invariants the proofs add were checked on the instances of the runs before they were
proved, without a run of their own. So were slots, caps and `CallsOverlapOnFaults` with two
callers and two faults, and the liveness properties of commands with two asynchronous ones
that share one slot.

## Plan

1. Done: `CommandLedger`, `CommandPlane`, `ApprovalGate`, `EventRelay`, `EventConsumer`,
   `Idempotency`, `AgentRuntime`, `Plans`, `StreamLeader` and `QuotaSeam`, each with proofs.
2. `CircuitBreaker`: concurrent callers of the gateway. `Activator`: one wake-up, many
   waiters.
3. `ModelZoo`: webhook and poller, freshness, lease, automatic retraining, composed with
   the submission of `CommandPlane`.
4. `Admission` (fair share), `Suspend`; the tool broker's grants over
   `AgentRuntime`.
5. Abstract specifications of the components that have none yet: the holder of a key
   (`StreamLeader`), the turn of a thread (`AgentRuntime`), with their refinements.

## Not modelled

Numeric and text algorithms (drift, SLO, guardrails, forecasting), file copying
(backup), argument parsing and presentation (CLI, dashboard), per-request decisions
without shared state (IAM, policy, routing), Ray and model inference, and Prefect,
JetStream and MLflow beyond what the code relies on. "components" in PROJECT.json gives
the reason for each.
