---------------------------- MODULE StreamLeader ----------------------------
(***************************************************************************)
(* Leader election of one singleton stream: the run threads of the         *)
(* replicas (dataplane/streams/supervisor.py), the fenced heartbeat of     *)
(* each acquisition (dataplane/lease.py) and the lock row they share       *)
(* (data/coordination.py, the DbCoordinator).                              *)
(*                                                                         *)
(* Time is counted in ticks, Res to the second; the lock's expiry is in    *)
(* whole seconds, as the database keeps it. A call of the coordinator is   *)
(* sent, served and answered at times of its own, and may fail before or   *)
(* after it was served. Nothing is said of how fast a thread or a          *)
(* connector is: a process may stall at any step, its watchdog with it,    *)
(* and a connector that was told to stop returns when it has committed.    *)
(***************************************************************************)
EXTENDS Integers

CONSTANTS
    Replicas,  \* processes that run the stream
    Tokens,    \* fencing tokens; one no call, lock or run refers to is as good as new
    None,
    Res,       \* ticks per second
    Ttl,       \* leader_ttl_s, whole seconds
    MaxTime,   \* bound: ticks
    MaxFaults  \* bound: calls that fail, and crashes

ASSUME LeaderAssumption ==
    /\ Res \in Nat \ {0} /\ Ttl \in Nat /\ Ttl >= 5
    /\ MaxTime \in Nat /\ MaxFaults \in Nat
    /\ None \notin Replicas \cup Tokens

VARIABLES
    now,
    lock,        \* coord_locks: holder, expires_at
    stream,      \* a run thread: where it is, its token, _lease_lost, whether run_stop is set, the
                 \* deadline of its wait for the heartbeat
    lease,       \* by token: the heartbeat thread, its call, _last_ok, lost, the stop event
    early,       \* tokens given back by their heartbeat before their run thread gave them back
    unreleased,  \* tokens whose release failed, or that nobody was left to release
    faults

vars == <<now, lock, stream, lease, early, unreleased, faults>>

Second == now \div Res
NoTime == -1
\* fence_after: min(0.8 ttl, floor(ttl) - 2), from when the renewal was sent.
FenceOfTtl == (4 * Ttl * Res) \div 5
Fence == IF FenceOfTtl < (Ttl - 2) * Res THEN FenceOfTtl ELSE (Ttl - 2) * Res
Join == (IF Ttl < 2 THEN Ttl ELSE 2) * Res

Standby == [at |-> "standby", token |-> None, lost |-> FALSE, told |-> FALSE, until |-> NoTime]
Unused == [at |-> "unused", answer |-> "none", since |-> 0, lastOk |-> 0, lost |-> FALSE, stopped |-> FALSE]

Init ==
    /\ now = 0 /\ lock = [holder |-> None, expires |-> 0]
    /\ stream = [r \in Replicas |-> Standby] /\ lease = [t \in Tokens |-> Unused]
    /\ early = {} /\ unreleased = {} /\ faults = 0

UseFault == faults < MaxFaults /\ faults' = faults + 1

----------------------------------------------------------------------------
(* The coordinator *)

\* coord_try_lock: one conditional upsert; coord_unlock: by its holder only.
Takeable(t) == lock.holder \in {None, t} \/ lock.expires <= Second
UnlockedAny(t) == [holder |-> None, expires |-> 0]
Unlocked(t)    == IF lock.holder = t THEN [holder |-> None, expires |-> 0] ELSE lock

Serve(t) ==
    /\ lease[t].at \in {"electing", "renewing"} /\ lease[t].answer = "none"
    /\ lock' = IF Takeable(t) THEN [holder |-> t, expires |-> Second + Ttl] ELSE lock
    /\ lease' = [lease EXCEPT ![t].answer = IF Takeable(t) THEN "held" ELSE "refused"]
    /\ UNCHANGED <<now, stream, early, unreleased, faults>>

\* An unlock takes effect, or fails.
Unlocks(t) ==
    \/ lock' = Unlocked(t) /\ UNCHANGED <<unreleased, faults>>
    \/ lock' = lock /\ UseFault /\ unreleased' = unreleased \cup {t}

----------------------------------------------------------------------------
(* The run thread *)

\* _acquire: a fresh token, and the fence timed from here.
Fresh(t) == lease[t] = Unused /\ lock.holder # t /\ \A r \in Replicas : stream[r].token # t
Elect(r, t) ==
    /\ stream[r].at = "standby" /\ Fresh(t)
    /\ stream' = [stream EXCEPT ![r] = [Standby EXCEPT !.at = "electing", !.token = t]]
    /\ lease' = [lease EXCEPT ![t] = [Unused EXCEPT !.at = "electing", !.since = now]]
    /\ early' = early \ {t} /\ unreleased' = unreleased \ {t}
    /\ UNCHANGED <<now, lock, faults>>
Elected(r) ==
    LET t == stream[r].token
    IN /\ stream[r].at = "electing"
       /\ \/ /\ lease[t].answer = "held"
             /\ stream' = [stream EXCEPT ![r].at = "leading"]
             /\ lease' = [lease EXCEPT ![t] = [Unused EXCEPT !.at = "idle", !.since = now, !.lastOk = lease[t].since]]
             /\ UNCHANGED <<unreleased, faults>>
          \/ /\ \/ lease[t].answer = "refused" /\ UNCHANGED <<unreleased, faults>>
                \/ UseFault /\ unreleased' = unreleased \cup {t}
             /\ stream' = [stream EXCEPT ![r] = Standby]
             /\ lease' = [lease EXCEPT ![t] = Unused]
       /\ UNCHANGED <<now, lock, early>>

\* _serve: the loop head, the publication of run_stop, and the second look at
\* _lease_lost before the connector runs.
FenceDue(t) == lease[t].at \notin {"unused", "electing"} /\ now >= lease[t].lastOk + Fence
Check(r) ==
    /\ stream[r].at = "leading" /\ ~stream[r].lost
    /\ stream' = [stream EXCEPT ![r].at = "checked"]
    /\ UNCHANGED <<now, lock, lease, early, unreleased, faults>>
Publish(r) ==
    /\ stream[r].at = "checked"
    /\ stream' = [stream EXCEPT ![r].at = "starting"]
    /\ UNCHANGED <<now, lock, lease, early, unreleased, faults>>
LooksNever(r)  == stream[r].told
LooksAgain(r) == stream[r].told \/ stream[r].lost
Begin(r) ==
    /\ stream[r].at = "starting"
    /\ stream' = [stream EXCEPT ![r].at = "running", ![r].told = LooksAgain(r)]
    /\ UNCHANGED <<now, lock, lease, early, unreleased, faults>>
\* The connector returns: it failed, was told to, or its stream is stopped.
RunEnds(r) ==
    /\ stream[r].at = "running"
    /\ stream' = [stream EXCEPT ![r].at = "leading", ![r].told = FALSE]
    /\ UNCHANGED <<now, lock, lease, early, unreleased, faults>>

\* _give_back after a lost lease, a stopped stream or too many failures: stop the
\* heartbeat, wait for its call no longer than Join, unlock with the own token.
GiveBack(r) ==
    LET t == stream[r].token
    IN /\ stream[r].at = "leading"
       /\ stream' = [stream EXCEPT ![r].at = "joining", ![r].until = now + Join]
       /\ lease' = [lease EXCEPT ![t] = IF lease[t].at \in {"idle", "ended"} THEN Unused
                                        ELSE [lease[t] EXCEPT !.stopped = TRUE]]
       /\ UNCHANGED <<now, lock, early, unreleased, faults>>
Unlock(r) ==
    /\ stream[r].at = "joining"
    /\ lease[stream[r].token] = Unused \/ now >= stream[r].until
    /\ Unlocks(stream[r].token)
    /\ stream' = [stream EXCEPT ![r] = Standby]
    /\ UNCHANGED <<now, lease, early>>

----------------------------------------------------------------------------
(* The heartbeat *)

Watched(t) == lease[t].at \in {"idle", "renewing", "releasing"} /\ ~lease[t].stopped /\ ~lease[t].lost
\* _lose and on_lost: the lease is lost, and the run it is of, once it has
\* published its run_stop, is told to stop.
Told(t) == [r \in Replicas |->
    IF stream[r].token # t THEN stream[r]
    ELSE [stream[r] EXCEPT !.lost = TRUE, !.told = @ \/ stream[r].at \in {"starting", "running"}]]
Watchdog(t) ==
    /\ Watched(t) /\ FenceDue(t)
    /\ lease' = [lease EXCEPT ![t].lost = TRUE] /\ stream' = Told(t)
    /\ UNCHANGED <<now, lock, early, unreleased, faults>>

\* A beat every ttl/3; a renewal carries the time it was sent.
Beat(t) ==
    /\ lease[t].at = "idle" /\ 3 * (now - lease[t].since) >= Ttl * Res
    /\ lease' = [lease EXCEPT ![t].at = "renewing", ![t].answer = "none", ![t].since = now]
    /\ UNCHANGED <<now, lock, stream, early, unreleased, faults>>

\* The answer of a renewal, in the order _run looks at it.
OkSinceReply(t) == now
OkSince(t)      == IF lease[t].lastOk < lease[t].since THEN lease[t].since ELSE lease[t].lastOk
GivesBackNever(t) == FALSE
GivesBack(t) == lease[t].answer = "held" /\ (lease[t].stopped \/ lease[t].lost)
Waits(t) == [lease[t] EXCEPT !.at = "idle", !.answer = "none", !.since = now]
Renewed(t) ==
    /\ lease[t].at = "renewing" /\ lease[t].answer # "none"
    /\ \/ GivesBack(t) /\ lease' = [lease EXCEPT ![t].at = "releasing"] /\ stream' = stream
       \/ /\ lease[t].stopped /\ ~GivesBack(t)
          /\ lease' = [lease EXCEPT ![t] = Unused] /\ stream' = stream
       \/ /\ lease[t].answer = "refused" /\ ~lease[t].stopped
          /\ lease' = [lease EXCEPT ![t].at = "ended", ![t].lost = TRUE]
          /\ stream' = IF lease[t].lost THEN stream ELSE Told(t)
       \/ /\ lease[t].answer = "held" /\ ~lease[t].stopped /\ ~GivesBack(t)
          /\ lease' = [lease EXCEPT ![t] = [Waits(t) EXCEPT !.lastOk = OkSince(t)]] /\ stream' = stream
    /\ UNCHANGED <<now, lock, early, unreleased, faults>>
\* A renewal that raises is tried again on the next beat, unless it was the last.
RenewFails(t) ==
    /\ lease[t].at = "renewing" /\ UseFault
    /\ lease' = [lease EXCEPT ![t] = IF lease[t].stopped THEN Unused ELSE Waits(t)]
    /\ unreleased' = IF lease[t].stopped THEN unreleased \cup {t} ELSE unreleased
    /\ UNCHANGED <<now, lock, stream, early>>
Release(t) ==
    /\ lease[t].at = "releasing" /\ Unlocks(t)
    /\ lease' = [lease EXCEPT ![t] = IF lease[t].stopped THEN Unused ELSE [lease[t] EXCEPT !.at = "ended"]]
    /\ early' = IF lease[t].stopped THEN early ELSE early \cup {t}
    /\ UNCHANGED <<now, stream>>

----------------------------------------------------------------------------
(* Time and crashes *)

Tick ==
    /\ now < MaxTime /\ now' = now + 1
    /\ UNCHANGED <<lock, stream, lease, early, unreleased, faults>>
\* The process dies with its threads and calls, and starts again.
Crash(r) ==
    LET t == stream[r].token
    IN /\ t # None /\ UseFault
       /\ stream' = [stream EXCEPT ![r] = Standby]
       /\ lease' = [lease EXCEPT ![t] = Unused]
       /\ unreleased' = unreleased \cup {t}
       /\ UNCHANGED <<now, lock, early>>

Next ==
    \/ \E r \in Replicas : \/ \E t \in Tokens : Elect(r, t)
                           \/ Elected(r) \/ Check(r) \/ Publish(r) \/ Begin(r) \/ RunEnds(r)
                           \/ GiveBack(r) \/ Unlock(r) \/ Crash(r)
    \/ \E t \in Tokens : \/ Serve(t) \/ Watchdog(t) \/ Beat(t) \/ Renewed(t) \/ RenewFails(t)
                         \/ Release(t)
    \/ Tick
Spec == Init /\ [][Next]_vars

----------------------------------------------------------------------------
(* Properties *)

Times == 0 .. MaxTime
Leading(r) == stream[r].at \in {"leading", "checked", "starting", "running"}
TypeOK ==
    /\ now \in Times
    /\ lock \in [holder : Tokens \cup {None}, expires : Nat]
    /\ stream \in [Replicas -> [at : {"standby", "electing", "leading", "checked", "starting", "running", "joining"},
                                token : Tokens \cup {None}, lost : BOOLEAN, told : BOOLEAN,
                                until : Nat \cup {NoTime}]]
    /\ \A r \in Replicas : /\ (stream[r].at = "standby") <=> (stream[r].token = None)
                           /\ stream[r].at \in {"standby", "electing"} => ~stream[r].lost
    /\ lease \in [Tokens -> [at : {"unused", "electing", "idle", "renewing", "releasing", "ended"},
                             answer : {"none", "held", "refused"}, since : Times, lastOk : Times,
                             lost : BOOLEAN, stopped : BOOLEAN]]
    /\ early \subseteq Tokens /\ unreleased \subseteq Tokens
    /\ faults \in 0 .. MaxFaults

\* A leader whose fence has not come holds the key, and it is live: no late
\* renewal, unlock or takeover of any other acquisition, and no slow answer of
\* its own, took it away ("an old lease's late renewal or unlock can never
\* touch a newer acquisition", supervisor.py).
LeaderHoldsKey ==
    \A r \in Replicas :
        Leading(r) /\ ~stream[r].lost /\ ~FenceDue(stream[r].token)
            => lock.holder = stream[r].token /\ lock.expires > Second

\* The fence leaves "at least a second for the owner's run to stop before
\* anyone else may start" (lease.fence_after), and not more: two connectors run
\* at once only when one of them runs more than a second past its fence (it is
\* slow to return, its process is stalled, or it was started on an answer that
\* came late), or when its heartbeat gave the key back under it.
Overruns(t) == now > lease[t].lastOk + Fence + Res
OverlapNeedsOverrun ==
    \A r, s \in Replicas :
        r # s /\ stream[r].at = "running" /\ stream[s].at = "running"
            => \E t \in {stream[r].token, stream[s].token} : t \in early \/ Overruns(t)

\* A connector whose lease is lost has been told to stop, also when the lease
\* was lost between the run thread's look at it and the publication of the
\* event by which it is told (supervisor._serve). A lease counts as
\* lost when on_lost has run, which the heartbeat calls once it set its flag.
LostRunIsTold ==
    \A r \in Replicas :
        stream[r].at = "running" /\ lease[stream[r].token].lost => stream[r].told

\* "No two runs of a singleton stream ever overlap, under any datastore stall,
\* timing or exit path" (supervisor.py, the goal of leader election).
NoTwoRuns ==
    \A r, s \in Replicas : stream[r].at = "running" /\ stream[s].at = "running" => r = s

\* A renewal that outlives its owner's stop gives the key back: no key stays
\* held for a run that is over, unless a release failed or a process died
\* (LeaseHeartbeat.stop: "it can never keep a released lock").
StrayKeyIsGivenBack ==
    lock.holder # None /\ (\A r \in Replicas : stream[r].token # lock.holder)
        => lease[lock.holder].at \in {"renewing", "releasing"} \/ lock.holder \in unreleased
=============================================================================
