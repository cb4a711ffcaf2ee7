---------------------------- MODULE EventRelay ----------------------------
(***************************************************************************)
(* The transactional outbox and its relays                                 *)
(* (examlops/data/events.py, relay_once in examlops/events/__init__.py):   *)
(* several relay loops claim batches of unpublished rows under a           *)
(* visibility lease, publish each to the broker, and mark it published or  *)
(* failed, or return it when the broker is not there. None of the three    *)
(* marks looks at who holds the claim.                                     *)
(*                                                                         *)
(* The broker (JetStream) is external: it drops a repeated message id      *)
(* while its duplicate window is open, and a publish it did not answer in  *)
(* time may have landed all the same.                                      *)
(***************************************************************************)
EXTENDS Naturals, FiniteSets

CONSTANTS
    Events,       \* outbox ids, which order the rows
    Relays,       \* relay loops, over all replicas and `exa events relay`
    BatchSize,    \* the limit of one claim
    MaxAttempts,  \* EXAMLOPS_EVENT_MAX_ATTEMPTS
    MaxFaults     \* bound: crashes, stalls, timeouts and failed writes

ASSUME RelayAssumption ==
    /\ Events \subseteq Nat /\ IsFiniteSet(Events) /\ IsFiniteSet(Relays)
    /\ BatchSize \in Nat \ {0} /\ MaxAttempts \in Nat \ {0} /\ MaxFaults \in Nat

VARIABLES
    \* event_outbox: the rows, published_at, attempts, claimed_at, and the
    \* claims older than the visibility timeout
    rows, published, attempts, claimed, lapsed,
    \* the relays: control point, rows of the batch not yet done, and those of
    \* them whose claim ran out meanwhile
    pc, batch, late,
    \* the broker: messages per event, ids inside the duplicate window
    copies, window,
    \* how often the broker refused an event; what the bound counts
    refused, faults

rowVars    == <<rows, published, attempts, claimed, lapsed>>
brokerVars == <<copies, window>>
vars == <<rowVars, pc, batch, late, brokerVars, refused, faults>>

Init ==
    /\ rows = {} /\ published = {} /\ claimed = {} /\ lapsed = {}
    /\ attempts = [e \in Events |-> 0]
    /\ pc = [r \in Relays |-> "idle"]
    /\ batch = [r \in Relays |-> {}]
    /\ late = [r \in Relays |-> {}]
    /\ copies = [e \in Events |-> 0]
    /\ window = {}
    /\ refused = [e \in Events |-> 0]
    /\ faults = 0

Goto(r, point) == pc' = [pc EXCEPT ![r] = point]
UseFault == faults < MaxFaults /\ faults' = faults + 1

\* Relays that still mean to publish e.
Holders(e) == {r \in Relays : e \in batch[r]}

\* The relay is done with the rows S of its batch.
Done(r, S) ==
    /\ batch' = [batch EXCEPT ![r] = @ \ S]
    /\ late' = [late EXCEPT ![r] = @ \ S]

\* enqueue_event, in the transaction of the change it reports.
Enqueue(e) ==
    /\ e \notin rows
    /\ rows' = rows \cup {e}
    /\ UNCHANGED <<published, attempts, claimed, lapsed, pc, batch, late,
                   brokerVars, refused, faults>>

ClaimableAnytime(e) == e \in rows \ published /\ attempts[e] < MaxAttempts
ClaimableUnclaimed(e) ==
    /\ e \in rows \ published /\ attempts[e] < MaxAttempts
    /\ e \notin claimed
ClaimableOnceMore(e) ==
    /\ e \in rows \ published /\ attempts[e] <= MaxAttempts
    /\ e \in claimed => e \in lapsed
Claimable(e) ==
    /\ e \in rows \ published /\ attempts[e] < MaxAttempts
    /\ e \in claimed => e \in lapsed

\* ORDER BY id LIMIT ?
Oldest(S) == {e \in S : Cardinality({f \in S : f < e}) < BatchSize}

ClaimBatch(r) ==
    /\ pc[r] = "idle"
    /\ LET B == Oldest({e \in Events : Claimable(e)})
       IN  /\ B # {}
           /\ attempts' = [e \in Events |-> IF e \in B THEN attempts[e] + 1 ELSE attempts[e]]
           /\ claimed' = claimed \cup B
           /\ lapsed' = lapsed \ B
           /\ batch' = [batch EXCEPT ![r] = B]
    /\ Goto(r, "relaying")
    /\ UNCHANGED <<rows, published, late, brokerVars, refused, faults>>

\* The row the relay's loop is at.
Publishing(r, e) ==
    /\ pc[r] = "relaying" /\ e \in batch[r]
    /\ \A f \in batch[r] : e <= f

\* The broker has e: one message more, unless it remembers the id.
Lands(e) ==
    /\ copies' = [copies EXCEPT ![e] = IF e \in window THEN @ ELSE @ + 1]
    /\ window' = window \cup {e}

Accepted(r, e) ==
    /\ Publishing(r, e)
    /\ Lands(e)
    /\ Goto(r, "accepted")
    /\ UNCHANGED <<rowVars, batch, late, refused, faults>>

MarkPublished(r, e) ==
    /\ pc[r] = "accepted" /\ e \in batch[r] /\ \A f \in batch[r] : e <= f
    /\ published' = published \cup {e}
    /\ Done(r, {e})
    /\ Goto(r, IF batch[r] = {e} THEN "idle" ELSE "relaying")
    /\ UNCHANGED <<rows, attempts, claimed, lapsed, brokerVars, refused, faults>>

\* The write fails after the broker took the event: the row is failed.
MarkFails(r) ==
    /\ pc[r] = "accepted"
    /\ UseFault
    /\ Goto(r, "failing")
    /\ UNCHANGED <<rowVars, batch, late, brokerVars, refused>>

Refused(r, e) ==
    /\ Publishing(r, e)
    /\ refused' = [refused EXCEPT ![e] = @ + 1]
    /\ Goto(r, "failing")
    /\ UNCHANGED <<rowVars, batch, late, brokerVars, faults>>

\* The claim is cleared, whoever holds it by now.
MarkFailed(r, e) ==
    /\ pc[r] = "failing" /\ e \in batch[r] /\ \A f \in batch[r] : e <= f
    /\ claimed' = claimed \ {e}
    /\ lapsed' = lapsed \ {e}
    /\ Done(r, {e})
    /\ Goto(r, IF batch[r] = {e} THEN "idle" ELSE "relaying")
    /\ UNCHANGED <<rows, published, attempts, brokerVars, refused, faults>>

\* No connection: nothing was sent.
Unavailable(r) ==
    /\ pc[r] = "relaying"
    /\ Goto(r, "deferring")
    /\ UNCHANGED <<rowVars, batch, late, brokerVars, refused, faults>>

\* is_unavailable: a timeout is taken for an outage, whether the message
\* landed or not.
TimeoutIsSuccess == "accepted"
AfterTimeout     == "deferring"

TimesOut(r, e) ==
    /\ Publishing(r, e)
    /\ UseFault
    /\ Lands(e) \/ UNCHANGED brokerVars
    /\ Goto(r, AfterTimeout)
    /\ UNCHANGED <<rowVars, batch, late, refused>>

\* defer_outbox_claim: the rest of the batch goes back, the attempt with it.
ReturnedAll(r) == batch[r]
Returned(r)    == batch[r] \ published
RefundNone(n) == n
Refund(n)     == IF n > 0 THEN n - 1 ELSE 0

Defer(r) ==
    /\ pc[r] = "deferring"
    /\ claimed' = claimed \ Returned(r)
    /\ lapsed' = lapsed \ Returned(r)
    /\ attempts' = [e \in Events |->
                       IF e \in Returned(r) THEN Refund(attempts[e]) ELSE attempts[e]]
    /\ Done(r, batch[r])
    /\ Goto(r, "idle")
    /\ UNCHANGED <<rows, published, brokerVars, refused, faults>>

\* The process dies, or an exception leaves relay_once: the batch is left.
Crash(r) ==
    /\ pc[r] # "idle"
    /\ UseFault
    /\ Done(r, batch[r])
    /\ Goto(r, "idle")
    /\ UNCHANGED <<rowVars, brokerVars, refused>>

\* claimed_at + visibility_s is past. Under a relay still at work it takes a
\* stall, which is a fault.
LeaseLapses(e) ==
    /\ e \in claimed \ lapsed /\ e \notin published
    /\ lapsed' = lapsed \cup {e}
    /\ late' = [r \in Relays |-> IF e \in batch[r] THEN late[r] \cup {e} ELSE late[r]]
    /\ IF Holders(e) = {} THEN UNCHANGED faults ELSE UseFault
    /\ UNCHANGED <<rows, published, attempts, claimed, pc, batch, brokerVars, refused>>

WindowCloses(e) ==
    /\ e \in window
    /\ window' = window \ {e}
    /\ UNCHANGED <<rowVars, pc, batch, late, copies, refused, faults>>

RelayStep(r) ==
    \/ ClaimBatch(r) \/ MarkFails(r) \/ Unavailable(r) \/ Defer(r) \/ Crash(r)
    \/ \E e \in Events : \/ Accepted(r, e) \/ MarkPublished(r, e) \/ Refused(r, e)
                         \/ MarkFailed(r, e) \/ TimesOut(r, e)

Next ==
    \/ \E r \in Relays : RelayStep(r)
    \/ \E e \in Events : Enqueue(e) \/ LeaseLapses(e) \/ WindowCloses(e)

Spec == Init /\ [][Next]_vars

(***************************************************************************)
(* Fairness: the relay loop runs on its timer and every call in it         *)
(* returns; clocks advance; the broker, asked again and again, answers.    *)
(***************************************************************************)
Fairness ==
    /\ \A r \in Relays :
        /\ WF_vars(ClaimBatch(r)) /\ WF_vars(Defer(r))
        /\ WF_vars(\E e \in Events : MarkPublished(r, e) \/ MarkFailed(r, e))
        /\ SF_vars(\E e \in Events : Accepted(r, e) \/ Refused(r, e))
    /\ \A e \in Events : WF_vars(LeaseLapses(e))

FairSpec == Spec /\ Fairness

(***************************************************************************)
(* Properties.                                                             *)
(***************************************************************************)

\* Every variable keeps its type, and no event is tried once too often.
TypeOK ==
    /\ rows \subseteq Events /\ published \subseteq rows
    /\ attempts \in [Events -> 0 .. MaxAttempts]
    /\ claimed \subseteq rows /\ lapsed \subseteq claimed
    /\ pc \in [Relays -> {"idle", "relaying", "accepted", "failing", "deferring"}]
    /\ batch \in [Relays -> SUBSET rows]
    /\ late \in [Relays -> SUBSET rows]
    /\ copies \in [Events -> Nat] /\ window \subseteq Events
    /\ refused \in [Events -> Nat] /\ faults \in 0 .. MaxFaults

\* An event marked published is in the stream, whichever relay marked it and
\* however many others crashed, stalled or timed out on it.
PublishedIsInStream == \A e \in published : copies[e] > 0

\* An attempt is spent only on a refusal or a fault, and every refusal spends
\* one: neither an outage nor a relay that gives back a row another relay has
\* claimed meanwhile moves the poison budget.
AttemptsAccounted ==
    \A e \in Events :
        /\ refused[e] <= attempts[e]
        /\ e \notin published =>
             attempts[e] <= refused[e] + faults + Cardinality(Holders(e))

\* Two relays work on one row only after a claim ran out under a relay still
\* at work.
OverlapNeedsStall ==
    \A e \in rows \ published : Cardinality(Holders(e)) <= 1 + faults

\* A late relay that fails, defers or claims never takes a row out of published
\* nor spends or refunds an attempt of it. (Its failure does clear claimed_at
\* and write last_error: mark_event_failed does not look at published_at.)
PublishedIsFrozen ==
    [][\A e \in published : e \in published' /\ attempts'[e] = attempts[e]]_vars

Poisoned(e) == e \in rows \ published /\ attempts[e] = MaxAttempts /\ Holders(e) = {}

\* Every event committed to the outbox reaches the stream or is left as poison.
EventSettles == \A e \in Events : e \in rows ~> e \in published \/ Poisoned(e)

\* The outbox hands its events over to the stream: what is published was in
\* the stream before, what is in the stream was committed before, for good.
InStream == {e \in Events : copies[e] > 0}
Stage == INSTANCE HandOver WITH
            Items <- Events, taken <- rows, passed <- InStream, closed <- published
ImplementsHandOver == Stage!Spec
=============================================================================
