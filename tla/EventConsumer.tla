-------------------------- MODULE EventConsumer --------------------------
(***************************************************************************)
(* A durable event consumer (examlops/events/consumer.py, the inbox in     *)
(* examlops/data/events.py): the processes that share one durable name     *)
(* fetch batches, skip events the inbox has seen, run the handler, record  *)
(* the event and acknowledge the message. A failing message is given back  *)
(* until its delivery limit, then parked on the dead-letter subject.       *)
(*                                                                         *)
(* The broker (JetStream) is external: it redelivers a message that was    *)
(* given back or whose ack wait ran out, gives up after the consumer's     *)
(* max_deliver, and drops a repeated message id on the dead-letter subject *)
(* while its duplicate window is open. The stream may hold several copies  *)
(* of one event: see EventRelay.                                           *)
(***************************************************************************)
EXTENDS Naturals, FiniteSets

CONSTANTS
    Messages,     \* stream sequence numbers
    IdOf,         \* the event id of each message
    Undecodable,  \* the id _dead_letter uses for a body it cannot read
    Consumers,    \* processes with this durable name
    BatchSize,    \* EventConsumer.batch
    MaxDeliver,   \* EventConsumer.max_deliver
    MaxFaults     \* bound: aborted cycles and stalls beyond the ack wait

ASSUME ConsumerAssumption ==
    /\ Messages \subseteq Nat \ {0} /\ IsFiniteSet(Messages) /\ IsFiniteSet(Consumers)
    /\ BatchSize \in Nat \ {0} /\ MaxDeliver \in Nat \ {0} /\ MaxFaults \in Nat

Ids == {IdOf[m] : m \in Messages}
Events == Ids \ {Undecodable}

VARIABLES
    \* the broker: where each message is, its deliveries, the dead letters it
    \* holds and the dead-letter ids it remembers
    mstate, deliveries, dlq, dlqWindow,
    \* event_inbox
    inbox,
    \* a process: control point, message in hand, and the delivery number under
    \* which it holds each message of its batch (0: not held)
    pc, cur, held,
    \* what happened: handler effects per event, those never recorded, acks
    \* that did not come in time, give-backs, and what the bound counts
    effects, unrecorded, lapses, naks, faults

brokerVars == <<mstate, deliveries, dlq, dlqWindow>>
procVars   == <<pc, cur, held>>
countVars  == <<effects, unrecorded, lapses, naks, faults>>
vars == <<brokerVars, inbox, procVars, countVars>>

NoMessage == 0

Init ==
    /\ mstate = [m \in Messages |-> "absent"]
    /\ deliveries = [m \in Messages |-> 0]
    /\ dlq = {} /\ dlqWindow = {} /\ inbox = {}
    /\ pc = [c \in Consumers |-> "idle"]
    /\ cur = [c \in Consumers |-> NoMessage]
    /\ held = [c \in Consumers |-> [m \in Messages |-> 0]]
    /\ effects = [e \in Events |-> 0]
    /\ unrecorded = [e \in Events |-> 0]
    /\ lapses = [m \in Messages |-> 0]
    /\ naks = [m \in Messages |-> 0]
    /\ faults = 0

Goto(c, point) == pc' = [pc EXCEPT ![c] = point]
UseFault == faults < MaxFaults /\ faults' = faults + 1
Batch(c) == {m \in Messages : held[c][m] > 0}
Held(m) == \E c \in Consumers : held[c][m] > 0

\* max_deliver as run_once passes it to the broker: one more than the limit at
\* which a failing message is parked.
BrokerLimitExact == MaxDeliver
BrokerLimitLate  == MaxDeliver + 2
BrokerLimit      == MaxDeliver + 1

\* The relay's publish.
Arrive(m) ==
    /\ mstate[m] = "absent"
    /\ mstate' = [mstate EXCEPT ![m] = "available"]
    /\ UNCHANGED <<deliveries, dlq, dlqWindow, inbox, procVars, countVars>>

\* js.fetch: a batch of what the broker has to deliver.
Fetch(c) ==
    /\ pc[c] = "idle"
    /\ \E S \in SUBSET {m \in Messages : mstate[m] = "available"} :
        /\ S # {} /\ Cardinality(S) <= BatchSize
        /\ mstate' = [m \in Messages |-> IF m \in S THEN "out" ELSE mstate[m]]
        /\ deliveries' = [m \in Messages |-> IF m \in S THEN deliveries[m] + 1 ELSE deliveries[m]]
        /\ held' = [held EXCEPT ![c] = [m \in Messages |-> IF m \in S THEN deliveries[m] + 1 ELSE 0]]
    /\ Goto(c, "next")
    /\ UNCHANGED <<dlq, dlqWindow, inbox, cur, countVars>>

SeenNever(e) == FALSE
Seen(e)      == e \in inbox

\* handle: the next message of the batch is decoded and looked up.
Handle(c, m) ==
    /\ pc[c] = "next" /\ m \in Batch(c)
    /\ cur' = [cur EXCEPT ![c] = m]
    /\ Goto(c, CASE IdOf[m] = Undecodable -> "parking"
                 [] IdOf[m] # Undecodable /\ Seen(IdOf[m]) -> "acking"
                 [] OTHER -> "handling")
    /\ UNCHANGED <<brokerVars, inbox, held, countVars>>

HandlerSucceeds(c) ==
    /\ pc[c] = "handling"
    /\ effects' = [effects EXCEPT ![IdOf[cur[c]]] = @ + 1]
    /\ Goto(c, "recording")
    /\ UNCHANGED <<brokerVars, inbox, cur, held, unrecorded, lapses, naks, faults>>

LastTryEarly(n) == n + 1 >= MaxDeliver
LastTryLate(n)  == n > MaxDeliver + 1
LastTry(n)      == n >= MaxDeliver
DropAfterFailure(n) == IF LastTry(n) THEN "acking" ELSE "returning"
AfterFailure(n)     == IF LastTry(n) THEN "parking" ELSE "returning"

HandlerFails(c) ==
    /\ pc[c] = "handling"
    /\ Goto(c, AfterFailure(held[c][cur[c]]))
    /\ UNCHANGED <<brokerVars, inbox, cur, held, countVars>>

InboxRecord(c) ==
    /\ pc[c] = "recording"
    /\ inbox' = inbox \cup {IdOf[cur[c]]}
    /\ Goto(c, "acking")
    /\ UNCHANGED <<brokerVars, cur, held, countVars>>

\* _dead_letter: the broker keeps the message unless it remembers its id.
DeadLetter(c) ==
    /\ pc[c] = "parking"
    /\ dlq' = IF IdOf[cur[c]] \in dlqWindow THEN dlq ELSE dlq \cup {cur[c]}
    /\ dlqWindow' = dlqWindow \cup {IdOf[cur[c]]}
    /\ Goto(c, "acking")
    /\ UNCHANGED <<mstate, deliveries, inbox, cur, held, countVars>>

\* The message in hand is settled; the loop goes on with the batch.
Settled(c) ==
    /\ held' = [held EXCEPT ![c][cur[c]] = 0]
    /\ cur' = [cur EXCEPT ![c] = NoMessage]
    /\ Goto(c, IF Batch(c) = {cur[c]} THEN "idle" ELSE "next")

\* An ack counts whoever holds the message by now, unless the broker gave up.
Ack(c) ==
    /\ pc[c] = "acking"
    /\ mstate' = [mstate EXCEPT ![cur[c]] = IF @ = "given up" THEN @ ELSE "acked"]
    /\ Settled(c)
    /\ UNCHANGED <<deliveries, dlq, dlqWindow, inbox, countVars>>

Redelivered(m) == IF deliveries[m] < BrokerLimit THEN "available" ELSE "given up"

Nak(c) ==
    LET m == cur[c]
        out == mstate[m] = "out"
    IN  /\ pc[c] = "returning"
        /\ mstate' = [mstate EXCEPT ![m] = IF out THEN Redelivered(m) ELSE @]
        /\ naks' = [naks EXCEPT ![m] = @ + 1]
        /\ Settled(c)
        /\ UNCHANGED <<deliveries, dlq, dlqWindow, inbox, effects, unrecorded, lapses, faults>>

\* A process dies, or an inbox write, a dead letter or an acknowledgement
\* raises and run_forever starts the next cycle: the batch is left where it is.
Abort(c) ==
    /\ pc[c] # "idle"
    /\ UseFault
    /\ unrecorded' = IF pc[c] = "recording"
                     THEN [unrecorded EXCEPT ![IdOf[cur[c]]] = @ + 1]
                     ELSE unrecorded
    /\ held' = [held EXCEPT ![c] = [m \in Messages |-> 0]]
    /\ cur' = [cur EXCEPT ![c] = NoMessage]
    /\ Goto(c, "idle")
    /\ UNCHANGED <<brokerVars, inbox, effects, lapses, naks>>

\* ack_wait is past. Under a process still at work it takes a stall.
AckWaitElapses(m) ==
    /\ mstate[m] = "out"
    /\ mstate' = [mstate EXCEPT ![m] = Redelivered(m)]
    /\ lapses' = [lapses EXCEPT ![m] = @ + 1]
    /\ IF Held(m) THEN UseFault ELSE UNCHANGED faults
    /\ UNCHANGED <<deliveries, dlq, dlqWindow, inbox, procVars, effects, unrecorded, naks>>

WindowCloses(id) ==
    /\ id \in dlqWindow
    /\ dlqWindow' = dlqWindow \ {id}
    /\ UNCHANGED <<mstate, deliveries, dlq, inbox, procVars, countVars>>

ConsumerStep(c) ==
    \/ Fetch(c) \/ HandlerSucceeds(c) \/ HandlerFails(c) \/ InboxRecord(c)
    \/ DeadLetter(c) \/ Ack(c) \/ Nak(c) \/ Abort(c)
    \/ \E m \in Messages : Handle(c, m)

Next ==
    \/ \E c \in Consumers : ConsumerStep(c)
    \/ \E m \in Messages : Arrive(m) \/ AckWaitElapses(m)
    \/ \E id \in Ids : WindowCloses(id)

Spec == Init /\ [][Next]_vars

(***************************************************************************)
(* Fairness: run_forever fetches again and again, every call it makes      *)
(* returns, and the broker's ack timer runs.                               *)
(***************************************************************************)
Fairness ==
    /\ \A c \in Consumers :
        /\ WF_vars(Fetch(c)) /\ WF_vars(HandlerSucceeds(c) \/ HandlerFails(c))
        /\ WF_vars(InboxRecord(c) \/ DeadLetter(c) \/ Ack(c) \/ Nak(c))
        /\ WF_vars(\E m \in Messages : Handle(c, m))
    /\ \A m \in Messages : WF_vars(AckWaitElapses(m))

FairSpec == Spec /\ Fairness

(***************************************************************************)
(* Properties.                                                             *)
(***************************************************************************)

\* Every variable keeps its type, and no message is delivered once too often.
TypeOK ==
    /\ mstate \in [Messages -> {"absent", "available", "out", "acked", "given up"}]
    /\ deliveries \in [Messages -> 0 .. MaxDeliver + 1]
    /\ dlq \subseteq Messages /\ dlqWindow \subseteq Ids /\ inbox \subseteq Events
    /\ pc \in [Consumers -> {"idle", "next", "handling", "recording", "parking",
                             "returning", "acking"}]
    /\ cur \in [Consumers -> Messages \cup {NoMessage}]
    /\ held \in [Consumers -> [Messages -> 0 .. MaxDeliver + 1]]
    /\ effects \in [Events -> Nat] /\ unrecorded \in [Events -> Nat]
    /\ lapses \in [Messages -> Nat] /\ naks \in [Messages -> Nat]
    /\ faults \in 0 .. MaxFaults

Parked(e) == \E m \in dlq : IdOf[m] = e

\* The event of a message the broker was told to forget was handled to the end
\* or parked, whatever crashed, stalled or was delivered twice on the way.
AckedIsHandledOrParked ==
    \A m \in Messages : mstate[m] = "acked" /\ IdOf[m] # Undecodable =>
        \/ IdOf[m] \in inbox /\ effects[IdOf[m]] > 0
        \/ Parked(IdOf[m])

\* The inbox bounds the repeats of a handler: once for each process, and once
\* more for each time the record after it was lost.
EffectsBounded ==
    \A e \in Events : effects[e] <= Cardinality(Consumers) + unrecorded[e]

\* The broker gives a message up only after two acknowledgements were missed:
\* the extra delivery run_once asks for absorbs the first.
GivenUpAfterTwoLapses ==
    \A m \in Messages : mstate[m] = "given up" => lapses[m] >= 2

\* A message is parked only once the broker has delivered it max_deliver times.
ParkedAtItsLimit ==
    \A m \in dlq : IdOf[m] # Undecodable => deliveries[m] >= MaxDeliver

\* Every message in the stream is settled, or two acknowledgements were missed.
MessageSettles ==
    \A m \in Messages : mstate[m] # "absent" ~> mstate[m] = "acked" \/ lapses[m] >= 2

\* The consumer hands the events it can read over to the handler, or to the
\* dead letters.
InReach == {e \in Events : \E m \in Messages : IdOf[m] = e /\ mstate[m] # "absent"}
Handled == {e \in Events : effects[e] > 0 \/ Parked(e)}
Acked   == {e \in Events : \E m \in Messages : IdOf[m] = e /\ mstate[m] = "acked"}
Stage == INSTANCE HandOver WITH
            Items <- Events, taken <- InReach, passed <- Handled, closed <- Acked
ImplementsHandOver == Stage!Spec
=============================================================================
