------------------------ MODULE EventConsumerProofs ------------------------
(***************************************************************************)
(* EventConsumer, for any messages, consumers, batch size, delivery limit  *)
(* and number of faults: what an acknowledgement, an effect, a dead letter *)
(* and a message the broker gave up tell about the event.                  *)
(***************************************************************************)
EXTENDS EventConsumer, FiniteSetTheorems, TLAPS

\* A process at its control point: what it holds, and what it knows of the
\* message in hand.
Hand(c) ==
    /\ pc[c] = "idle" => \A m \in Messages : held[c][m] = 0
    /\ pc[c] \notin {"idle", "next"} => cur[c] \in Messages /\ held[c][cur[c]] > 0
    /\ pc[c] \in {"handling", "recording"} => IdOf[cur[c]] \in Events
    /\ pc[c] = "recording" => effects[IdOf[cur[c]]] > 0
    /\ pc[c] = "returning" => held[c][cur[c]] < MaxDeliver
    /\ pc[c] = "parking" => IdOf[cur[c]] = Undecodable \/ held[c][cur[c]] >= MaxDeliver
    /\ pc[c] = "acking" => IdOf[cur[c]] = Undecodable \/ IdOf[cur[c]] \in inbox \/ Parked(IdOf[cur[c]])
    /\ \A m \in Messages : held[c][m] <= deliveries[m]
HandsInv == \A c \in Consumers : Hand(c)

\* Inbox, dead letters and acknowledgements: the window remembers only ids of
\* letters the broker has.
SettledInv ==
    /\ \A e \in inbox : effects[e] > 0
    /\ \A id \in dlqWindow : Parked(id)
    /\ AckedIsHandledOrParked /\ ParkedAtItsLimit

\* Every delivery that came back was given back or lapsed, and only deliveries
\* under the limit are given back: at most MaxDeliver - 1.
Low(m) == {c \in Consumers : held[c][m] \in 1 .. MaxDeliver - 1}
FlowOf(place, n, back) ==
    /\ place = "absent" => n = 0
    /\ place = "available" => n <= MaxDeliver /\ n <= back
    /\ place = "out" => n <= back + 1
    /\ place = "given up" => n = MaxDeliver + 1 /\ n <= back
Flow(m) == FlowOf(mstate[m], deliveries[m], naks[m] + lapses[m])
Returns(m) ==
    /\ naks[m] + Cardinality(Low(m)) <= deliveries[m]
    /\ naks[m] + Cardinality(Low(m)) <= MaxDeliver - 1
FlowInv == \A m \in Messages : Flow(m) /\ Returns(m)

\* Before the event is recorded an effect is still to be recorded or its record
\* was lost; from then on only processes that had passed the inbox can add one.
At(point, e) == {c \in Consumers : pc[c] = point /\ IdOf[cur[c]] = e}
Repeats(e) ==
    /\ e \notin inbox => effects[e] <= unrecorded[e] + Cardinality(At("recording", e))
    /\ e \in inbox => effects[e] + Cardinality(At("handling", e)) <= Cardinality(Consumers) + unrecorded[e]
EffectsInv == \A e \in Events : Repeats(e)

ConsumerInv == TypeOK /\ HandsInv /\ SettledInv /\ FlowInv /\ EffectsInv

----------------------------------------------------------------------------
(* Types *)

MessageStates == {"absent", "available", "out", "acked", "given up"}
Points == {"idle", "next", "handling", "recording", "parking", "returning", "acking"}

LEMMA Types ==
  ASSUME TypeOK
  PROVE  /\ mstate \in [Messages -> MessageStates] /\ deliveries \in [Messages -> 0 .. MaxDeliver + 1]
         /\ dlq \subseteq Messages /\ dlqWindow \subseteq Ids /\ inbox \subseteq Events
         /\ pc \in [Consumers -> Points] /\ cur \in [Consumers -> Messages \cup {NoMessage}]
         /\ held \in [Consumers -> [Messages -> 0 .. MaxDeliver + 1]]
         /\ effects \in [Events -> Nat] /\ unrecorded \in [Events -> Nat]
         /\ lapses \in [Messages -> Nat] /\ naks \in [Messages -> Nat] /\ faults \in 0 .. MaxFaults
         /\ MaxDeliver \in Nat \ {0} /\ MaxFaults \in Nat /\ Messages \subseteq Nat \ {0}
         /\ BrokerLimit = MaxDeliver + 1 /\ NoMessage \notin Messages
  BY ConsumerAssumption DEF TypeOK, MessageStates, Points, BrokerLimit, NoMessage

\* The step of one process: the others stay where they are.
Others(c) ==
    \A d \in Consumers : d # c => pc'[d] = pc[d] /\ cur'[d] = cur[d] /\ held'[d] = held[d]

LEMMA MessageIds == \A m \in Messages : IdOf[m] \in Ids /\ (IdOf[m] # Undecodable => IdOf[m] \in Events)
  BY DEF Ids, Events

LEMMA FaultTyped ==
  ASSUME TypeOK, UseFault
  PROVE  faults' \in 0 .. MaxFaults
  BY Types DEF UseFault

LEMMA RedeliveredTyped ==
  ASSUME NEW m
  PROVE  Redelivered(m) \in MessageStates
  BY DEF Redelivered, MessageStates

\* What Settled does to the process.
LEMMA SettledMoves ==
  ASSUME TypeOK, NEW c \in Consumers, Settled(c), cur[c] \in Messages
  PROVE  /\ Others(c) /\ cur'[c] = NoMessage /\ pc'[c] \in {"idle", "next"}
         /\ held'[c][cur[c]] = 0
         /\ \A m \in Messages : m # cur[c] => held'[c][m] = held[c][m]
         /\ pc'[c] = "idle" => Batch(c) = {cur[c]}
         /\ pc' \in [Consumers -> Points] /\ cur' \in [Consumers -> Messages \cup {NoMessage}]
         /\ held' \in [Consumers -> [Messages -> 0 .. MaxDeliver + 1]]
  BY Types DEF Settled, Goto, Others, Points

LEMMA TypeStep ==
  ASSUME TypeOK, HandsInv, FlowInv, Next
  PROVE  TypeOK'
<1>t. /\ mstate \in [Messages -> MessageStates] /\ deliveries \in [Messages -> 0 .. MaxDeliver + 1]
      /\ dlq \subseteq Messages /\ dlqWindow \subseteq Ids /\ inbox \subseteq Events
      /\ pc \in [Consumers -> Points] /\ cur \in [Consumers -> Messages \cup {NoMessage}]
      /\ held \in [Consumers -> [Messages -> 0 .. MaxDeliver + 1]]
      /\ effects \in [Events -> Nat] /\ unrecorded \in [Events -> Nat]
      /\ lapses \in [Messages -> Nat] /\ naks \in [Messages -> Nat] /\ faults \in 0 .. MaxFaults
      /\ MaxDeliver \in Nat \ {0} /\ MaxFaults \in Nat
  BY Types
<1>d. ASSUME mstate' \in [Messages -> MessageStates], deliveries' \in [Messages -> 0 .. MaxDeliver + 1],
             dlq' \subseteq Messages, dlqWindow' \subseteq Ids, inbox' \subseteq Events,
             pc' \in [Consumers -> Points], cur' \in [Consumers -> Messages \cup {NoMessage}],
             held' \in [Consumers -> [Messages -> 0 .. MaxDeliver + 1]],
             effects' \in [Events -> Nat], unrecorded' \in [Events -> Nat],
             lapses' \in [Messages -> Nat], naks' \in [Messages -> Nat], faults' \in 0 .. MaxFaults
      PROVE  TypeOK'
  BY <1>d DEF TypeOK, MessageStates, Points
<1>h. \A c \in Consumers : pc[c] \notin {"idle", "next"} => cur[c] \in Messages
  BY DEF HandsInv, Hand
<1>1. ASSUME NEW m \in Messages, Arrive(m) PROVE TypeOK'
  BY <1>t, <1>d, <1>1 DEF Arrive, procVars, countVars, MessageStates
<1>2. ASSUME NEW m \in Messages, AckWaitElapses(m) PROVE TypeOK'
  <2>1. mstate' \in [Messages -> MessageStates] /\ lapses' \in [Messages -> Nat] /\ faults' \in 0 .. MaxFaults
    BY <1>t, <1>2, RedeliveredTyped, FaultTyped DEF AckWaitElapses
  <2>2. QED
    BY <1>t, <1>d, <1>2, <2>1 DEF AckWaitElapses, procVars
<1>3. ASSUME NEW id \in Ids, WindowCloses(id) PROVE TypeOK'
  BY <1>t, <1>d, <1>3 DEF WindowCloses, procVars, countVars
<1>4. ASSUME NEW c \in Consumers, Fetch(c) PROVE TypeOK'
  <2>1. PICK S \in SUBSET {m \in Messages : mstate[m] = "available"} :
           /\ mstate' = [m \in Messages |-> IF m \in S THEN "out" ELSE mstate[m]]
           /\ deliveries' = [m \in Messages |-> IF m \in S THEN deliveries[m] + 1 ELSE deliveries[m]]
           /\ held' = [held EXCEPT ![c] = [m \in Messages |-> IF m \in S THEN deliveries[m] + 1 ELSE 0]]
    BY <1>4 DEF Fetch
  <2>2. \A m \in S : deliveries[m] + 1 \in 0 .. MaxDeliver + 1
    <3>1. ASSUME NEW m \in S PROVE m \in Messages /\ deliveries[m] <= MaxDeliver /\ deliveries[m] \in Nat
      <4>1. m \in Messages /\ mstate[m] = "available"
        BY <3>1
      <4>2. Flow(m)
        BY <4>1 DEF FlowInv
      <4>3. QED
        BY <1>t, <4>1, <4>2 DEF Flow, FlowOf
    <3>2. QED
      BY <1>t, <3>1
  <2>3. deliveries' \in [Messages -> 0 .. MaxDeliver + 1] /\ mstate' \in [Messages -> MessageStates]
    BY <1>t, <2>1, <2>2 DEF MessageStates
  <2>4. [m \in Messages |-> IF m \in S THEN deliveries[m] + 1 ELSE 0] \in [Messages -> 0 .. MaxDeliver + 1]
    BY <1>t, <2>2
  <2>5. held' \in [Consumers -> [Messages -> 0 .. MaxDeliver + 1]] /\ pc' \in [Consumers -> Points]
    BY <1>t, <1>4, <2>1, <2>4 DEF Fetch, Goto, Points
  <2>6. QED
    BY <1>t, <1>d, <1>4, <2>3, <2>5 DEF Fetch, countVars
<1>5. ASSUME NEW c \in Consumers, NEW m \in Messages, Handle(c, m) PROVE TypeOK'
  <2>1. cur' \in [Consumers -> Messages \cup {NoMessage}] /\ pc' \in [Consumers -> Points]
    BY <1>t, <1>5 DEF Handle, Goto, Points
  <2>2. QED
    BY <1>t, <1>d, <1>5, <2>1 DEF Handle, brokerVars, countVars
<1>6. ASSUME NEW c \in Consumers, HandlerSucceeds(c) \/ HandlerFails(c) \/ InboxRecord(c) \/ DeadLetter(c)
      PROVE  TypeOK'
  <2>1. pc' \in [Consumers -> Points]
    BY <1>t, <1>6 DEF HandlerSucceeds, HandlerFails, InboxRecord, DeadLetter, AfterFailure, Goto, Points
  <2>2. CASE HandlerSucceeds(c)
    <3>1. IdOf[cur[c]] \in Events
      BY <2>2 DEF HandlerSucceeds, HandsInv, Hand
    <3>2. effects' \in [Events -> Nat]
      BY <1>t, <2>2, <3>1 DEF HandlerSucceeds
    <3>3. QED
      BY <1>t, <1>d, <2>1, <2>2, <3>2 DEF HandlerSucceeds, brokerVars
  <2>3. CASE HandlerFails(c)
    BY <1>t, <1>d, <2>1, <2>3 DEF HandlerFails, brokerVars, countVars
  <2>4. CASE InboxRecord(c)
    <3>1. IdOf[cur[c]] \in Events
      BY <2>4 DEF InboxRecord, HandsInv, Hand
    <3>2. QED
      BY <1>t, <1>d, <2>1, <2>4, <3>1 DEF InboxRecord, brokerVars, countVars
  <2>5. CASE DeadLetter(c)
    <3>1. cur[c] \in Messages /\ IdOf[cur[c]] \in Ids
      BY <1>h, <2>5, MessageIds DEF DeadLetter
    <3>2. QED
      BY <1>t, <1>d, <2>1, <2>5, <3>1 DEF DeadLetter, countVars
  <2>6. QED
    BY <1>6, <2>2, <2>3, <2>4, <2>5
<1>7. ASSUME NEW c \in Consumers, Ack(c) PROVE TypeOK'
  <2>1. cur[c] \in Messages /\ Settled(c)
    BY <1>h, <1>7 DEF Ack
  <2>2. mstate' \in [Messages -> MessageStates]
    BY <1>t, <1>7 DEF Ack, MessageStates
  <2>3. QED
    BY <1>t, <1>d, <1>7, <2>1, <2>2, SettledMoves DEF Ack, countVars
<1>8. ASSUME NEW c \in Consumers, Nak(c) PROVE TypeOK'
  <2>1. cur[c] \in Messages /\ Settled(c)
    BY <1>h, <1>8 DEF Nak
  <2>2. mstate' \in [Messages -> MessageStates] /\ naks' \in [Messages -> Nat]
    <3>1. mstate' \in [Messages -> MessageStates]
      <4>1. mstate' = [mstate EXCEPT ![cur[c]] = IF mstate[cur[c]] = "out" THEN Redelivered(cur[c]) ELSE mstate[cur[c]]]
        BY <1>8 DEF Nak
      <4>2. QED
        BY <1>t, <2>1, <4>1, RedeliveredTyped
    <3>2. naks' \in [Messages -> Nat]
      BY <1>t, <1>8, <2>1 DEF Nak
    <3>3. QED
      BY <3>1, <3>2
  <2>3. QED
    BY <1>t, <1>d, <1>8, <2>1, <2>2, SettledMoves DEF Nak
<1>9. ASSUME NEW c \in Consumers, Abort(c) PROVE TypeOK'
  <2>1. unrecorded' \in [Events -> Nat] /\ faults' \in 0 .. MaxFaults
    <3>1. pc[c] = "recording" => IdOf[cur[c]] \in Events
      BY DEF HandsInv, Hand
    <3>2. unrecorded' \in [Events -> Nat]
      BY <1>t, <1>9, <3>1 DEF Abort
    <3>3. QED
      BY <1>9, <3>2, FaultTyped DEF Abort
  <2>2. /\ held' \in [Consumers -> [Messages -> 0 .. MaxDeliver + 1]]
        /\ cur' \in [Consumers -> Messages \cup {NoMessage}] /\ pc' \in [Consumers -> Points]
    BY <1>t, <1>9 DEF Abort, Goto, Points
  <2>3. QED
    BY <1>t, <1>d, <1>9, <2>1, <2>2 DEF Abort, brokerVars
<1>10. QED
  BY <1>1, <1>2, <1>3, <1>4, <1>5, <1>6, <1>7, <1>8, <1>9 DEF Next, ConsumerStep

----------------------------------------------------------------------------
(* What a step changes *)

\* Who writes what.
LEMMA Writers ==
  ASSUME Next
  PROVE  /\ deliveries' = deliveries \/ \E c \in Consumers : Fetch(c)
         /\ inbox' = inbox \/ \E c \in Consumers : InboxRecord(c)
         /\ effects' = effects \/ \E c \in Consumers : HandlerSucceeds(c)
         /\ dlq' = dlq \/ \E c \in Consumers : DeadLetter(c)
         /\ dlqWindow' = dlqWindow \/ (\E c \in Consumers : DeadLetter(c)) \/ \E id \in Ids : WindowCloses(id)
         /\ mstate' = mstate \/ (\E c \in Consumers : Fetch(c) \/ Ack(c) \/ Nak(c))
                              \/ \E m \in Messages : Arrive(m) \/ AckWaitElapses(m)
         /\ naks' = naks \/ \E c \in Consumers : Nak(c)
         /\ lapses' = lapses \/ \E m \in Messages : AckWaitElapses(m)
         /\ unrecorded' = unrecorded \/ \E c \in Consumers : Abort(c)
         /\ UNCHANGED procVars \/ \E c \in Consumers : ConsumerStep(c)
  BY DEF Next, ConsumerStep, Fetch, HandlerSucceeds, HandlerFails, InboxRecord, DeadLetter, Ack, Nak, Abort,
         Handle, Arrive, AckWaitElapses, WindowCloses, brokerVars, procVars, countVars

\* Deliveries, effects, the inbox and the dead letters only grow.
LEMMA Grows ==
  ASSUME TypeOK, Next
  PROVE  /\ \A m \in Messages : deliveries[m] <= deliveries'[m]
         /\ inbox \subseteq inbox' /\ dlq \subseteq dlq'
         /\ \A e \in Events : effects[e] <= effects'[e]
         /\ \A e : Parked(e) => Parked(e)'
<1>1. \A m \in Messages : deliveries[m] <= deliveries'[m]
  <2>1. CASE deliveries' = deliveries
    BY <2>1, Types
  <2>2. ASSUME NEW c \in Consumers, Fetch(c) PROVE \A m \in Messages : deliveries[m] <= deliveries'[m]
    BY <2>2, Types DEF Fetch
  <2>3. QED
    BY <2>1, <2>2, Writers
<1>2. inbox \subseteq inbox'
  BY Writers DEF InboxRecord
<1>3. dlq \subseteq dlq'
  BY Writers DEF DeadLetter
<1>4. \A e \in Events : effects[e] <= effects'[e]
  <2>1. CASE effects' = effects
    BY <2>1, Types
  <2>2. ASSUME NEW c \in Consumers, HandlerSucceeds(c) PROVE \A e \in Events : effects[e] <= effects'[e]
    BY <2>2, Types DEF HandlerSucceeds
  <2>3. QED
    BY <2>1, <2>2, Writers
<1>5. \A e : Parked(e) => Parked(e)'
  BY <1>3 DEF Parked
<1>6. QED
  BY <1>1, <1>2, <1>3, <1>4, <1>5

----------------------------------------------------------------------------
(* The processes *)

LEMMA HandKept ==
  ASSUME TypeOK, TypeOK', Next, NEW d \in Consumers, Hand(d),
         pc'[d] = pc[d], cur'[d] = cur[d], held'[d] = held[d]
  PROVE  Hand(d)'
<1>1. /\ \A m \in Messages : deliveries[m] <= deliveries'[m]
      /\ inbox \subseteq inbox'
      /\ \A e \in Events : effects[e] <= effects'[e]
      /\ \A e : Parked(e) => Parked(e)'
  BY Grows
<1>2. \A m \in Messages : held[d][m] \in Nat /\ deliveries[m] \in Nat /\ deliveries'[m] \in Nat
  <2>1. /\ deliveries \in [Messages -> 0 .. MaxDeliver + 1] /\ deliveries' \in [Messages -> 0 .. MaxDeliver + 1]
        /\ held \in [Consumers -> [Messages -> 0 .. MaxDeliver + 1]]
    BY DEF TypeOK
  <2>2. QED
    BY <2>1
<1>3. \A m \in Messages : held'[d][m] <= deliveries'[m]
  BY <1>1, <1>2 DEF Hand
<1>4. pc'[d] = "recording" => effects'[IdOf[cur'[d]]] > 0
  <2>1. \A e \in Events : effects[e] \in Nat /\ effects'[e] \in Nat
    BY Types DEF TypeOK
  <2>2. QED
    BY <1>1, <2>1 DEF Hand
<1>5. pc'[d] = "acking" => IdOf[cur'[d]] = Undecodable \/ IdOf[cur'[d]] \in inbox' \/ Parked(IdOf[cur[d]])'
  BY <1>1 DEF Hand
<1>6. pc'[d] = "acking" => (IdOf[cur[d]] = Undecodable \/ IdOf[cur[d]] \in inbox \/ Parked(IdOf[cur[d]]))'
  BY <1>5 DEF Parked
<1>7. QED
  BY <1>3, <1>4, <1>6 DEF Hand

\* A process that is idle or between two messages of its batch.
LEMMA HandFree ==
  ASSUME TypeOK, NEW d \in Consumers, pc'[d] \in {"idle", "next"},
         pc'[d] = "idle" => \A m \in Messages : held'[d][m] = 0,
         \A m \in Messages : held'[d][m] <= deliveries'[m]
  PROVE  Hand(d)'
  BY DEF Hand

LEMMA HandsStep ==
  ASSUME TypeOK, TypeOK', HandsInv, SettledInv, Next
  PROVE  HandsInv'
<1>t. /\ mstate \in [Messages -> MessageStates] /\ deliveries \in [Messages -> 0 .. MaxDeliver + 1]
      /\ pc \in [Consumers -> Points] /\ cur \in [Consumers -> Messages \cup {NoMessage}]
      /\ held \in [Consumers -> [Messages -> 0 .. MaxDeliver + 1]]
      /\ effects \in [Events -> Nat] /\ MaxDeliver \in Nat \ {0}
      /\ \A m \in Messages : deliveries[m] \in Nat
      /\ \A c \in Consumers, m \in Messages : held[c][m] \in Nat
  BY Types
<1>h. \A c \in Consumers : Hand(c)
  BY DEF HandsInv
<1>o. ASSUME NEW c \in Consumers, Others(c), Hand(c)' PROVE HandsInv'
  <2>1. ASSUME NEW d \in Consumers PROVE Hand(d)'
    BY <1>h, <1>o, HandKept DEF Others
  <2>2. QED
    BY <2>1 DEF HandsInv
<1>1. CASE UNCHANGED procVars
  <2>1. ASSUME NEW d \in Consumers PROVE Hand(d)'
    BY <1>h, <1>1, HandKept DEF procVars
  <2>2. QED
    BY <2>1 DEF HandsInv
<1>2. ASSUME NEW c \in Consumers, Fetch(c) PROVE HandsInv'
  <2>1. PICK S \in SUBSET {m \in Messages : mstate[m] = "available"} :
           /\ deliveries' = [m \in Messages |-> IF m \in S THEN deliveries[m] + 1 ELSE deliveries[m]]
           /\ held' = [held EXCEPT ![c] = [m \in Messages |-> IF m \in S THEN deliveries[m] + 1 ELSE 0]]
    BY <1>2 DEF Fetch
  <2>2. Others(c) /\ pc'[c] = "next"
    BY <1>t, <1>2, <2>1 DEF Fetch, Goto, Others
  <2>3. \A m \in Messages : held'[c][m] <= deliveries'[m]
    BY <1>t, <2>1
  <2>4. QED
    BY <1>o, <2>2, <2>3, HandFree
<1>3. ASSUME NEW c \in Consumers, NEW m \in Messages, Handle(c, m) PROVE HandsInv'
  <2>1. /\ Others(c) /\ cur'[c] = m /\ held' = held /\ held[c][m] > 0 /\ deliveries' = deliveries
        /\ inbox' = inbox
        /\ pc'[c] = CASE IdOf[m] = Undecodable -> "parking"
                      [] IdOf[m] # Undecodable /\ Seen(IdOf[m]) -> "acking"
                      [] OTHER -> "handling"
    BY <1>t, <1>3 DEF Handle, Goto, Others, Batch, brokerVars
  <2>2. \/ IdOf[m] = Undecodable /\ pc'[c] = "parking"
        \/ IdOf[m] \in inbox' /\ pc'[c] = "acking"
        \/ IdOf[m] \in Events /\ pc'[c] = "handling"
    BY <2>1, MessageIds DEF Seen
  <2>3. \A n \in Messages : held'[c][n] <= deliveries'[n]
    BY <1>h, <2>1 DEF Hand
  <2>4. Hand(c)'
    BY <2>1, <2>2, <2>3 DEF Hand
  <2>5. QED
    BY <1>o, <2>1, <2>4
<1>4. ASSUME NEW c \in Consumers, HandlerSucceeds(c) \/ HandlerFails(c) \/ InboxRecord(c) \/ DeadLetter(c)
      PROVE  HandsInv'
  <2> DEFINE m == cur[c]
  <2>1. /\ Others(c) /\ cur'[c] = m /\ held' = held /\ deliveries' = deliveries
        /\ m \in Messages /\ held[c][m] > 0 /\ held[c][m] \in Nat
        /\ \A n \in Messages : held'[c][n] <= deliveries'[n]
    <3>1. pc[c] \notin {"idle", "next"} /\ cur' = cur /\ held' = held /\ deliveries' = deliveries
      BY <1>4 DEF HandlerSucceeds, HandlerFails, InboxRecord, DeadLetter, brokerVars
    <3>2. \A d \in Consumers : d # c => pc'[d] = pc[d]
      BY <1>t, <1>4 DEF HandlerSucceeds, HandlerFails, InboxRecord, DeadLetter, Goto
    <3>3. m \in Messages /\ held[c][m] > 0 /\ \A n \in Messages : held[c][n] <= deliveries[n]
      BY <1>h, <3>1 DEF Hand
    <3>4. QED
      BY <1>t, <3>1, <3>2, <3>3 DEF Others
  <2>2. CASE HandlerSucceeds(c)
    <3>1. pc'[c] = "recording" /\ IdOf[m] \in Events
      BY <1>t, <1>h, <2>2 DEF HandlerSucceeds, Goto, Hand
    <3>2. effects'[IdOf[m]] > 0
      BY <1>t, <2>2, <3>1 DEF HandlerSucceeds
    <3>3. QED
      BY <1>o, <2>1, <3>1, <3>2 DEF Hand
  <2>3. CASE HandlerFails(c)
    <3>1. pc'[c] = IF held[c][m] >= MaxDeliver THEN "parking" ELSE "returning"
      BY <1>t, <2>3 DEF HandlerFails, AfterFailure, LastTry, Goto
    <3>2. Hand(c)'
      BY <1>t, <2>1, <3>1 DEF Hand
    <3>3. QED
      BY <1>o, <2>1, <3>2
  <2>4. CASE InboxRecord(c)
    <3>1. pc'[c] = "acking" /\ IdOf[m] \in inbox'
      BY <1>t, <2>4 DEF InboxRecord, Goto
    <3>2. QED
      BY <1>o, <2>1, <3>1 DEF Hand
  <2>5. CASE DeadLetter(c)
    <3>1. pc'[c] = "acking"
      BY <1>t, <2>5 DEF DeadLetter, Goto
    <3>2. Parked(IdOf[m])'
      <4>1. CASE IdOf[m] \in dlqWindow
        <5>1. Parked(IdOf[m])
          BY <4>1 DEF SettledInv
        <5>2. dlq \subseteq dlq'
          BY Grows
        <5>3. QED
          BY <2>1, <5>1, <5>2 DEF Parked
      <4>2. CASE IdOf[m] \notin dlqWindow
        BY <2>5, <4>2 DEF DeadLetter, Parked
      <4>3. QED
        BY <4>1, <4>2
    <3>3. \E n \in dlq' : IdOf[n] = IdOf[cur'[c]]
      BY <2>1, <3>2 DEF Parked
    <3>4. QED
      BY <1>o, <2>1, <3>1, <3>3 DEF Hand, Parked
  <2>6. QED
    BY <1>4, <2>2, <2>3, <2>4, <2>5
<1>5. ASSUME NEW c \in Consumers, Ack(c) \/ Nak(c) PROVE HandsInv'
  <2>1. pc[c] \in {"acking", "returning"} /\ Settled(c) /\ deliveries' = deliveries
    BY <1>5 DEF Ack, Nak
  <2>2. cur[c] \in Messages
    BY <1>h, <2>1 DEF Hand
  <2>3. /\ Others(c) /\ pc'[c] \in {"idle", "next"} /\ held'[c][cur[c]] = 0
        /\ \A m \in Messages : m # cur[c] => held'[c][m] = held[c][m]
        /\ pc'[c] = "idle" => Batch(c) = {cur[c]}
    BY <2>1, <2>2, SettledMoves
  <2>4. pc'[c] = "idle" => \A m \in Messages : held'[c][m] = 0
    BY <1>t, <2>3 DEF Batch
  <2>5. \A m \in Messages : held[c][m] <= deliveries[m]
    BY <1>h DEF Hand
  <2>6. \A m \in Messages : held'[c][m] <= deliveries'[m]
    BY <1>t, <2>1, <2>3, <2>5
  <2>7. QED
    BY <1>o, <2>3, <2>4, <2>6, HandFree
<1>6. ASSUME NEW c \in Consumers, Abort(c) PROVE HandsInv'
  <2>1. Others(c) /\ pc'[c] = "idle" /\ deliveries' = deliveries /\ \A m \in Messages : held'[c][m] = 0
    BY <1>t, <1>6 DEF Abort, Goto, Others, brokerVars
  <2>2. \A m \in Messages : held'[c][m] <= deliveries'[m]
    BY <1>t, <2>1
  <2>3. QED
    BY <1>o, <2>1, <2>2, HandFree
<1>7. QED
  BY <1>1, <1>2, <1>3, <1>4, <1>5, <1>6, Writers DEF ConsumerStep

----------------------------------------------------------------------------
(* Inbox, dead letters and acknowledgements *)

LEMMA SettledStep ==
  ASSUME TypeOK, TypeOK', HandsInv, SettledInv, Next
  PROVE  SettledInv'
<1>t. /\ mstate \in [Messages -> MessageStates] /\ deliveries \in [Messages -> 0 .. MaxDeliver + 1]
      /\ held \in [Consumers -> [Messages -> 0 .. MaxDeliver + 1]]
      /\ effects \in [Events -> Nat] /\ MaxDeliver \in Nat \ {0} /\ inbox \subseteq Events /\ dlq \subseteq Messages
      /\ \A m \in Messages : deliveries[m] \in Nat
      /\ \A c \in Consumers, m \in Messages : held[c][m] \in Nat
  BY Types
<1>u. /\ inbox' \subseteq Events /\ \A e \in Events : effects'[e] \in Nat
      /\ \A m \in Messages : deliveries'[m] \in Nat
  <2>1. /\ inbox' \subseteq Events /\ effects' \in [Events -> Nat]
        /\ deliveries' \in [Messages -> 0 .. MaxDeliver + 1]
    BY DEF TypeOK
  <2>2. QED
    BY <1>t, <2>1
<1>g. /\ \A m \in Messages : deliveries[m] <= deliveries'[m]
      /\ inbox \subseteq inbox' /\ dlq \subseteq dlq'
      /\ \A e \in Events : effects[e] <= effects'[e]
      /\ \A e : Parked(e) => Parked(e)'
  BY Grows
<1>h. \A c \in Consumers : Hand(c)
  BY DEF HandsInv
<1>1. ASSUME NEW e \in inbox' PROVE effects'[e] > 0
  <2>1. CASE e \in inbox
    BY <1>t, <1>u, <1>g, <2>1 DEF SettledInv
  <2>2. ASSUME NEW c \in Consumers, InboxRecord(c), e \notin inbox PROVE effects'[e] > 0
    <3>1. e = IdOf[cur[c]] /\ pc[c] = "recording" /\ effects' = effects
      BY <1>1, <2>2 DEF InboxRecord, countVars
    <3>2. QED
      BY <1>h, <3>1 DEF Hand
  <2>3. QED
    BY <1>1, <2>1, <2>2, Writers
<1>2. ASSUME NEW id \in dlqWindow' PROVE Parked(id)'
  <2>1. CASE id \in dlqWindow
    BY <1>g, <2>1 DEF SettledInv
  <2>2. ASSUME NEW c \in Consumers, DeadLetter(c), id \notin dlqWindow PROVE Parked(id)'
    BY <1>2, <2>2 DEF DeadLetter, Parked
  <2>3. ASSUME NEW i \in Ids, WindowCloses(i) PROVE id \in dlqWindow
    BY <1>2, <2>3 DEF WindowCloses
  <2>4. QED
    BY <1>2, <2>1, <2>2, <2>3, Writers
<1>3. ASSUME NEW m \in Messages, mstate'[m] = "acked", IdOf[m] # Undecodable
      PROVE  (IdOf[m] \in inbox' /\ effects'[IdOf[m]] > 0) \/ Parked(IdOf[m])'
  <2>1. CASE mstate[m] = "acked"
    <3>1. IdOf[m] \in inbox \/ Parked(IdOf[m])
      BY <1>3, <2>1 DEF SettledInv, AckedIsHandledOrParked
    <3>2. QED
      BY <1>1, <1>g, <3>1
  <2>2. ASSUME NEW c \in Consumers, Ack(c), mstate[m] # "acked"
        PROVE  (IdOf[m] \in inbox' /\ effects'[IdOf[m]] > 0) \/ Parked(IdOf[m])'
    <3>1. m = cur[c] /\ pc[c] = "acking"
      BY <1>t, <1>3, <2>2 DEF Ack
    <3>2. IdOf[m] \in inbox \/ Parked(IdOf[m])
      BY <1>3, <1>h, <3>1 DEF Hand
    <3>3. QED
      BY <1>1, <1>g, <3>2
  <2>3. ASSUME NEW c \in Consumers, Fetch(c) PROVE mstate[m] = "acked"
    BY <1>3, <2>3 DEF Fetch
  <2>4. ASSUME NEW c \in Consumers, Nak(c) PROVE mstate[m] = "acked"
    BY <1>t, <1>3, <2>4 DEF Nak, Redelivered
  <2>5. ASSUME NEW n \in Messages, Arrive(n) \/ AckWaitElapses(n) PROVE mstate[m] = "acked"
    BY <1>t, <1>3, <2>5 DEF Arrive, AckWaitElapses, Redelivered
  <2>6. CASE mstate' = mstate
    BY <1>3, <2>1, <2>6
  <2>7. QED
    BY <2>1, <2>2, <2>3, <2>4, <2>5, <2>6, Writers
<1>4. ASSUME NEW m \in dlq', IdOf[m] # Undecodable PROVE deliveries'[m] >= MaxDeliver
  <2>1. CASE m \in dlq
    BY <1>t, <1>u, <1>g, <1>4, <2>1 DEF SettledInv, ParkedAtItsLimit
  <2>2. ASSUME NEW c \in Consumers, DeadLetter(c), m \notin dlq PROVE deliveries'[m] >= MaxDeliver
    <3>1. m = cur[c] /\ pc[c] = "parking" /\ deliveries' = deliveries
      BY <1>4, <2>2 DEF DeadLetter
    <3>2. m \in Messages /\ held[c][m] >= MaxDeliver /\ held[c][m] <= deliveries[m]
      BY <1>h, <1>4, <3>1 DEF Hand
    <3>3. QED
      BY <1>t, <3>1, <3>2
  <2>3. QED
    BY <1>4, <2>1, <2>2, Writers
<1>5. AckedIsHandledOrParked'
  BY <1>3 DEF AckedIsHandledOrParked, Parked
<1>6. (\A id \in dlqWindow : Parked(id))'
  BY <1>2 DEF Parked
<1>7. ParkedAtItsLimit'
  BY <1>4 DEF ParkedAtItsLimit
<1>8. QED
  BY <1>1, <1>5, <1>6, <1>7 DEF SettledInv

----------------------------------------------------------------------------
(* Deliveries *)

LEMMA ConsumersCount ==
  ASSUME NEW S, S \subseteq Consumers
  PROVE  /\ IsFiniteSet(S) /\ Cardinality(S) \in Nat /\ Cardinality(Consumers) \in Nat
         /\ \A T \in SUBSET S : Cardinality(T) \in Nat /\ Cardinality(T) <= Cardinality(S)
         /\ \A c \in S : Cardinality(S \ {c}) = Cardinality(S) - 1
         /\ \A c : c \notin S => Cardinality(S \cup {c}) = Cardinality(S) + 1
<1>1. IsFiniteSet(Consumers) /\ IsFiniteSet(S)
  BY ConsumerAssumption, FS_Subset
<1>2. Cardinality(S) \in Nat /\ Cardinality(Consumers) \in Nat
  BY <1>1, FS_CardinalityType
<1>3. \A T \in SUBSET S : Cardinality(T) \in Nat /\ Cardinality(T) <= Cardinality(S)
  BY <1>1, FS_Subset, FS_CardinalityType
<1>4. \A c \in S : Cardinality(S \ {c}) = Cardinality(S) - 1
  BY <1>1, FS_RemoveElement
<1>5. \A c : c \notin S => Cardinality(S \cup {c}) = Cardinality(S) + 1
  BY <1>1, FS_AddElement
<1>6. QED
  BY <1>1, <1>2, <1>3, <1>4, <1>5

LEMMA ReturnsKept ==
  ASSUME TypeOK, TypeOK', NEW m \in Messages, Returns(m), naks'[m] = naks[m],
         Low(m)' \subseteq Low(m), deliveries[m] <= deliveries'[m]
  PROVE  Returns(m)'
<1> DEFINE k == Cardinality(Low(m))
           l == Cardinality(Low(m)')
<1>1. k \in Nat /\ l \in Nat /\ l <= k
  BY ConsumersCount DEF Low
<1>2. naks[m] \in Nat /\ deliveries[m] \in Nat /\ deliveries'[m] \in Nat /\ MaxDeliver \in Nat
  <2>1. deliveries' \in [Messages -> 0 .. MaxDeliver + 1]
    BY DEF TypeOK
  <2>2. QED
    BY <2>1, Types
<1>3. naks[m] + k <= deliveries[m] /\ naks[m] + k <= MaxDeliver - 1
  BY DEF Returns
<1> HIDE DEF k, l
<1>4. naks'[m] + l <= deliveries'[m] /\ naks'[m] + l <= MaxDeliver - 1
  BY <1>1, <1>2, <1>3
<1>5. QED
  BY <1>4 DEF l, Returns

\* A message enters the stream, comes back, or comes back while it is not out.
LEMMA FlowStarts ==
  ASSUME NEW n \in Nat, NEW back \in Nat, FlowOf("absent", n, back)
  PROVE  FlowOf("available", n, back)
<1>1. MaxDeliver \in Nat
  BY ConsumerAssumption
<1>2. n = 0
  BY DEF FlowOf
<1>3. QED
  BY <1>1, <1>2 DEF FlowOf
LEMMA FlowReturns ==
  ASSUME NEW n \in 0 .. MaxDeliver + 1, NEW back \in Nat
  PROVE  /\ FlowOf("out", n, back) /\ n <= MaxDeliver => FlowOf("available", n, back + 1)
         /\ FlowOf("out", n, back) /\ n = MaxDeliver + 1 => FlowOf("given up", n, back + 1)
         /\ \A place : FlowOf(place, n, back) => FlowOf(place, n, back + 1)
<1>1. MaxDeliver \in Nat /\ n \in Nat
  BY ConsumerAssumption
<1>2. FlowOf("out", n, back) /\ n <= MaxDeliver => FlowOf("available", n, back + 1)
  <2>1. FlowOf("out", n, back) => n <= back + 1
    BY DEF FlowOf
  <2>2. n <= MaxDeliver /\ n <= back + 1 => FlowOf("available", n, back + 1)
    BY DEF FlowOf
  <2>3. QED
    BY <2>1, <2>2
<1>3. FlowOf("out", n, back) /\ n = MaxDeliver + 1 => FlowOf("given up", n, back + 1)
  <2>1. FlowOf("out", n, back) => n <= back + 1
    BY DEF FlowOf
  <2>2. n = MaxDeliver + 1 /\ n <= back + 1 => FlowOf("given up", n, back + 1)
    BY DEF FlowOf
  <2>3. QED
    BY <2>1, <2>2
<1>4. ASSUME NEW place, FlowOf(place, n, back) PROVE FlowOf(place, n, back + 1)
  <2>1. n <= back => n <= back + 1
    BY <1>1
  <2>2. n <= back + 1 => n <= back + 1 + 1
    BY <1>1
  <2>3. QED
    BY <1>4, <2>1, <2>2 DEF FlowOf
<1>5. QED
  BY <1>2, <1>3, <1>4

LEMMA FlowStep ==
  ASSUME TypeOK, TypeOK', HandsInv, FlowInv, Next
  PROVE  FlowInv'
<1>t. /\ mstate \in [Messages -> MessageStates] /\ deliveries \in [Messages -> 0 .. MaxDeliver + 1]
      /\ held \in [Consumers -> [Messages -> 0 .. MaxDeliver + 1]] /\ MaxDeliver \in Nat \ {0}
      /\ naks \in [Messages -> Nat] /\ lapses \in [Messages -> Nat]
      /\ pc \in [Consumers -> Points] /\ cur \in [Consumers -> Messages \cup {NoMessage}]
      /\ \A m \in Messages : deliveries[m] \in Nat /\ naks[m] \in Nat /\ lapses[m] \in Nat
      /\ \A c \in Consumers, m \in Messages : held[c][m] \in Nat
      /\ BrokerLimit = MaxDeliver + 1
  BY Types
<1>h. \A c \in Consumers : Hand(c)
  BY DEF HandsInv
<1>f. \A m \in Messages : Flow(m) /\ Returns(m)
  BY DEF FlowInv
<1>g. \A m \in Messages : deliveries[m] <= deliveries'[m]
  BY Grows
\* Where the message is and what it took to get there.
<1>1. ASSUME NEW m \in Messages PROVE Flow(m)'
  <2>0. Flow(m) /\ deliveries[m] \in 0 .. MaxDeliver + 1
    BY <1>t, <1>f
  <2>n. deliveries[m] \in Nat /\ naks[m] \in Nat /\ lapses[m] \in Nat /\ MaxDeliver \in Nat
    BY <1>t
  <2>r. \/ Redelivered(m) = "available" /\ deliveries[m] <= MaxDeliver
        \/ Redelivered(m) = "given up" /\ deliveries[m] = MaxDeliver + 1
    BY <1>t, <2>0 DEF Redelivered
  <2>1. ASSUME NEW c \in Consumers, Fetch(c) PROVE Flow(m)'
    <3>1. PICK S \in SUBSET {n \in Messages : mstate[n] = "available"} :
             /\ mstate' = [n \in Messages |-> IF n \in S THEN "out" ELSE mstate[n]]
             /\ deliveries' = [n \in Messages |-> IF n \in S THEN deliveries[n] + 1 ELSE deliveries[n]]
      BY <2>1 DEF Fetch
    <3>2. naks' = naks /\ lapses' = lapses
      BY <2>1 DEF Fetch, countVars
    <3>3. CASE m \in S
      <4>1. mstate[m] = "available" /\ mstate'[m] = "out" /\ deliveries'[m] = deliveries[m] + 1
        BY <3>1, <3>3
      <4>2. QED
        BY <1>t, <2>0, <3>2, <4>1 DEF Flow, FlowOf
    <3>4. CASE m \notin S
      <4>1. mstate'[m] = mstate[m] /\ deliveries'[m] = deliveries[m]
        BY <3>1, <3>4
      <4>2. QED
        BY <2>0, <3>2, <4>1 DEF Flow, FlowOf
    <3>5. QED
      BY <3>3, <3>4
  <2>2. ASSUME NEW c \in Consumers, Nak(c) PROVE Flow(m)'
    <3>1. deliveries' = deliveries /\ lapses' = lapses
      BY <2>2 DEF Nak
    <3>2. CASE m = cur[c]
      <4>1. mstate'[m] = (IF mstate[m] = "out" THEN Redelivered(m) ELSE mstate[m]) /\ naks'[m] = naks[m] + 1
        BY <1>t, <2>2, <3>2 DEF Nak
      <4>2. naks'[m] + lapses'[m] = naks[m] + lapses[m] + 1 /\ deliveries'[m] = deliveries[m]
        BY <2>n, <3>1, <4>1
      <4>3. FlowOf(mstate'[m], deliveries[m], naks[m] + lapses[m] + 1)
        <5>1. naks[m] + lapses[m] \in Nat /\ FlowOf(mstate[m], deliveries[m], naks[m] + lapses[m])
          BY <2>n, <2>0 DEF Flow
        <5>2. CASE mstate[m] # "out"
          BY <2>0, <4>1, <5>1, <5>2, FlowReturns
        <5>3. CASE mstate[m] = "out" /\ Redelivered(m) = "available" /\ deliveries[m] <= MaxDeliver
          BY <2>0, <4>1, <5>1, <5>3, FlowReturns
        <5>4. CASE mstate[m] = "out" /\ Redelivered(m) = "given up" /\ deliveries[m] = MaxDeliver + 1
          BY <2>0, <4>1, <5>1, <5>4, FlowReturns
        <5>5. QED
          BY <2>r, <5>2, <5>3, <5>4
      <4>4. QED
        BY <4>2, <4>3 DEF Flow
    <3>3. CASE m # cur[c]
      <4>1. mstate'[m] = mstate[m] /\ naks'[m] = naks[m]
        BY <1>t, <2>2, <3>3 DEF Nak
      <4>2. QED
        BY <2>0, <3>1, <4>1 DEF Flow, FlowOf
    <3>4. QED
      BY <3>2, <3>3
  <2>3. ASSUME NEW n \in Messages, AckWaitElapses(n) PROVE Flow(m)'
    <3>1. deliveries' = deliveries /\ naks' = naks
      BY <2>3 DEF AckWaitElapses
    <3>2. CASE m = n
      <4>1. mstate[m] = "out" /\ mstate'[m] = Redelivered(m) /\ lapses'[m] = lapses[m] + 1
        BY <1>t, <2>3, <3>2 DEF AckWaitElapses
      <4>2. naks'[m] + lapses'[m] = naks[m] + lapses[m] + 1 /\ deliveries'[m] = deliveries[m]
        BY <2>n, <3>1, <4>1
      <4>3. FlowOf(mstate'[m], deliveries[m], naks[m] + lapses[m] + 1)
        <5>1. naks[m] + lapses[m] \in Nat /\ FlowOf(mstate[m], deliveries[m], naks[m] + lapses[m])
          BY <2>n, <2>0 DEF Flow
        <5>2. CASE mstate[m] # "out"
          BY <2>0, <4>1, <5>1, <5>2, FlowReturns
        <5>3. CASE mstate[m] = "out" /\ Redelivered(m) = "available" /\ deliveries[m] <= MaxDeliver
          BY <2>0, <4>1, <5>1, <5>3, FlowReturns
        <5>4. CASE mstate[m] = "out" /\ Redelivered(m) = "given up" /\ deliveries[m] = MaxDeliver + 1
          BY <2>0, <4>1, <5>1, <5>4, FlowReturns
        <5>5. QED
          BY <2>r, <5>2, <5>3, <5>4
      <4>4. QED
        BY <4>2, <4>3 DEF Flow
    <3>3. CASE m # n
      <4>1. mstate'[m] = mstate[m] /\ lapses'[m] = lapses[m]
        BY <1>t, <2>3, <3>3 DEF AckWaitElapses
      <4>2. QED
        BY <2>0, <3>1, <4>1 DEF Flow, FlowOf
    <3>4. QED
      BY <3>2, <3>3
  <2>4. ASSUME NEW n \in Messages, Arrive(n) PROVE Flow(m)'
    <3>1. UNCHANGED <<deliveries, naks, lapses>>
      BY <2>4 DEF Arrive, countVars
    <3>2. mstate'[m] = mstate[m] \/ (mstate[m] = "absent" /\ mstate'[m] = "available")
      BY <1>t, <2>4 DEF Arrive
    <3>3. QED
      BY <2>n, <2>0, <3>1, <3>2, FlowStarts DEF Flow
  <2>5. ASSUME NEW c \in Consumers, Ack(c) PROVE Flow(m)'
    <3>1. /\ mstate'[m] = mstate[m] \/ mstate'[m] = "acked"
          /\ deliveries' = deliveries /\ naks' = naks /\ lapses' = lapses
      BY <1>t, <2>5 DEF Ack, countVars
    <3>2. QED
      BY <2>0, <3>1 DEF Flow, FlowOf
  <2>6. CASE UNCHANGED <<mstate, deliveries, naks, lapses>>
    BY <2>0, <2>6 DEF Flow, FlowOf
  <2>7. QED
    BY <2>1, <2>2, <2>3, <2>4, <2>5, <2>6, Writers
\* How often it can have been given back.
<1>2. ASSUME NEW m \in Messages PROVE Returns(m)'
  <2>0. Returns(m)
    BY <1>f
  <2>k. ASSUME naks'[m] = naks[m], \A d \in Consumers : held'[d][m] = held[d][m] \/ held'[d][m] = 0
        PROVE  Returns(m)'
    <3>1. Low(m)' \subseteq Low(m)
      BY <1>t, <2>k DEF Low
    <3>2. QED
      BY <1>g, <2>0, <2>k, <3>1, ReturnsKept
  <2>1. ASSUME NEW c \in Consumers, Fetch(c) PROVE Returns(m)'
    <3>1. PICK S \in SUBSET {n \in Messages : mstate[n] = "available"} :
             /\ deliveries' = [n \in Messages |-> IF n \in S THEN deliveries[n] + 1 ELSE deliveries[n]]
             /\ held' = [held EXCEPT ![c] = [n \in Messages |-> IF n \in S THEN deliveries[n] + 1 ELSE 0]]
      BY <2>1 DEF Fetch
    <3>2. naks' = naks /\ \A d \in Consumers : d # c => held'[d] = held[d]
      BY <1>t, <2>1, <3>1 DEF Fetch, countVars
    <3>3. CASE m \notin S
      <4>1. held'[c][m] = 0
        BY <1>t, <3>1, <3>3
      <4>2. QED
        BY <2>k, <3>2, <4>1
    <3>4. CASE m \in S
      <4>1. held'[c][m] = deliveries[m] + 1 /\ deliveries'[m] = deliveries[m] + 1
        BY <1>t, <3>1, <3>4
      <4>2. held[c][m] = 0
        BY <1>h, <2>1 DEF Hand, Fetch
      <4>3. CASE deliveries[m] + 1 >= MaxDeliver
        <5>1. Low(m)' \subseteq Low(m)
          BY <1>t, <3>2, <4>1, <4>3 DEF Low
        <5>2. QED
          BY <1>g, <2>0, <3>2, <5>1, ReturnsKept
      <4>4. CASE deliveries[m] + 1 < MaxDeliver
        <5> DEFINE k == Cardinality(Low(m))
                   l == Cardinality(Low(m)')
        <5>1. c \notin Low(m) /\ Low(m)' = Low(m) \cup {c}
          BY <1>t, <3>2, <4>1, <4>2, <4>4 DEF Low
        <5>2. k \in Nat /\ l = k + 1
          BY <5>1, ConsumersCount DEF Low
        <5>3. naks[m] + k <= deliveries[m]
          BY <2>0 DEF Returns
        <5> HIDE DEF k, l
        <5>4. naks'[m] + l <= deliveries'[m] /\ naks'[m] + l <= MaxDeliver - 1
          BY <1>t, <3>2, <4>1, <4>4, <5>2, <5>3
        <5>5. QED
          BY <5>4 DEF l, Returns
      <4>5. QED
        BY <1>t, <4>3, <4>4
    <3>5. QED
      BY <3>3, <3>4
  <2>2. ASSUME NEW c \in Consumers, Nak(c) PROVE Returns(m)'
    <3>1. cur[c] \in Messages /\ held[c][cur[c]] > 0 /\ held[c][cur[c]] < MaxDeliver /\ Settled(c)
      BY <1>h, <2>2 DEF Hand, Nak
    <3>2. /\ \A d \in Consumers : d # c => held'[d] = held[d]
          /\ held'[c][cur[c]] = 0 /\ \A n \in Messages : n # cur[c] => held'[c][n] = held[c][n]
      BY <3>1, SettledMoves DEF Others
    <3>3. CASE m # cur[c]
      <4>1. naks'[m] = naks[m]
        BY <1>t, <2>2, <3>3 DEF Nak
      <4>2. QED
        BY <2>k, <3>2, <3>3, <4>1
    <3>4. CASE m = cur[c]
      <4> DEFINE k == Cardinality(Low(m))
                 l == Cardinality(Low(m)')
      <4>1. c \in Low(m) /\ Low(m)' = Low(m) \ {c}
        BY <1>t, <3>1, <3>2, <3>4 DEF Low
      <4>2. k \in Nat /\ l = k - 1
        BY <4>1, ConsumersCount DEF Low
      <4>3. naks'[m] = naks[m] + 1 /\ deliveries' = deliveries
        BY <1>t, <2>2, <3>4 DEF Nak
      <4>4. naks[m] + k <= deliveries[m] /\ naks[m] + k <= MaxDeliver - 1
        BY <2>0 DEF Returns
      <4> HIDE DEF k, l
      <4>5. naks'[m] + l <= deliveries'[m] /\ naks'[m] + l <= MaxDeliver - 1
        BY <1>t, <4>2, <4>3, <4>4
      <4>6. QED
        BY <4>5 DEF l, Returns
    <3>5. QED
      BY <3>3, <3>4
  <2>3. ASSUME NEW c \in Consumers, Ack(c) PROVE Returns(m)'
    <3>1. cur[c] \in Messages /\ Settled(c) /\ naks' = naks
      BY <1>h, <2>3 DEF Hand, Ack, countVars
    <3>2. /\ \A d \in Consumers : d # c => held'[d] = held[d]
          /\ held'[c][cur[c]] = 0 /\ \A n \in Messages : n # cur[c] => held'[c][n] = held[c][n]
      BY <3>1, SettledMoves DEF Others
    <3>3. QED
      BY <2>k, <3>1, <3>2
  <2>4. ASSUME NEW c \in Consumers, Abort(c) PROVE Returns(m)'
    BY <1>t, <2>k, <2>4 DEF Abort
  <2>5. CASE UNCHANGED <<held, naks>>
    BY <2>k, <2>5
  <2>6. UNCHANGED <<held, naks>> \/ \E c \in Consumers : Fetch(c) \/ Nak(c) \/ Ack(c) \/ Abort(c)
    BY DEF Next, ConsumerStep, HandlerSucceeds, HandlerFails, InboxRecord, DeadLetter,
           Handle, Arrive, AckWaitElapses, WindowCloses, procVars, countVars
  <2>7. QED
    BY <2>1, <2>2, <2>3, <2>4, <2>5, <2>6
<1>3. QED
  BY <1>1, <1>2 DEF FlowInv

----------------------------------------------------------------------------
(* Effects *)

LEMMA EffectTypes ==
  ASSUME TypeOK, NEW e \in Events
  PROVE  effects[e] \in Nat /\ unrecorded[e] \in Nat
  BY Types

\* A step that makes no process of e handle it once more, and loses no record of it.
LEMMA RepeatsKept ==
  ASSUME TypeOK, NEW e \in Events, Repeats(e), e \in inbox' <=> e \in inbox,
         effects'[e] = effects[e], unrecorded'[e] = unrecorded[e],
         e \notin inbox => At("recording", e) \subseteq At("recording", e)',
         e \in inbox => At("handling", e)' \subseteq At("handling", e)
  PROVE  Repeats(e)'
<1> DEFINE r == Cardinality(At("recording", e))
           s == Cardinality(At("recording", e)')
           h == Cardinality(At("handling", e))
           i == Cardinality(At("handling", e)')
<1>0. /\ At("recording", e) \subseteq Consumers /\ At("recording", e)' \subseteq Consumers
      /\ At("handling", e) \subseteq Consumers /\ At("handling", e)' \subseteq Consumers
  BY DEF At
<1>1. r \in Nat /\ s \in Nat /\ h \in Nat /\ i \in Nat /\ Cardinality(Consumers) \in Nat
  BY <1>0, ConsumersCount
<1>2. /\ e \notin inbox => r <= s
      /\ e \in inbox => i <= h
  BY <1>0, ConsumersCount
<1>3. effects[e] \in Nat /\ unrecorded[e] \in Nat
  BY EffectTypes
<1>4. /\ e \notin inbox => effects[e] <= unrecorded[e] + r
      /\ e \in inbox => effects[e] + h <= Cardinality(Consumers) + unrecorded[e]
  BY DEF Repeats
<1> HIDE DEF r, s, h, i
<1>5. /\ e \notin inbox => effects'[e] <= unrecorded'[e] + s
      /\ e \in inbox => effects'[e] + i <= Cardinality(Consumers) + unrecorded'[e]
  BY <1>1, <1>2, <1>3, <1>4
<1>6. QED
  BY <1>5 DEF s, i, Repeats

LEMMA EffectsStep ==
  ASSUME TypeOK, TypeOK', HandsInv, EffectsInv, Next
  PROVE  EffectsInv'
<1>t. /\ pc \in [Consumers -> Points] /\ cur \in [Consumers -> Messages \cup {NoMessage}]
      /\ effects \in [Events -> Nat] /\ unrecorded \in [Events -> Nat]
  BY Types
<1>h. \A c \in Consumers : Hand(c)
  BY DEF HandsInv
<1> SUFFICES ASSUME NEW e \in Events PROVE Repeats(e)'
  BY DEF EffectsInv
<1>e. Repeats(e) /\ effects[e] \in Nat /\ unrecorded[e] \in Nat
  BY EffectTypes DEF EffectsInv
<1>s. /\ At("recording", e) \subseteq Consumers /\ At("handling", e) \subseteq Consumers
      /\ Cardinality(At("recording", e)) \in Nat /\ Cardinality(At("handling", e)) \in Nat
      /\ Cardinality(Consumers) \in Nat
  BY ConsumersCount DEF At
\* A step of c that is not about e, or before e is handled and after it is recorded.
<1>q. ASSUME NEW c \in Consumers, \A d \in Consumers : d # c => pc'[d] = pc[d] /\ cur'[d] = cur[d],
             c \notin At("recording", e), e \in inbox => c \notin At("handling", e)',
             e \in inbox' <=> e \in inbox, effects'[e] = effects[e], unrecorded'[e] = unrecorded[e]
      PROVE  Repeats(e)'
  <2>1. At("recording", e) \subseteq At("recording", e)'
    BY <1>q DEF At
  <2>2. e \in inbox => At("handling", e)' \subseteq At("handling", e)
    BY <1>q DEF At
  <2>3. QED
    BY <1>e, <1>q, <2>1, <2>2, RepeatsKept
<1>1. CASE UNCHANGED procVars
  <2>1. At("recording", e)' = At("recording", e) /\ At("handling", e)' = At("handling", e)
    BY <1>1 DEF At, procVars
  <2>2. inbox' = inbox /\ effects' = effects /\ unrecorded' = unrecorded
    <3>1. /\ \A c \in Consumers : InboxRecord(c) \/ HandlerSucceeds(c) \/ Abort(c) => pc'[c] # pc[c]
      BY <1>t DEF InboxRecord, HandlerSucceeds, Abort, Goto
    <3>2. pc' = pc
      BY <1>1 DEF procVars
    <3>3. QED
      BY <3>1, <3>2, Writers
  <2>3. QED
    BY <1>e, <2>1, <2>2, RepeatsKept
<1>2. ASSUME NEW c \in Consumers, Fetch(c) PROVE Repeats(e)'
  <2>1. /\ \A d \in Consumers : d # c => pc'[d] = pc[d] /\ cur'[d] = cur[d]
        /\ pc[c] = "idle" /\ pc'[c] = "next" /\ UNCHANGED <<inbox, effects, unrecorded>>
    BY <1>t, <1>2 DEF Fetch, Goto, countVars
  <2>2. QED
    BY <1>q, <2>1 DEF At
<1>3. ASSUME NEW c \in Consumers, NEW m \in Messages, Handle(c, m) PROVE Repeats(e)'
  <2>1. /\ \A d \in Consumers : d # c => pc'[d] = pc[d] /\ cur'[d] = cur[d]
        /\ pc[c] = "next" /\ cur'[c] = m /\ UNCHANGED <<inbox, effects, unrecorded>>
        /\ pc'[c] = CASE IdOf[m] = Undecodable -> "parking"
                      [] IdOf[m] # Undecodable /\ Seen(IdOf[m]) -> "acking"
                      [] OTHER -> "handling"
    BY <1>t, <1>3 DEF Handle, Goto, countVars
  <2>2. pc'[c] = "handling" => IdOf[m] \notin inbox
    BY <2>1 DEF Seen
  <2>3. e \in inbox => c \notin At("handling", e)'
    BY <2>1, <2>2 DEF At
  <2>4. c \notin At("recording", e)
    BY <2>1 DEF At
  <2>5. QED
    BY <1>q, <2>1, <2>3, <2>4
<1>4. ASSUME NEW c \in Consumers, HandlerSucceeds(c) PROVE Repeats(e)'
  <2>1. /\ \A d \in Consumers : d # c => pc'[d] = pc[d]
        /\ pc[c] = "handling" /\ pc'[c] = "recording" /\ UNCHANGED <<cur, inbox, unrecorded>>
        /\ effects' = [effects EXCEPT ![IdOf[cur[c]]] = @ + 1]
    BY <1>t, <1>4 DEF HandlerSucceeds, Goto
  <2>2. CASE IdOf[cur[c]] # e
    <3>1. effects'[e] = effects[e]
      BY <1>t, <2>1, <2>2
    <3>2. QED
      BY <1>q, <2>1, <2>2, <3>1 DEF At
  <2>3. CASE IdOf[cur[c]] = e
    <3> DEFINE r == Cardinality(At("recording", e))
               s == Cardinality(At("recording", e)')
               h == Cardinality(At("handling", e))
               i == Cardinality(At("handling", e)')
    <3>1. /\ At("recording", e)' = At("recording", e) \cup {c} /\ c \notin At("recording", e)
          /\ At("handling", e)' = At("handling", e) \ {c} /\ c \in At("handling", e)
      BY <2>1, <2>3 DEF At
    <3>2. s = r + 1 /\ i = h - 1
      BY <1>s, <3>1, ConsumersCount
    <3>3. r \in Nat /\ h \in Nat /\ effects'[e] = effects[e] + 1
      BY <1>t, <1>s, <2>1, <2>3
    <3>4. /\ e \notin inbox => effects[e] <= unrecorded[e] + r
          /\ e \in inbox => effects[e] + h <= Cardinality(Consumers) + unrecorded[e]
      BY <1>e DEF Repeats
    <3> HIDE DEF r, s, h, i
    <3>5. /\ e \notin inbox => effects'[e] <= unrecorded[e] + s
          /\ e \in inbox => effects'[e] + i <= Cardinality(Consumers) + unrecorded[e]
      BY <1>e, <1>s, <3>2, <3>3, <3>4
    <3>6. QED
      BY <2>1, <3>5 DEF s, i, Repeats
  <2>4. QED
    BY <2>2, <2>3
<1>5. ASSUME NEW c \in Consumers, HandlerFails(c) PROVE Repeats(e)'
  <2>1. /\ \A d \in Consumers : d # c => pc'[d] = pc[d] /\ cur'[d] = cur[d]
        /\ pc[c] = "handling" /\ pc'[c] \in {"parking", "returning"} /\ UNCHANGED <<inbox, effects, unrecorded>>
    BY <1>t, <1>5 DEF HandlerFails, AfterFailure, Goto, countVars
  <2>2. QED
    BY <1>q, <2>1 DEF At
<1>6. ASSUME NEW c \in Consumers, InboxRecord(c) PROVE Repeats(e)'
  <2>1. /\ \A d \in Consumers : d # c => pc'[d] = pc[d]
        /\ pc[c] = "recording" /\ pc'[c] = "acking" /\ UNCHANGED <<cur, effects, unrecorded>>
        /\ inbox' = inbox \cup {IdOf[cur[c]]}
    BY <1>t, <1>6 DEF InboxRecord, Goto, countVars
  <2>2. At("handling", e)' = At("handling", e)
    BY <2>1 DEF At
  <2>3. CASE IdOf[cur[c]] # e
    BY <1>q, <2>1, <2>3 DEF At
  <2>4. CASE e \in inbox
    BY <1>e, <2>1, <2>2, <2>4, RepeatsKept
  <2>5. CASE IdOf[cur[c]] = e /\ e \notin inbox
    <3> DEFINE r == Cardinality(At("recording", e))
               h == Cardinality(At("handling", e))
               n == Cardinality(Consumers)
    <3>1. r + h <= n
      <4>1. At("recording", e) \cap At("handling", e) = {}
        BY DEF At
      <4>2. IsFiniteSet(Consumers)
        BY ConsumerAssumption
      <4>3. ~(r + h > n)
        BY <1>s, <4>1, <4>2, FS_MajoritiesIntersect
      <4> HIDE DEF r, h, n
      <4>4. r \in Nat /\ h \in Nat /\ n \in Nat
        BY <1>s DEF r, h, n
      <4>5. QED
        BY <4>3, <4>4
    <3>2. effects[e] <= unrecorded[e] + r
      BY <1>e, <2>5 DEF Repeats
    <3>3. r \in Nat /\ h \in Nat /\ n \in Nat
      BY <1>s
    <3> HIDE DEF r, h, n
    <3>4. effects[e] + h <= n + unrecorded[e]
      BY <1>e, <3>1, <3>2, <3>3
    <3>5. e \in inbox'
      BY <2>1, <2>5
    <3>6. QED
      BY <2>1, <2>2, <3>4, <3>5 DEF h, n, Repeats
  <2>6. QED
    BY <2>3, <2>4, <2>5
<1>7. ASSUME NEW c \in Consumers, DeadLetter(c) \/ Ack(c) \/ Nak(c) PROVE Repeats(e)'
  <2>1. pc[c] \in {"parking", "acking", "returning"} /\ UNCHANGED <<inbox, effects, unrecorded>>
    BY <1>7 DEF DeadLetter, Ack, Nak, countVars
  <2>2. /\ \A d \in Consumers : d # c => pc'[d] = pc[d] /\ cur'[d] = cur[d]
        /\ pc'[c] \in {"idle", "next", "acking"}
    <3>1. CASE DeadLetter(c)
      BY <1>t, <3>1 DEF DeadLetter, Goto
    <3>2. CASE Ack(c) \/ Nak(c)
      <4>1. cur[c] \in Messages /\ Settled(c)
        BY <1>h, <2>1, <3>2 DEF Hand, Ack, Nak
      <4>2. QED
        BY <4>1, SettledMoves DEF Others
    <3>3. QED
      BY <1>7, <3>1, <3>2
  <2>3. QED
    BY <1>q, <2>1, <2>2 DEF At
<1>8. ASSUME NEW c \in Consumers, Abort(c) PROVE Repeats(e)'
  <2>1. /\ \A d \in Consumers : d # c => pc'[d] = pc[d] /\ cur'[d] = cur[d]
        /\ pc'[c] = "idle" /\ UNCHANGED <<inbox, effects>>
        /\ unrecorded' = IF pc[c] = "recording" THEN [unrecorded EXCEPT ![IdOf[cur[c]]] = @ + 1] ELSE unrecorded
    BY <1>t, <1>8 DEF Abort, Goto
  <2>2. CASE c \notin At("recording", e)
    <3>1. unrecorded'[e] = unrecorded[e]
      BY <1>t, <2>1, <2>2 DEF At
    <3>2. QED
      BY <1>q, <2>1, <2>2, <3>1 DEF At
  <2>3. CASE c \in At("recording", e)
    <3> DEFINE r == Cardinality(At("recording", e))
               s == Cardinality(At("recording", e)')
               h == Cardinality(At("handling", e))
    <3>1. /\ At("recording", e)' = At("recording", e) \ {c}
          /\ At("handling", e)' = At("handling", e)
      BY <2>1, <2>3 DEF At
    <3>2. s = r - 1
      BY <1>s, <2>3, <3>1, ConsumersCount
    <3>3. r \in Nat /\ h \in Nat /\ unrecorded'[e] = unrecorded[e] + 1
      BY <1>t, <1>s, <2>1, <2>3 DEF At
    <3>4. /\ e \notin inbox => effects[e] <= unrecorded[e] + r
          /\ e \in inbox => effects[e] + h <= Cardinality(Consumers) + unrecorded[e]
      BY <1>e DEF Repeats
    <3> HIDE DEF r, s, h
    <3>5. /\ e \notin inbox => effects[e] <= unrecorded'[e] + s
          /\ e \in inbox => effects[e] + h <= Cardinality(Consumers) + unrecorded'[e]
      BY <1>e, <1>s, <3>2, <3>3, <3>4
    <3>6. QED
      BY <2>1, <3>1, <3>5 DEF s, h, Repeats
  <2>4. QED
    BY <2>2, <2>3
<1>9. QED
  BY <1>1, <1>2, <1>3, <1>4, <1>5, <1>6, <1>7, <1>8, Writers DEF ConsumerStep

----------------------------------------------------------------------------
(* The invariant *)

LEMMA ConsumerInit == Init => ConsumerInv
<1> SUFFICES ASSUME Init PROVE ConsumerInv
  OBVIOUS
<1>0. MaxDeliver \in Nat \ {0} /\ MaxFaults \in Nat
  BY ConsumerAssumption
<1>1. TypeOK
  BY <1>0 DEF Init, TypeOK
<1>2. HandsInv
  BY DEF Init, HandsInv, Hand
<1>3. SettledInv
  BY DEF Init, SettledInv, AckedIsHandledOrParked, ParkedAtItsLimit
<1>4. FlowInv
  <2>1. ASSUME NEW m \in Messages PROVE Flow(m)
    BY DEF Init, Flow, FlowOf
  <2>2. ASSUME NEW m \in Messages PROVE Returns(m)
    <3>1. Low(m) = {} /\ naks[m] = 0 /\ deliveries[m] = 0
      BY DEF Init, Low
    <3>2. Cardinality(Low(m)) = 0
      BY <3>1, FS_EmptySet
    <3>3. QED
      BY <1>0, <3>1, <3>2 DEF Returns
  <2>3. QED
    BY <2>1, <2>2 DEF FlowInv
<1>5. EffectsInv
  <2>1. ASSUME NEW e \in Events PROVE Repeats(e)
    <3>1. At("recording", e) = {} /\ effects[e] = 0 /\ unrecorded[e] = 0 /\ e \notin inbox
      BY DEF Init, At
    <3>2. Cardinality(At("recording", e)) = 0
      BY <3>1, FS_EmptySet
    <3>3. QED
      BY <3>1, <3>2 DEF Repeats
  <2>2. QED
    BY <2>1 DEF EffectsInv
<1>6. QED
  BY <1>1, <1>2, <1>3, <1>4, <1>5 DEF ConsumerInv

LEMMA ConsumerKeeps == ConsumerInv /\ [Next]_vars => ConsumerInv'
<1> SUFFICES ASSUME ConsumerInv, [Next]_vars PROVE ConsumerInv'
  OBVIOUS
<1>1. CASE Next
  <2>1. TypeOK'
    BY <1>1, TypeStep DEF ConsumerInv
  <2>2. HandsInv' /\ SettledInv' /\ FlowInv' /\ EffectsInv'
    BY <1>1, <2>1, HandsStep, SettledStep, FlowStep, EffectsStep DEF ConsumerInv
  <2>3. QED
    BY <2>1, <2>2 DEF ConsumerInv
<1>2. CASE UNCHANGED vars
  <2>1. UNCHANGED <<mstate, deliveries, dlq, dlqWindow, inbox, pc, cur, held, effects, unrecorded, lapses, naks, faults>>
    BY <1>2 DEF vars, brokerVars, procVars, countVars
  <2>2. TypeOK'
    BY <2>1 DEF ConsumerInv, TypeOK
  <2>3. HandsInv' /\ SettledInv'
    BY <2>1 DEF ConsumerInv, HandsInv, Hand, Parked, SettledInv, AckedIsHandledOrParked, ParkedAtItsLimit
  <2>4. FlowInv'
    BY <2>1 DEF ConsumerInv, FlowInv, Flow, Returns, Low
  <2>5. EffectsInv'
    BY <2>1 DEF ConsumerInv, EffectsInv, Repeats, At
  <2>6. QED
    BY <2>2, <2>3, <2>4, <2>5 DEF ConsumerInv
<1>3. QED
  BY <1>1, <1>2

LEMMA ConsumerAlways == Spec => []ConsumerInv
  BY ConsumerInit, ConsumerKeeps, PTL DEF Spec

\* Every variable keeps its type, and no message is delivered once too often.
THEOREM ConsumerTypeCorrect == Spec => []TypeOK
<1>1. ConsumerInv => TypeOK
  BY DEF ConsumerInv
<1>2. QED
  BY <1>1, ConsumerAlways, PTL

\* However many processes share the durable name, an acknowledged event was
\* handled and recorded, or is parked.
THEOREM AckCorrect == Spec => []AckedIsHandledOrParked
<1>1. ConsumerInv => AckedIsHandledOrParked
  BY DEF ConsumerInv, SettledInv
<1>2. QED
  BY <1>1, ConsumerAlways, PTL

\* A handler's effect happens at most once per process, and once more for each
\* record that was lost.
THEOREM EffectsCorrect == Spec => []EffectsBounded
<1>1. ConsumerInv => EffectsBounded
  <2>1. SUFFICES ASSUME ConsumerInv, NEW e \in Events
                 PROVE  effects[e] <= Cardinality(Consumers) + unrecorded[e]
    BY DEF EffectsBounded
  <2> DEFINE r == Cardinality(At("recording", e))
             h == Cardinality(At("handling", e))
             n == Cardinality(Consumers)
  <2>2. At("recording", e) \subseteq Consumers /\ At("handling", e) \subseteq Consumers
    BY DEF At
  <2>3. r \in Nat /\ h \in Nat /\ n \in Nat /\ r <= n
    BY <2>2, ConsumersCount
  <2>4. /\ e \notin inbox => effects[e] <= unrecorded[e] + r
        /\ e \in inbox => effects[e] + h <= n + unrecorded[e]
    BY <2>1 DEF ConsumerInv, EffectsInv, Repeats
  <2>5. effects[e] \in Nat /\ unrecorded[e] \in Nat
    BY <2>1, EffectTypes DEF ConsumerInv
  <2> HIDE DEF r, h, n
  <2>6. effects[e] <= n + unrecorded[e]
    BY <2>3, <2>4, <2>5
  <2>7. QED
    BY <2>6 DEF n
<1>2. QED
  BY <1>1, ConsumerAlways, PTL

\* A message the broker gave up missed two acknowledgements at least, for any
\* delivery limit.
THEOREM GivenUpCorrect == Spec => []GivenUpAfterTwoLapses
<1>1. ConsumerInv => GivenUpAfterTwoLapses
  <2>1. SUFFICES ASSUME ConsumerInv, NEW m \in Messages, mstate[m] = "given up" PROVE lapses[m] >= 2
    BY DEF GivenUpAfterTwoLapses
  <2> DEFINE k == Cardinality(Low(m))
  <2>2. k \in Nat
    BY ConsumersCount DEF Low
  <2>3. deliveries[m] = MaxDeliver + 1 /\ deliveries[m] <= naks[m] + lapses[m]
    BY <2>1 DEF ConsumerInv, FlowInv, Flow, FlowOf
  <2>4. naks[m] + k <= MaxDeliver - 1
    BY <2>1 DEF ConsumerInv, FlowInv, Returns
  <2>5. naks[m] \in Nat /\ lapses[m] \in Nat /\ MaxDeliver \in Nat
    BY <2>1, Types DEF ConsumerInv
  <2> HIDE DEF k
  <2>6. QED
    BY <2>2, <2>3, <2>4, <2>5
<1>2. QED
  BY <1>1, ConsumerAlways, PTL

\* A readable message is on the dead-letter subject only after max_deliver deliveries.
THEOREM ParkedCorrect == Spec => []ParkedAtItsLimit
<1>1. ConsumerInv => ParkedAtItsLimit
  BY DEF ConsumerInv, SettledInv
<1>2. QED
  BY <1>1, ConsumerAlways, PTL

----------------------------------------------------------------------------
(* The consumer as a stage of the event path *)

\* A message stays with the broker, and an acknowledgement stands.
LEMMA PlacesStand ==
  ASSUME TypeOK, Next, NEW m \in Messages
  PROVE  /\ mstate[m] # "absent" => mstate'[m] # "absent"
         /\ mstate[m] = "acked" => mstate'[m] = "acked"
<1>t. mstate \in [Messages -> MessageStates] /\ cur \in [Consumers -> Messages \cup {NoMessage}]
  BY Types
<1>1. ASSUME NEW c \in Consumers, Fetch(c) PROVE mstate'[m] = mstate[m] \/ (mstate[m] = "available" /\ mstate'[m] = "out")
  BY <1>t, <1>1 DEF Fetch
<1>2. ASSUME NEW c \in Consumers, Ack(c) PROVE mstate'[m] = mstate[m] \/ mstate'[m] = "acked"
  BY <1>t, <1>2 DEF Ack
<1>3. ASSUME NEW c \in Consumers, Nak(c)
      PROVE  mstate'[m] = mstate[m] \/ (mstate[m] = "out" /\ mstate'[m] \in {"available", "given up"})
  BY <1>t, <1>3 DEF Nak, Redelivered
<1>4. ASSUME NEW n \in Messages, Arrive(n) PROVE mstate'[m] = mstate[m] \/ (mstate[m] = "absent" /\ mstate'[m] = "available")
  BY <1>t, <1>4 DEF Arrive
<1>5. ASSUME NEW n \in Messages, AckWaitElapses(n)
      PROVE  mstate'[m] = mstate[m] \/ (mstate[m] = "out" /\ mstate'[m] \in {"available", "given up"})
  BY <1>t, <1>5 DEF AckWaitElapses, Redelivered
<1>6. QED
  BY <1>1, <1>2, <1>3, <1>4, <1>5, Writers

\* What a process holds has arrived.
LEMMA HeldHasArrived ==
  ASSUME ConsumerInv, NEW c \in Consumers, NEW m \in Messages, held[c][m] > 0
  PROVE  mstate[m] # "absent"
<1>1. held[c][m] \in Nat /\ deliveries[m] \in Nat
  <2>1. /\ held \in [Consumers -> [Messages -> 0 .. MaxDeliver + 1]]
        /\ deliveries \in [Messages -> 0 .. MaxDeliver + 1]
    BY Types DEF ConsumerInv
  <2>2. QED
    BY <2>1
<1>2. held[c][m] <= deliveries[m]
  BY DEF ConsumerInv, HandsInv, Hand
<1>3. mstate[m] = "absent" => deliveries[m] = 0
  BY DEF ConsumerInv, FlowInv, Flow, FlowOf
<1>4. QED
  BY <1>1, <1>2, <1>3

\* What was handled or parked arrived first.
HandledInv == Handled \subseteq InReach

\* The handler and the dead letters get only what a process holds.
LEMMA HandledNext ==
  ASSUME ConsumerInv, HandledInv, Next
  PROVE  Handled \subseteq Handled' /\ Handled' \subseteq InReach
<1>t. /\ effects \in [Events -> Nat] /\ cur \in [Consumers -> Messages \cup {NoMessage}]
      /\ dlq \subseteq Messages
  BY Types DEF ConsumerInv
<1>u. \A e \in Events : effects[e] \in Nat /\ effects'[e] \in Nat
  <2>1. effects' \in [Events -> Nat]
    BY ConsumerKeeps DEF ConsumerInv, TypeOK
  <2>2. QED
    BY <1>t, <2>1
<1>1. Handled \subseteq Handled'
  <2>1. \A e \in Events : effects[e] <= effects'[e] /\ (Parked(e) => Parked(e)')
    BY Grows DEF ConsumerInv
  <2>2. \A e \in Events : effects[e] > 0 \/ Parked(e) => effects'[e] > 0 \/ Parked(e)'
    BY <1>u, <2>1
  <2>3. \A e \in Events : effects[e] > 0 \/ Parked(e) => (effects[e] > 0 \/ Parked(e))'
    BY <2>2
  <2>4. QED
    BY <2>3 DEF Handled
<1>2. ASSUME NEW c \in Consumers, pc[c] \in {"handling", "parking"}
      PROVE  cur[c] \in Messages /\ mstate[cur[c]] # "absent"
  BY <1>2, HeldHasArrived DEF ConsumerInv, HandsInv, Hand
<1>3. ASSUME NEW e \in Events, effects'[e] > 0 PROVE e \in InReach
  <2>1. CASE effects' = effects
    BY <1>3, <2>1 DEF HandledInv, Handled
  <2>2. ASSUME NEW c \in Consumers, HandlerSucceeds(c) PROVE e \in InReach
    <3>1. e # IdOf[cur[c]] => effects'[e] = effects[e]
      BY <1>t, <2>2 DEF HandlerSucceeds
    <3>2. e = IdOf[cur[c]] => e \in InReach
      BY <1>2, <2>2 DEF HandlerSucceeds, InReach
    <3>3. QED
      BY <1>3, <3>1, <3>2 DEF HandledInv, Handled
  <2>3. QED
    BY <2>1, <2>2, Writers
<1>4. ASSUME NEW e \in Events, NEW m \in dlq', IdOf[m] = e PROVE e \in InReach
  <2>1. CASE m \in dlq
    BY <1>4, <2>1 DEF HandledInv, Handled, Parked
  <2>2. ASSUME NEW c \in Consumers, DeadLetter(c), m = cur[c] PROVE e \in InReach
    BY <1>2, <1>4, <2>2 DEF DeadLetter, InReach
  <2>3. m \in dlq \/ \E c \in Consumers : DeadLetter(c) /\ m = cur[c]
    BY <1>4, Writers DEF DeadLetter
  <2>4. QED
    BY <2>1, <2>2, <2>3
<1>5. Handled' \subseteq InReach
  BY <1>3, <1>4 DEF Handled, Parked
<1>6. QED
  BY <1>1, <1>5

\* An acknowledgement follows the handling or the parking.
LEMMA AckedNext ==
  ASSUME ConsumerInv, Next
  PROVE  Acked \subseteq Acked' /\ Acked' \subseteq Handled
<1>t. mstate \in [Messages -> MessageStates] /\ cur \in [Consumers -> Messages \cup {NoMessage}]
  BY Types DEF ConsumerInv
<1>1. Acked \subseteq Acked'
  BY PlacesStand DEF Acked, ConsumerInv
<1>2. ASSUME NEW e \in Events, e \in inbox \/ Parked(e) PROVE e \in Handled
  BY <1>2 DEF Handled, ConsumerInv, SettledInv
<1>3. ASSUME NEW m \in Messages, IdOf[m] \in Events, mstate'[m] = "acked" PROVE IdOf[m] \in Handled
  <2>0. IdOf[m] # Undecodable
    BY <1>3 DEF Events
  <2>1. CASE mstate[m] = "acked"
    BY <1>2, <1>3, <2>0, <2>1 DEF ConsumerInv, SettledInv, AckedIsHandledOrParked
  <2>2. ASSUME NEW c \in Consumers, Ack(c), m = cur[c] PROVE IdOf[m] \in Handled
    BY <1>2, <1>3, <2>0, <2>2 DEF Ack, ConsumerInv, HandsInv, Hand
  <2>3. mstate[m] = "acked" \/ \E c \in Consumers : Ack(c) /\ m = cur[c]
    <3>1. ASSUME NEW c \in Consumers, Ack(c), m # cur[c] PROVE mstate[m] = "acked"
      BY <1>t, <1>3, <3>1 DEF Ack
    <3>2. ASSUME NEW c \in Consumers, Fetch(c) \/ Nak(c) PROVE mstate[m] = "acked"
      BY <1>t, <1>3, <3>2 DEF Fetch, Nak, Redelivered
    <3>3. ASSUME NEW n \in Messages, Arrive(n) \/ AckWaitElapses(n) PROVE mstate[m] = "acked"
      BY <1>t, <1>3, <3>3 DEF Arrive, AckWaitElapses, Redelivered
    <3>4. QED
      BY <1>3, <3>1, <3>2, <3>3, Writers
  <2>4. QED
    BY <2>1, <2>2, <2>3
<1>4. QED
  BY <1>1, <1>3 DEF Acked

LEMMA StageStep ==
  ASSUME ConsumerInv, HandledInv, [Next]_vars
  PROVE  [Stage!Next]_Stage!stage /\ HandledInv'
<1>1. CASE Next
  <2>1. InReach \subseteq InReach' /\ InReach' \subseteq Events
    BY <1>1, PlacesStand DEF InReach, ConsumerInv
  <2>2. Handled \subseteq Handled' /\ Handled' \subseteq InReach
    BY <1>1, HandledNext
  <2>3. Acked \subseteq Acked' /\ Acked' \subseteq Handled
    BY <1>1, AckedNext
  <2>4. Stage!Next
    BY <2>1, <2>2, <2>3 DEF Stage!Next
  <2>5. HandledInv'
    BY <2>1, <2>2 DEF HandledInv
  <2>6. QED
    BY <2>4, <2>5
<1>2. CASE UNCHANGED vars
  <2>1. UNCHANGED <<mstate, dlq, effects>>
    BY <1>2 DEF vars, brokerVars, countVars
  <2>2. InReach' = InReach /\ Handled' = Handled /\ Acked' = Acked
    BY <2>1 DEF InReach, Handled, Acked, Parked
  <2>3. QED
    BY <2>2 DEF Stage!stage, HandledInv
<1>3. QED
  BY <1>1, <1>2

\* However messages are repeated, given back and lost track of: a process
\* handles or parks an event only after it arrived, an event is settled only
\* after that, and neither is taken back.
THEOREM ConsumerHandsOver == Spec => ImplementsHandOver
<1>1. Init => Stage!Init /\ HandledInv
  BY DEF Init, Stage!Init, InReach, Handled, Acked, Parked, HandledInv
<1>2. ConsumerInv /\ HandledInv /\ [Next]_vars => [Stage!Next]_Stage!stage /\ HandledInv'
  BY StageStep
<1>3. QED
  BY <1>1, <1>2, ConsumerAlways, PTL DEF Spec, ImplementsHandOver, Stage!Spec
=============================================================================
