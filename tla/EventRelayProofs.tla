------------------------- MODULE EventRelayProofs -------------------------
(***************************************************************************)
(* EventRelay, for any events, relays, batch size, attempt limit and       *)
(* number of faults: a published event is in the stream, the attempts of a *)
(* row are accounted for, and relays overlap on a row only after a fault.  *)
(***************************************************************************)
EXTENDS EventRelay, FiniteSetTheorems, TLAPS

\* The row at which a relay's loop is, if it holds any.
First(r, e) == e \in batch[r] /\ \A f \in batch[r] : e <= f
IdleInv == \A r \in Relays : pc[r] = "idle" => batch[r] = {}

\* What the broker remembers it has; what a relay saw accepted is in the stream.
StreamInv ==
    /\ \A e \in window : copies[e] > 0
    /\ \A r \in Relays, e \in Events : pc[r] = "accepted" /\ First(r, e) => copies[e] > 0
    /\ PublishedIsInStream

\* The relays whose attempt at e is still open: not the one that is failing it.
Open(e) == {r \in Relays : e \in batch[r] /\ ~(pc[r] = "failing" /\ First(r, e))}
Spent(e) == Cardinality(Open(e))
Budget(e) ==
    /\ refused[e] + Spent(e) <= attempts[e]
    /\ e \notin published => attempts[e] <= refused[e] + faults + Spent(e)
BudgetInv == \A e \in Events : Budget(e)

\* One relay holds a row under a claim that has not run out; each further one
\* took a fault.
Current(e) == IF e \in claimed \ lapsed THEN 1 ELSE 0
OverlapInv == \A e \in rows \ published : Cardinality(Holders(e)) <= faults + Current(e)

RelayInv == TypeOK /\ IdleInv /\ StreamInv /\ BudgetInv /\ OverlapInv

----------------------------------------------------------------------------
(* Types *)

Points == {"idle", "relaying", "accepted", "failing", "deferring"}

LEMMA Types ==
  ASSUME TypeOK
  PROVE  /\ rows \subseteq Events /\ published \subseteq rows /\ claimed \subseteq rows /\ lapsed \subseteq claimed
         /\ attempts \in [Events -> 0 .. MaxAttempts] /\ pc \in [Relays -> Points]
         /\ batch \in [Relays -> SUBSET rows] /\ late \in [Relays -> SUBSET rows]
         /\ copies \in [Events -> Nat] /\ window \subseteq Events
         /\ refused \in [Events -> Nat] /\ faults \in 0 .. MaxFaults
         /\ MaxAttempts \in Nat \ {0} /\ MaxFaults \in Nat /\ Events \subseteq Nat
         /\ \A e \in Events : attempts[e] \in Nat /\ refused[e] \in Nat /\ copies[e] \in Nat
         /\ faults \in Nat /\ \A r \in Relays : batch[r] \subseteq Events
<1>1. MaxAttempts \in Nat \ {0} /\ MaxFaults \in Nat /\ Events \subseteq Nat
  BY RelayAssumption
<1>2. attempts \in [Events -> 0 .. MaxAttempts] /\ faults \in 0 .. MaxFaults
  BY DEF TypeOK
<1>3. \A e \in Events : attempts[e] \in Nat
  BY <1>1, <1>2
<1>4. faults \in Nat
  BY <1>1, <1>2
<1>5. QED
  BY <1>1, <1>3, <1>4 DEF TypeOK, Points

\* A step of one relay: the others stay where they are.
Others(r) == \A q \in Relays : q # r => pc'[q] = pc[q] /\ batch'[q] = batch[q]

\* What Done does to the batches.
LEMMA DoneMoves ==
  ASSUME TypeOK, NEW r \in Relays, NEW S, Done(r, S)
  PROVE  /\ batch'[r] = batch[r] \ S /\ \A q \in Relays : q # r => batch'[q] = batch[q]
         /\ batch' \in [Relays -> SUBSET rows] /\ late' \in [Relays -> SUBSET rows]
  BY Types DEF Done

LEMMA FaultTyped ==
  ASSUME TypeOK, UseFault
  PROVE  faults' \in 0 .. MaxFaults /\ faults' = faults + 1
  BY Types DEF UseFault

LEMMA BatchBounds ==
  ASSUME TypeOK
  PROVE  \A e \in Oldest({f \in Events : Claimable(f)}) :
            e \in rows \ published /\ e \in Events /\ attempts[e] < MaxAttempts /\ (e \in claimed => e \in lapsed)
  BY DEF Oldest, Claimable

LEMMA TypeStep ==
  ASSUME TypeOK, Next
  PROVE  TypeOK'
<1>t. /\ rows \subseteq Events /\ published \subseteq rows /\ claimed \subseteq rows /\ lapsed \subseteq claimed
      /\ attempts \in [Events -> 0 .. MaxAttempts] /\ pc \in [Relays -> Points]
      /\ batch \in [Relays -> SUBSET rows] /\ late \in [Relays -> SUBSET rows]
      /\ copies \in [Events -> Nat] /\ window \subseteq Events
      /\ refused \in [Events -> Nat] /\ faults \in 0 .. MaxFaults
      /\ MaxAttempts \in Nat \ {0}
  BY Types
<1>d. ASSUME rows' \subseteq Events, published' \subseteq rows', claimed' \subseteq rows', lapsed' \subseteq claimed',
             attempts' \in [Events -> 0 .. MaxAttempts], pc' \in [Relays -> Points],
             batch' \in [Relays -> SUBSET rows'], late' \in [Relays -> SUBSET rows'],
             copies' \in [Events -> Nat], window' \subseteq Events,
             refused' \in [Events -> Nat], faults' \in 0 .. MaxFaults
      PROVE  TypeOK'
  BY <1>d DEF TypeOK, Points
<1>1. ASSUME NEW e \in Events, Enqueue(e) PROVE TypeOK'
  BY <1>t, <1>d, <1>1 DEF Enqueue, brokerVars
<1>2. ASSUME NEW r \in Relays, ClaimBatch(r) PROVE TypeOK'
  <2> DEFINE B == Oldest({e \in Events : Claimable(e)})
  <2>1. /\ attempts' = [e \in Events |-> IF e \in B THEN attempts[e] + 1 ELSE attempts[e]]
        /\ claimed' = claimed \cup B /\ lapsed' = lapsed \ B /\ batch' = [batch EXCEPT ![r] = B]
        /\ UNCHANGED <<rows, published, late, copies, window, refused, faults>>
    BY <1>2 DEF ClaimBatch, brokerVars
  <2>2. /\ B \subseteq rows /\ \A e \in B : e \in Events /\ attempts[e] < MaxAttempts
    BY BatchBounds
  <2> HIDE DEF B
  <2>3. attempts' \in [Events -> 0 .. MaxAttempts]
    BY <1>t, <2>1, <2>2
  <2>4. pc' \in [Relays -> Points]
    BY <1>t, <1>2 DEF ClaimBatch, Goto, Points
  <2>5. batch' \in [Relays -> SUBSET rows] /\ claimed' \subseteq rows /\ lapsed' \subseteq claimed'
    BY <1>t, <2>1, <2>2
  <2>6. QED
    BY <1>t, <1>d, <2>1, <2>3, <2>4, <2>5
<1>3. ASSUME NEW r \in Relays, MarkFails(r) \/ Unavailable(r) PROVE TypeOK'
  <2>1. pc' \in [Relays -> Points] /\ faults' \in 0 .. MaxFaults
    BY <1>t, <1>3, FaultTyped DEF MarkFails, Unavailable, Goto, Points
  <2>2. QED
    BY <1>t, <1>d, <1>3, <2>1 DEF MarkFails, Unavailable, rowVars, brokerVars
<1>4. ASSUME NEW r \in Relays, Defer(r) PROVE TypeOK'
  <2>1. Done(r, batch[r]) /\ pc' \in [Relays -> Points]
    BY <1>t, <1>4 DEF Defer, Goto, Points
  <2>2. attempts' \in [Events -> 0 .. MaxAttempts]
    <3>1. \A n \in 0 .. MaxAttempts : Refund(n) \in 0 .. MaxAttempts
      BY <1>t DEF Refund
    <3>2. QED
      BY <1>t, <1>4, <3>1 DEF Defer
  <2>3. QED
    BY <1>t, <1>d, <1>4, <2>1, <2>2, DoneMoves DEF Defer, brokerVars
<1>5. ASSUME NEW r \in Relays, Crash(r) PROVE TypeOK'
  <2>1. Done(r, batch[r]) /\ pc' \in [Relays -> Points] /\ faults' \in 0 .. MaxFaults
    BY <1>t, <1>5, FaultTyped DEF Crash, Goto, Points
  <2>2. QED
    BY <1>t, <1>d, <1>5, <2>1, DoneMoves DEF Crash, rowVars, brokerVars
<1>6. ASSUME NEW r \in Relays, NEW e \in Events, Accepted(r, e) \/ TimesOut(r, e) PROVE TypeOK'
  <2>1. pc' \in [Relays -> Points] /\ faults' \in 0 .. MaxFaults
    BY <1>t, <1>6, FaultTyped DEF Accepted, TimesOut, AfterTimeout, Goto, Points
  <2>2. copies' \in [Events -> Nat] /\ window' \subseteq Events
    BY <1>t, <1>6 DEF Accepted, TimesOut, Lands, brokerVars
  <2>3. QED
    BY <1>t, <1>d, <1>6, <2>1, <2>2 DEF Accepted, TimesOut, rowVars
<1>7. ASSUME NEW r \in Relays, NEW e \in Events, MarkPublished(r, e) \/ MarkFailed(r, e) PROVE TypeOK'
  <2>1. Done(r, {e}) /\ pc' \in [Relays -> Points] /\ e \in rows
    BY <1>t, <1>7 DEF MarkPublished, MarkFailed, Goto, Points
  <2>2. CASE MarkPublished(r, e)
    BY <1>t, <1>d, <2>1, <2>2, DoneMoves DEF MarkPublished, brokerVars
  <2>3. CASE MarkFailed(r, e)
    BY <1>t, <1>d, <2>1, <2>3, DoneMoves DEF MarkFailed, brokerVars
  <2>4. QED
    BY <1>7, <2>2, <2>3
<1>8. ASSUME NEW r \in Relays, NEW e \in Events, Refused(r, e) PROVE TypeOK'
  <2>1. pc' \in [Relays -> Points] /\ refused' \in [Events -> Nat]
    BY <1>t, <1>8 DEF Refused, Goto, Points
  <2>2. QED
    BY <1>t, <1>d, <1>8, <2>1 DEF Refused, rowVars, brokerVars
<1>9. ASSUME NEW e \in Events, LeaseLapses(e) PROVE TypeOK'
  <2>1. faults' \in 0 .. MaxFaults
    BY <1>t, <1>9, FaultTyped DEF LeaseLapses
  <2>2. late' \in [Relays -> SUBSET rows]
    BY <1>t, <1>9 DEF LeaseLapses
  <2>3. QED
    BY <1>t, <1>d, <1>9, <2>1, <2>2 DEF LeaseLapses, brokerVars
<1>10. ASSUME NEW e \in Events, WindowCloses(e) PROVE TypeOK'
  BY <1>t, <1>d, <1>10 DEF WindowCloses, rowVars
<1>11. QED
  BY <1>1, <1>2, <1>3, <1>4, <1>5, <1>6, <1>7, <1>8, <1>9, <1>10 DEF Next, RelayStep

----------------------------------------------------------------------------
(* Relays and the stream *)

LEMMA IdleStep ==
  ASSUME TypeOK, IdleInv, Next
  PROVE  IdleInv'
<1>t. pc \in [Relays -> Points] /\ batch \in [Relays -> SUBSET rows]
  BY Types
<1> SUFFICES ASSUME NEW q \in Relays, pc'[q] = "idle" PROVE batch'[q] = {}
  BY DEF IdleInv
<1>1. ASSUME NEW r \in Relays, ClaimBatch(r) PROVE batch'[q] = {}
  BY <1>t, <1>1 DEF ClaimBatch, Goto, IdleInv
<1>2. ASSUME NEW r \in Relays, Defer(r) \/ Crash(r) PROVE batch'[q] = {}
  <2>1. Done(r, batch[r]) /\ \A p \in Relays : p # r => pc'[p] = pc[p]
    BY <1>t, <1>2 DEF Defer, Crash, Goto
  <2>2. QED
    BY <2>1, DoneMoves DEF IdleInv
<1>3. ASSUME NEW r \in Relays, NEW e \in Events, MarkPublished(r, e) \/ MarkFailed(r, e) PROVE batch'[q] = {}
  <2>1. /\ Done(r, {e}) /\ \A p \in Relays : p # r => pc'[p] = pc[p]
        /\ pc'[r] = "idle" => batch[r] = {e}
    BY <1>t, <1>3 DEF MarkPublished, MarkFailed, Goto
  <2>2. QED
    BY <2>1, DoneMoves DEF IdleInv
<1>4. ASSUME NEW r \in Relays,
             \/ MarkFails(r) \/ Unavailable(r)
             \/ \E e \in Events : Accepted(r, e) \/ Refused(r, e) \/ TimesOut(r, e)
      PROVE  batch'[q] = {}
  <2>1. batch' = batch /\ pc'[r] # "idle" /\ \A p \in Relays : p # r => pc'[p] = pc[p]
    BY <1>t, <1>4 DEF MarkFails, Unavailable, Accepted, Refused, TimesOut, AfterTimeout, Goto
  <2>2. QED
    BY <2>1 DEF IdleInv
<1>5. ASSUME NEW e \in Events, Enqueue(e) \/ LeaseLapses(e) \/ WindowCloses(e) PROVE batch'[q] = {}
  BY <1>5 DEF Enqueue, LeaseLapses, WindowCloses, IdleInv
<1>6. QED
  BY <1>1, <1>2, <1>3, <1>4, <1>5 DEF Next, RelayStep

\* The stream only gains copies.
LEMMA StreamGrows ==
  ASSUME TypeOK, Next
  PROVE  \A e \in Events : copies[e] > 0 => copies'[e] > 0
<1>1. CASE copies' = copies
  BY <1>1
<1>2. ASSUME NEW f \in Events, Lands(f) PROVE \A e \in Events : copies[e] > 0 => copies'[e] > 0
  BY <1>2, Types DEF Lands
<1>3. copies' = copies \/ \E f \in Events : Lands(f)
  BY DEF Next, RelayStep, Enqueue, ClaimBatch, MarkFails, Unavailable, Defer, Crash, Accepted, MarkPublished,
         Refused, MarkFailed, TimesOut, LeaseLapses, WindowCloses, brokerVars
<1>4. QED
  BY <1>1, <1>2, <1>3

LEMMA LandsInStream ==
  ASSUME TypeOK, StreamInv, NEW e \in Events, Lands(e)
  PROVE  copies'[e] > 0 /\ window' = window \cup {e}
  BY Types DEF Lands, StreamInv

\* A relay at an accepted row got there by its own step, or is where it was.
LEMMA FirstKept ==
  ASSUME NEW r, NEW e, batch'[r] = batch[r]
  PROVE  First(r, e)' <=> First(r, e)
  BY DEF First

LEMMA StreamStep ==
  ASSUME TypeOK, TypeOK', StreamInv, Next
  PROVE  StreamInv'
<1>t. /\ pc \in [Relays -> Points] /\ batch \in [Relays -> SUBSET rows] /\ rows \subseteq Events
      /\ Events \subseteq Nat /\ published \subseteq rows /\ \A r \in Relays : batch[r] \subseteq Events
  BY Types
<1>g. \A e \in Events : copies[e] > 0 => copies'[e] > 0
  BY StreamGrows
<1>a. \A r \in Relays, e \in Events : pc[r] = "accepted" /\ First(r, e) => copies'[e] > 0
  BY <1>g DEF StreamInv
\* The window.
<1>1. ASSUME NEW e \in window' PROVE copies'[e] > 0
  <2>1. CASE e \in window
    BY <1>g, <2>1, Types DEF StreamInv
  <2>2. ASSUME NEW f \in Events, Lands(f), e \notin window PROVE copies'[e] > 0
    BY <1>1, <2>2, LandsInStream
  <2>3. window' \subseteq window \/ \E f \in Events : Lands(f)
    BY DEF Next, RelayStep, Enqueue, ClaimBatch, MarkFails, Unavailable, Defer, Crash, Accepted, MarkPublished,
           Refused, MarkFailed, TimesOut, LeaseLapses, WindowCloses, brokerVars
  <2>4. QED
    BY <1>1, <2>1, <2>2, <2>3
\* What was accepted.
<1>2. ASSUME NEW q \in Relays, NEW f \in Events, pc'[q] = "accepted", First(q, f)' PROVE copies'[f] > 0
  <2>1. ASSUME NEW r \in Relays, NEW e \in Events, Accepted(r, e) PROVE copies'[f] > 0
    <3>1. batch' = batch /\ First(r, e) /\ Lands(e) /\ \A p \in Relays : p # r => pc'[p] = pc[p]
      BY <1>t, <2>1 DEF Accepted, Publishing, First, Goto
    <3>2. CASE q = r
      <4>1. First(r, f)
        BY <1>2, <3>1, <3>2, FirstKept
      <4>2. f = e
        BY <1>t, <3>1, <4>1 DEF First
      <4>3. QED
        BY <3>1, <4>2, LandsInStream
    <3>3. CASE q # r
      BY <1>a, <1>2, <3>1, <3>3, FirstKept
    <3>4. QED
      BY <3>2, <3>3
  <2>2. ASSUME NEW r \in Relays, RelayStep(r), ~ \E e \in Events : Accepted(r, e) PROVE copies'[f] > 0
    <3>1. pc'[r] # "accepted" /\ \A p \in Relays : p # r => pc'[p] = pc[p]
      BY <1>t, <2>2 DEF RelayStep, ClaimBatch, MarkFails, Unavailable, Defer, Crash, MarkPublished,
                        Refused, MarkFailed, TimesOut, AfterTimeout, Goto
    <3>2. \A p \in Relays : p # r => batch'[p] = batch[p]
      BY <1>t, <2>2 DEF RelayStep, ClaimBatch, MarkFails, Unavailable, Defer, Crash, MarkPublished,
                        Refused, MarkFailed, TimesOut, Done
    <3>3. QED
      BY <1>a, <1>2, <3>1, <3>2, FirstKept
  <2>3. CASE UNCHANGED <<pc, batch>>
    BY <1>a, <1>2, <2>3, FirstKept
  <2>4. QED
    BY <2>1, <2>2, <2>3 DEF Next, Enqueue, LeaseLapses, WindowCloses
\* What is published.
<1>3. ASSUME NEW f \in published' PROVE copies'[f] > 0
  <2>1. CASE f \in published
    BY <1>g, <1>t, <2>1 DEF StreamInv, PublishedIsInStream
  <2>2. ASSUME NEW r \in Relays, NEW e \in Events, MarkPublished(r, e), f \notin published PROVE copies'[f] > 0
    <3>1. pc[r] = "accepted" /\ First(r, e) /\ f = e
      BY <1>3, <2>2 DEF MarkPublished, First
    <3>2. QED
      BY <1>a, <3>1
  <2>3. published' = published \/ \E r \in Relays, e \in Events : MarkPublished(r, e)
    BY DEF Next, RelayStep, Enqueue, ClaimBatch, MarkFails, Unavailable, Defer, Crash, Accepted,
           Refused, MarkFailed, TimesOut, LeaseLapses, WindowCloses, rowVars
  <2>4. QED
    BY <1>3, <2>1, <2>2, <2>3
<1>4. (\A r \in Relays, e \in Events : pc[r] = "accepted" /\ First(r, e) => copies[e] > 0)'
  BY <1>2
<1>5. QED
  BY <1>1, <1>3, <1>4 DEF StreamInv, PublishedIsInStream

----------------------------------------------------------------------------
(* Attempts *)

LEMMA RelaysCount ==
  ASSUME NEW S, S \subseteq Relays
  PROVE  /\ Cardinality(S) \in Nat
         /\ \A T \in SUBSET S : Cardinality(T) \in Nat /\ Cardinality(T) <= Cardinality(S)
         /\ \A r \in S : Cardinality(S \ {r}) = Cardinality(S) - 1
         /\ \A r : r \notin S => Cardinality(S \cup {r}) = Cardinality(S) + 1
<1>1. IsFiniteSet(S)
  BY RelayAssumption, FS_Subset
<1>2. Cardinality(S) \in Nat
  BY <1>1, FS_CardinalityType
<1>3. \A T \in SUBSET S : Cardinality(T) \in Nat /\ Cardinality(T) <= Cardinality(S)
  BY <1>1, FS_Subset, FS_CardinalityType
<1>4. \A r \in S : Cardinality(S \ {r}) = Cardinality(S) - 1
  BY <1>1, FS_RemoveElement
<1>5. \A r : r \notin S => Cardinality(S \cup {r}) = Cardinality(S) + 1
  BY <1>1, FS_AddElement
<1>6. QED
  BY <1>2, <1>3, <1>4, <1>5

LEMMA BudgetTypes ==
  ASSUME TypeOK, NEW e \in Events
  PROVE  refused[e] \in Nat /\ attempts[e] \in Nat /\ faults \in Nat /\ Spent(e) \in Nat
  BY Types, RelaysCount DEF Spent, Open

\* The open attempts at e are the same, and nothing that bounds them is less.
LEMMA BudgetKept ==
  ASSUME TypeOK, TypeOK', NEW e \in Events, Budget(e), Open(e)' = Open(e),
         refused'[e] = refused[e], attempts'[e] = attempts[e],
         faults' = faults \/ faults' = faults + 1, e \in published => e \in published'
  PROVE  Budget(e)'
<1>1. refused[e] \in Nat /\ attempts[e] \in Nat /\ faults \in Nat /\ Spent(e) \in Nat /\ Spent(e)' = Spent(e)
  BY BudgetTypes DEF Spent
<1>2. QED
  BY <1>1 DEF Budget

\* An attempt at e is closed: refused, lost to a fault, given back, or rewarded.
LEMMA BudgetCloses ==
  ASSUME TypeOK, TypeOK', NEW e \in Events, Budget(e), NEW r \in Open(e), Open(e)' = Open(e) \ {r},
         e \in published => e \in published',
         \/ refused'[e] = refused[e] + 1 /\ attempts'[e] = attempts[e] /\ faults' = faults
         \/ refused'[e] = refused[e] /\ attempts'[e] = attempts[e] /\ faults' = faults + 1
         \/ refused'[e] = refused[e] /\ attempts'[e] = attempts[e] - 1 /\ faults' = faults
         \/ refused'[e] = refused[e] /\ attempts'[e] = attempts[e] /\ faults' = faults /\ e \in published'
  PROVE  Budget(e)'
<1>1. refused[e] \in Nat /\ attempts[e] \in Nat /\ faults \in Nat /\ Spent(e) \in Nat
  BY BudgetTypes
<1>2. Spent(e)' = Spent(e) - 1
  BY RelaysCount DEF Spent, Open
<1>3. /\ refused[e] + Spent(e) <= attempts[e]
      /\ e \notin published => attempts[e] <= refused[e] + faults + Spent(e)
  BY DEF Budget
<1>4. /\ refused'[e] + Spent(e)' <= attempts'[e]
      /\ e \notin published' => attempts'[e] <= refused'[e] + faults' + Spent(e)'
  BY <1>1, <1>2, <1>3
<1>5. QED
  BY <1>4 DEF Budget

\* Only the relay that steps can open or close an attempt.
LEMMA OthersOpen ==
  ASSUME NEW r \in Relays, Others(r), NEW e
  PROVE  \A q \in Relays : q # r => (q \in Open(e)' <=> q \in Open(e))
  BY DEF Others, Open, First

LEMMA BudgetStep ==
  ASSUME TypeOK, TypeOK', IdleInv, BudgetInv, Next
  PROVE  BudgetInv'
<1>t. /\ pc \in [Relays -> Points] /\ batch \in [Relays -> SUBSET rows] /\ Events \subseteq Nat
      /\ attempts \in [Events -> 0 .. MaxAttempts] /\ refused \in [Events -> Nat] /\ published \subseteq rows
      /\ \A r \in Relays : batch[r] \subseteq Events
  BY Types
<1> SUFFICES ASSUME NEW e \in Events PROVE Budget(e)'
  BY DEF BudgetInv
<1>e. Budget(e)
  BY DEF BudgetInv
\* A step of r that leaves the attempts at e as they are.
<1>q. ASSUME NEW r \in Relays, Others(r), r \in Open(e)' <=> r \in Open(e),
             refused'[e] = refused[e], attempts'[e] = attempts[e],
             faults' = faults \/ faults' = faults + 1, e \in published => e \in published'
      PROVE  Budget(e)'
  <2>1. Open(e)' = Open(e)
    <3>1. \A q \in Relays : q \in Open(e)' <=> q \in Open(e)
      BY <1>q, OthersOpen
    <3>2. Open(e) \subseteq Relays /\ Open(e)' \subseteq Relays
      BY DEF Open
    <3>3. QED
      BY <3>1, <3>2
  <2>2. QED
    BY <1>e, <1>q, <2>1, BudgetKept
\* A step of r that closes its attempt.
<1>c. ASSUME NEW r \in Relays, Others(r), r \in Open(e), r \notin Open(e)', e \in published => e \in published',
         \/ refused'[e] = refused[e] + 1 /\ attempts'[e] = attempts[e] /\ faults' = faults
         \/ refused'[e] = refused[e] /\ attempts'[e] = attempts[e] /\ faults' = faults + 1
         \/ refused'[e] = refused[e] /\ attempts'[e] = attempts[e] - 1 /\ faults' = faults
         \/ refused'[e] = refused[e] /\ attempts'[e] = attempts[e] /\ faults' = faults /\ e \in published'
      PROVE  Budget(e)'
  <2>1. Open(e)' = Open(e) \ {r}
    <3>1. \A q \in Relays : q # r => (q \in Open(e)' <=> q \in Open(e))
      BY <1>c, OthersOpen
    <3>2. Open(e) \subseteq Relays /\ Open(e)' \subseteq Relays
      BY DEF Open
    <3>3. QED
      BY <1>c, <3>1, <3>2
  <2>2. QED
    BY <1>e, <1>c, <2>1, BudgetCloses
<1>1. ASSUME NEW f \in Events, Enqueue(f) \/ LeaseLapses(f) \/ WindowCloses(f) PROVE Budget(e)'
  <2>1. UNCHANGED <<pc, batch, refused, attempts, published>> /\ (faults' = faults \/ faults' = faults + 1)
    BY <1>1, FaultTyped DEF Enqueue, LeaseLapses, WindowCloses, rowVars
  <2>2. Open(e)' = Open(e)
    BY <2>1 DEF Open, First
  <2>3. QED
    BY <1>e, <2>1, <2>2, BudgetKept
<1>2. ASSUME NEW r \in Relays, ClaimBatch(r) PROVE Budget(e)'
  <2> DEFINE B == Oldest({f \in Events : Claimable(f)})
  <2>1. /\ Others(r) /\ pc'[r] = "relaying" /\ batch'[r] = B /\ batch[r] = {}
        /\ attempts' = [f \in Events |-> IF f \in B THEN attempts[f] + 1 ELSE attempts[f]]
        /\ UNCHANGED <<refused, faults, published>>
    BY <1>t, <1>2 DEF ClaimBatch, Goto, Others, IdleInv
  <2> HIDE DEF B
  <2>2. r \notin Open(e) /\ (r \in Open(e)' <=> e \in B)
    BY <2>1 DEF Open
  <2>3. CASE e \notin B
    BY <1>q, <2>1, <2>2, <2>3
  <2>4. CASE e \in B
    <3>1. Open(e)' = Open(e) \cup {r}
      <4>1. \A q \in Relays : q # r => (q \in Open(e)' <=> q \in Open(e))
        BY <2>1, OthersOpen
      <4>2. Open(e) \subseteq Relays /\ Open(e)' \subseteq Relays
        BY DEF Open
      <4>3. QED
        BY <2>2, <2>4, <4>1, <4>2
    <3>2. Spent(e)' = Spent(e) + 1
      BY <2>2, <3>1, RelaysCount DEF Spent, Open
    <3>3. attempts'[e] = attempts[e] + 1
      BY <2>1, <2>4
    <3>4. refused[e] \in Nat /\ attempts[e] \in Nat /\ faults \in Nat /\ Spent(e) \in Nat
      BY BudgetTypes
    <3>5. /\ refused'[e] + Spent(e)' <= attempts'[e]
          /\ e \notin published' => attempts'[e] <= refused'[e] + faults' + Spent(e)'
      BY <1>e, <2>1, <3>2, <3>3, <3>4 DEF Budget
    <3>6. QED
      BY <3>5 DEF Budget
  <2>5. QED
    BY <2>3, <2>4
<1>3. ASSUME NEW r \in Relays, Unavailable(r) PROVE Budget(e)'
  <2>1. /\ Others(r) /\ pc[r] = "relaying" /\ pc'[r] = "deferring" /\ batch' = batch
        /\ UNCHANGED <<refused, faults, published, attempts>>
    BY <1>t, <1>3 DEF Unavailable, Goto, Others, rowVars
  <2>2. QED
    BY <1>q, <2>1 DEF Open
<1>4. ASSUME NEW r \in Relays, MarkFails(r) PROVE Budget(e)'
  <2>1. /\ Others(r) /\ pc[r] = "accepted" /\ pc'[r] = "failing" /\ batch' = batch
        /\ faults' = faults + 1 /\ UNCHANGED <<refused, published, attempts>>
    BY <1>t, <1>4, FaultTyped DEF MarkFails, Goto, Others, rowVars
  <2>2. First(r, e)' <=> First(r, e)
    BY <2>1, FirstKept
  <2>3. CASE First(r, e)
    <3>1. r \in Open(e) /\ r \notin Open(e)'
      BY <2>1, <2>2, <2>3 DEF Open, First
    <3>2. QED
      BY <1>c, <2>1, <3>1
  <2>4. CASE ~First(r, e)
    BY <1>q, <2>1, <2>2, <2>4 DEF Open
  <2>5. QED
    BY <2>3, <2>4
<1>5. ASSUME NEW r \in Relays, Defer(r) PROVE Budget(e)'
  <2>1. /\ Others(r) /\ pc[r] = "deferring" /\ pc'[r] = "idle" /\ batch'[r] = {}
        /\ attempts' = [f \in Events |-> IF f \in Returned(r) THEN Refund(attempts[f]) ELSE attempts[f]]
        /\ UNCHANGED <<refused, faults, published>>
    <3>1. Done(r, batch[r])
      BY <1>5 DEF Defer
    <3>2. QED
      BY <1>t, <1>5, <3>1, DoneMoves DEF Defer, Goto, Others
  <2>2. (r \in Open(e) <=> e \in batch[r]) /\ r \notin Open(e)'
    BY <2>1 DEF Open
  <2>3. CASE e \notin batch[r]
    <3>1. attempts'[e] = attempts[e]
      BY <2>1, <2>3 DEF Returned
    <3>2. QED
      BY <1>q, <2>1, <2>2, <2>3, <3>1
  <2>4. CASE e \in batch[r] /\ e \in published
    <3>1. attempts'[e] = attempts[e]
      BY <2>1, <2>4 DEF Returned
    <3>2. QED
      BY <1>c, <2>1, <2>2, <2>4, <3>1
  <2>5. CASE e \in batch[r] /\ e \notin published
    <3>1. refused[e] \in Nat /\ attempts[e] \in Nat /\ faults \in Nat /\ Spent(e) \in Nat
      BY BudgetTypes
    <3>2. Spent(e) # 0
      <4>1. Open(e) \subseteq Relays /\ r \in Open(e)
        BY <2>2, <2>5 DEF Open
      <4>2. IsFiniteSet(Open(e)) /\ Open(e) # {}
        BY <4>1, RelayAssumption, FS_Subset
      <4>3. QED
        BY <4>2, FS_EmptySet DEF Spent
    <3>3. attempts[e] > 0
      BY <1>e, <3>1, <3>2 DEF Budget
    <3>4. attempts'[e] = attempts[e] - 1
      BY <2>1, <2>5, <3>1, <3>3 DEF Returned, Refund
    <3>5. QED
      BY <1>c, <2>1, <2>2, <2>5, <3>4
  <2>6. QED
    BY <2>3, <2>4, <2>5
<1>6. ASSUME NEW r \in Relays, Crash(r) PROVE Budget(e)'
  <2>1. /\ Others(r) /\ batch'[r] = {} /\ faults' = faults + 1
        /\ UNCHANGED <<refused, attempts, published>>
    <3>1. Done(r, batch[r])
      BY <1>6 DEF Crash
    <3>2. QED
      BY <1>t, <1>6, <3>1, DoneMoves, FaultTyped DEF Crash, Goto, Others, rowVars
  <2>2. r \notin Open(e)'
    BY <2>1 DEF Open
  <2>3. QED
    BY <1>q, <1>c, <2>1, <2>2
<1>7. ASSUME NEW r \in Relays, NEW f \in Events, Accepted(r, f) \/ TimesOut(r, f) PROVE Budget(e)'
  <2>1. /\ Others(r) /\ pc[r] = "relaying" /\ pc'[r] \in {"accepted", "deferring"} /\ batch' = batch
        /\ (faults' = faults \/ faults' = faults + 1) /\ UNCHANGED <<refused, attempts, published>>
    BY <1>t, <1>7, FaultTyped DEF Accepted, TimesOut, AfterTimeout, Publishing, Goto, Others, rowVars
  <2>2. QED
    BY <1>q, <2>1 DEF Open
<1>8. ASSUME NEW r \in Relays, NEW f \in Events, Refused(r, f) PROVE Budget(e)'
  <2>1. /\ Others(r) /\ pc[r] = "relaying" /\ pc'[r] = "failing" /\ batch' = batch /\ First(r, f)
        /\ refused' = [refused EXCEPT ![f] = @ + 1] /\ UNCHANGED <<attempts, published, faults>>
    BY <1>t, <1>8 DEF Refused, Publishing, First, Goto, Others, rowVars
  <2>2. First(r, e)' <=> First(r, e)
    BY <2>1, FirstKept
  <2>3. First(r, e) <=> e = f
    BY <1>t, <2>1 DEF First
  <2>4. CASE e = f
    <3>1. r \in Open(e) /\ r \notin Open(e)'
      BY <2>1, <2>2, <2>3, <2>4 DEF Open, First
    <3>2. refused'[e] = refused[e] + 1
      BY <1>t, <2>1, <2>4
    <3>3. QED
      BY <1>c, <2>1, <3>1, <3>2
  <2>5. CASE e # f
    <3>1. r \in Open(e)' <=> r \in Open(e)
      BY <2>1, <2>2, <2>3, <2>5 DEF Open
    <3>2. refused'[e] = refused[e]
      BY <1>t, <2>1, <2>5
    <3>3. QED
      BY <1>q, <2>1, <3>1, <3>2
  <2>6. QED
    BY <2>4, <2>5
<1>9. ASSUME NEW r \in Relays, NEW f \in Events, MarkPublished(r, f) \/ MarkFailed(r, f) PROVE Budget(e)'
  <2>1. /\ Others(r) /\ pc[r] \in {"accepted", "failing"} /\ pc'[r] \in {"idle", "relaying"} /\ First(r, f)
        /\ batch'[r] = batch[r] \ {f}
        /\ UNCHANGED <<refused, attempts, faults>> /\ published \subseteq published'
        /\ pc[r] = "accepted" => f \in published'
    <3>1. Done(r, {f})
      BY <1>9 DEF MarkPublished, MarkFailed
    <3>2. QED
      BY <1>t, <1>9, <3>1, DoneMoves DEF MarkPublished, MarkFailed, First, Goto, Others
  <2>2. First(r, e) => e = f
    BY <1>t, <2>1 DEF First
  <2>3. CASE e # f
    <3>1. r \in Open(e)' <=> r \in Open(e)
      BY <2>1, <2>2, <2>3 DEF Open
    <3>2. QED
      BY <1>q, <2>1, <3>1
  <2>4. CASE e = f
    <3>1. r \notin Open(e)' /\ (r \in Open(e) => pc[r] = "accepted")
      BY <2>1, <2>4 DEF Open
    <3>2. QED
      BY <1>q, <1>c, <2>1, <2>4, <3>1
  <2>5. QED
    BY <2>3, <2>4
<1>10. QED
  BY <1>1, <1>2, <1>3, <1>4, <1>5, <1>6, <1>7, <1>8, <1>9 DEF Next, RelayStep

----------------------------------------------------------------------------
(* Overlap *)

Overlap(e) == Cardinality(Holders(e)) <= faults + Current(e)

\* The parts of Overlap are natural numbers.
LEMMA OverlapTypes ==
  ASSUME TypeOK, NEW e
  PROVE  /\ faults \in Nat /\ Cardinality(Holders(e)) \in Nat /\ Current(e) \in {0, 1}
         /\ Current(e)' \in {0, 1}
  BY Types, RelaysCount DEF Holders, Current

\* No relay joins, and the claim is as it was.
LEMMA OverlapKept ==
  ASSUME TypeOK, TypeOK', NEW e, Overlap(e), Holders(e)' \subseteq Holders(e),
         faults' = faults \/ faults' = faults + 1, Current(e)' = Current(e)
  PROVE  Overlap(e)'
<1>1. Cardinality(Holders(e)') \in Nat /\ Cardinality(Holders(e)') <= Cardinality(Holders(e))
  BY RelaysCount DEF Holders
<1>2. faults \in Nat /\ Cardinality(Holders(e)) \in Nat /\ Current(e) \in {0, 1}
  BY OverlapTypes
<1>3. QED
  BY <1>1, <1>2 DEF Overlap

\* A relay leaves, whatever becomes of the claim.
LEMMA OverlapLeft ==
  ASSUME TypeOK, TypeOK', NEW e, Overlap(e), NEW r \in Holders(e), Holders(e)' \subseteq Holders(e) \ {r},
         faults' = faults
  PROVE  Overlap(e)'
<1>1. Holders(e) \subseteq Relays /\ Cardinality(Holders(e) \ {r}) = Cardinality(Holders(e)) - 1
  BY RelaysCount DEF Holders
<1>2. Cardinality(Holders(e)') \in Nat /\ Cardinality(Holders(e)') <= Cardinality(Holders(e) \ {r})
  BY <1>1, RelaysCount
<1>3. faults \in Nat /\ Cardinality(Holders(e)) \in Nat /\ Current(e) \in {0, 1} /\ Current(e)' \in {0, 1}
  BY OverlapTypes
<1>4. QED
  BY <1>1, <1>2, <1>3 DEF Overlap

\* A step of r that takes nothing new: no relay joins a row.
LEMMA HoldersShrink ==
  ASSUME NEW r \in Relays, Others(r), batch'[r] \subseteq batch[r], NEW e
  PROVE  Holders(e)' \subseteq Holders(e)
  BY DEF Others, Holders

LEMMA OverlapStep ==
  ASSUME TypeOK, TypeOK', IdleInv, OverlapInv, Next
  PROVE  OverlapInv'
<1>t. /\ rows \subseteq Events /\ published \subseteq rows /\ pc \in [Relays -> Points]
      /\ batch \in [Relays -> SUBSET rows]
  BY Types
<1> SUFFICES ASSUME NEW e \in rows' \ published' PROVE Overlap(e)'
  BY DEF OverlapInv, Overlap
<1>e. e \in rows \ published => Overlap(e)
  BY DEF OverlapInv, Overlap
<1>1. ASSUME NEW f \in Events, Enqueue(f) PROVE Overlap(e)'
  <2>1. Holders(e)' = Holders(e) /\ faults' = faults /\ Current(e)' = Current(e)
    BY <1>1 DEF Enqueue, Holders, Current
  <2>2. CASE e \in rows
    BY <1>1, <1>e, <2>1, <2>2, OverlapKept DEF Enqueue
  <2>3. CASE e \notin rows
    <3>1. Holders(e) = {}
      BY <1>t, <2>3 DEF Holders
    <3>2. QED
      BY <2>1, <3>1, FS_EmptySet, OverlapTypes DEF Overlap
  <2>4. QED
    BY <2>2, <2>3
<1>2. ASSUME NEW f \in Events, LeaseLapses(f) PROVE Overlap(e)'
  <2>1. e \in rows \ published /\ Holders(e)' = Holders(e)
    BY <1>2 DEF LeaseLapses, Holders
  <2>2. CASE e = f
    <3>1. IF Holders(e) = {} THEN faults' = faults ELSE faults' = faults + 1
      BY <1>2, <2>2, FaultTyped DEF LeaseLapses
    <3>2. Current(e)' \in {0, 1}
      BY OverlapTypes
    <3>3. Cardinality(Holders(e)') = Cardinality(Holders(e)) /\ (Holders(e) = {} => Cardinality(Holders(e)) = 0)
      BY <2>1, FS_EmptySet
    <3>4. faults \in Nat /\ Cardinality(Holders(e)) \in Nat /\ Current(e) \in {0, 1}
      BY OverlapTypes
    <3>5. Cardinality(Holders(e)) <= faults + Current(e)
      BY <1>e, <2>1 DEF Overlap
    <3>6. Cardinality(Holders(e)') <= faults' + Current(e)'
      BY <3>1, <3>2, <3>3, <3>4, <3>5
    <3>7. QED
      BY <3>6 DEF Overlap
  <2>3. CASE e # f
    <3>1. Current(e)' = Current(e)
      BY <1>2, <2>3 DEF LeaseLapses, Current
    <3>2. faults' = faults \/ faults' = faults + 1
      BY <1>2, FaultTyped DEF LeaseLapses
    <3>3. QED
      BY <1>e, <2>1, <3>1, <3>2, OverlapKept
  <2>4. QED
    BY <2>2, <2>3
<1>3. ASSUME NEW f \in Events, WindowCloses(f) PROVE Overlap(e)'
  <2>1. e \in rows \ published /\ Holders(e)' = Holders(e) /\ faults' = faults /\ Current(e)' = Current(e)
    BY <1>3 DEF WindowCloses, rowVars, Holders, Current
  <2>2. QED
    BY <1>e, <2>1, OverlapKept
<1>4. ASSUME NEW r \in Relays, ClaimBatch(r) PROVE Overlap(e)'
  <2> DEFINE B == Oldest({f \in Events : Claimable(f)})
  <2>1. /\ Others(r) /\ batch'[r] = B /\ batch[r] = {} /\ claimed' = claimed \cup B /\ lapsed' = lapsed \ B
        /\ UNCHANGED <<rows, published, faults>>
    BY <1>t, <1>4 DEF ClaimBatch, Goto, Others, IdleInv
  <2>2. \A f \in B : f \in claimed => f \in lapsed
    BY BatchBounds
  <2> HIDE DEF B
  <2>3. CASE e \in B
    <3>1. Current(e) = 0 /\ Current(e)' = 1
      BY <2>1, <2>2, <2>3 DEF Current
    <3>2. Holders(e)' = Holders(e) \cup {r} /\ r \notin Holders(e)
      BY <2>1, <2>3 DEF Holders, Others
    <3>3. Cardinality(Holders(e)') = Cardinality(Holders(e)) + 1
      BY <3>2, RelaysCount DEF Holders
    <3>4. QED
      BY <1>e, <2>1, <3>1, <3>3, OverlapTypes DEF Overlap
  <2>4. CASE e \notin B
    <3>1. Current(e)' = Current(e)
      BY <2>1, <2>4 DEF Current
    <3>2. Holders(e)' \subseteq Holders(e)
      BY <2>1, <2>4 DEF Holders, Others
    <3>3. QED
      BY <1>e, <2>1, <3>1, <3>2, OverlapKept
  <2>5. QED
    BY <2>3, <2>4
\* Steps that leave the claims alone.
<1>5. ASSUME NEW r \in Relays,
             \/ MarkFails(r) \/ Unavailable(r) \/ Crash(r)
             \/ \E f \in Events : Accepted(r, f) \/ MarkPublished(r, f) \/ Refused(r, f) \/ TimesOut(r, f)
      PROVE  Overlap(e)'
  <2>1. /\ UNCHANGED <<rows, claimed, lapsed>> /\ published \subseteq published'
        /\ faults' = faults \/ faults' = faults + 1
    BY <1>5, FaultTyped DEF MarkFails, Unavailable, Crash, Accepted, MarkPublished, Refused, TimesOut, rowVars
  <2>2. batch' = batch \/ \E S : Done(r, S)
    BY <1>5 DEF MarkFails, Unavailable, Crash, Accepted, MarkPublished, Refused, TimesOut
  <2>3. \A q \in Relays : batch'[q] \subseteq batch[q]
    BY <2>2, DoneMoves
  <2>4. Holders(e)' \subseteq Holders(e) /\ Current(e)' = Current(e)
    BY <2>1, <2>3 DEF Holders, Current
  <2>5. QED
    BY <1>e, <2>1, <2>4, OverlapKept
\* Steps that clear the claims of the rows a relay gives up.
<1>6. ASSUME NEW r \in Relays, NEW S, NEW G, G \subseteq batch[r], e \in batch[r] /\ e \in S => e \in G,
             S \subseteq batch[r], Done(r, S),
             claimed' = claimed \ G, lapsed' = lapsed \ G, G \subseteq S, UNCHANGED <<rows, published, faults>>
      PROVE  Overlap(e)'
  <2>1. batch'[r] = batch[r] \ S /\ \A q \in Relays : batch'[q] \subseteq batch[q]
    BY <1>6, DoneMoves
  <2>2. CASE e \in G
    <3>1. r \in Holders(e) /\ Holders(e)' \subseteq Holders(e) \ {r}
      BY <1>6, <2>1, <2>2 DEF Holders
    <3>2. QED
      BY <1>e, <1>6, <3>1, OverlapLeft
  <2>3. CASE e \notin G
    <3>1. Holders(e)' \subseteq Holders(e) /\ Current(e)' = Current(e)
      BY <1>6, <2>1, <2>3 DEF Holders, Current
    <3>2. QED
      BY <1>e, <1>6, <3>1, OverlapKept
  <2>4. QED
    BY <2>2, <2>3
<1>7. ASSUME NEW r \in Relays, NEW f \in Events, MarkFailed(r, f) PROVE Overlap(e)'
  <2>1. /\ f \in batch[r] /\ Done(r, {f}) /\ claimed' = claimed \ {f} /\ lapsed' = lapsed \ {f}
        /\ UNCHANGED <<rows, published, faults>>
    BY <1>7 DEF MarkFailed
  <2>2. QED
    BY <1>6, <2>1
<1>8. ASSUME NEW r \in Relays, Defer(r) PROVE Overlap(e)'
  <2>1. /\ Done(r, batch[r]) /\ claimed' = claimed \ Returned(r) /\ lapsed' = lapsed \ Returned(r)
        /\ UNCHANGED <<rows, published, faults>>
    BY <1>8 DEF Defer
  <2>2. Returned(r) \subseteq batch[r] /\ (e \in batch[r] => e \in Returned(r))
    BY <2>1 DEF Returned
  <2>3. QED
    BY <1>6, <2>1, <2>2
<1>9. QED
  BY <1>1, <1>2, <1>3, <1>4, <1>5, <1>7, <1>8 DEF Next, RelayStep

----------------------------------------------------------------------------
(* The theorems *)

LEMMA RelayInit ==
  ASSUME Init
  PROVE  RelayInv
<1>n. MaxAttempts \in Nat \ {0} /\ MaxFaults \in Nat
  BY RelayAssumption
<1>1. TypeOK
  BY <1>n DEF Init, TypeOK
<1>2. IdleInv /\ StreamInv /\ OverlapInv
  BY DEF Init, IdleInv, StreamInv, PublishedIsInStream, OverlapInv
<1>3. ASSUME NEW e \in Events PROVE Budget(e)
  <2>1. Open(e) = {}
    BY DEF Init, Open
  <2>2. Spent(e) = 0
    BY <2>1, FS_EmptySet DEF Spent
  <2>3. QED
    BY <2>2 DEF Init, Budget
<1>4. QED
  BY <1>1, <1>2, <1>3 DEF RelayInv, BudgetInv

LEMMA RelayKeeps ==
  ASSUME RelayInv, [Next]_vars
  PROVE  RelayInv'
<1>1. CASE Next
  <2>1. TypeOK'
    BY <1>1, TypeStep DEF RelayInv
  <2>2. IdleInv' /\ StreamInv' /\ BudgetInv' /\ OverlapInv'
    BY <1>1, <2>1, IdleStep, StreamStep, BudgetStep, OverlapStep DEF RelayInv
  <2>3. QED
    BY <2>1, <2>2 DEF RelayInv
<1>2. CASE UNCHANGED vars
  <2>1. /\ UNCHANGED <<rows, published, attempts, claimed, lapsed, pc, batch, late, copies, window>>
        /\ UNCHANGED <<refused, faults>>
    BY <1>2 DEF vars, rowVars, brokerVars
  <2>2. TypeOK' /\ IdleInv'
    BY <2>1 DEF RelayInv, TypeOK, IdleInv
  <2>3. StreamInv'
    BY <2>1 DEF RelayInv, StreamInv, PublishedIsInStream, First
  <2>4. BudgetInv'
    BY <2>1 DEF RelayInv, BudgetInv, Budget, Spent, Open, First
  <2>5. OverlapInv'
    BY <2>1 DEF RelayInv, OverlapInv, Holders, Current
  <2>6. QED
    BY <2>2, <2>3, <2>4, <2>5 DEF RelayInv
<1>3. QED
  BY <1>1, <1>2

LEMMA RelayAlways == Spec => []RelayInv
<1>1. QED
  BY RelayInit, RelayKeeps, PTL DEF Spec

\* What claim_outbox_batch and the three marks leave in event_outbox, and the
\* relay loops' own state, stay in their types: in particular no relay counts
\* an attempt past the limit, and a deferred row gives back one attempt only.
THEOREM RelayTypeCorrect == Spec => []TypeOK
<1>1. RelayInv => TypeOK
  BY DEF RelayInv
<1>2. QED
  BY <1>1, RelayAlways, PTL

\* A row with published_at set is in the stream, whichever relays crashed,
\* stalled or timed out on it, for any number of relays and faults.
THEOREM PublishedCorrect == Spec => []PublishedIsInStream
<1>1. RelayInv => PublishedIsInStream
  BY DEF RelayInv, StreamInv
<1>2. QED
  BY <1>1, RelayAlways, PTL

\* The attempts counter of a row is spent by refusals and faults alone:
\* defer_outbox_claim gives back exactly what its own claim took.
THEOREM AttemptsCorrect == Spec => []AttemptsAccounted
<1>1. ASSUME RelayInv, NEW e \in Events
      PROVE  /\ refused[e] <= attempts[e]
             /\ e \notin published => attempts[e] <= refused[e] + faults + Cardinality(Holders(e))
  <2>1. Budget(e) /\ TypeOK
    BY <1>1 DEF RelayInv, BudgetInv
  <2>2. refused[e] \in Nat /\ attempts[e] \in Nat /\ faults \in Nat /\ Spent(e) \in Nat
    BY <2>1, BudgetTypes
  <2>3. Spent(e) <= Cardinality(Holders(e)) /\ Cardinality(Holders(e)) \in Nat
    <3>1. Open(e) \subseteq Holders(e) /\ Holders(e) \subseteq Relays
      BY DEF Open, Holders
    <3>2. QED
      BY <3>1, RelaysCount DEF Spent
  <2>4. QED
    BY <2>1, <2>2, <2>3 DEF Budget
<1>2. RelayInv => AttemptsAccounted
  BY <1>1 DEF AttemptsAccounted
<1>3. QED
  BY <1>2, RelayAlways, PTL

\* Two relays publish one row only after the visibility lease ran out under
\* one of them, and each further relay took a fault of its own.
THEOREM OverlapCorrect == Spec => []OverlapNeedsStall
<1>1. ASSUME RelayInv, NEW e \in rows \ published PROVE Cardinality(Holders(e)) <= 1 + faults
  <2>1. Cardinality(Holders(e)) <= faults + Current(e) /\ TypeOK
    BY <1>1 DEF RelayInv, OverlapInv
  <2>2. QED
    BY <2>1, OverlapTypes
<1>2. RelayInv => OverlapNeedsStall
  BY <1>1 DEF OverlapNeedsStall
<1>3. QED
  BY <1>2, RelayAlways, PTL

\* A late relay's mark, deferral or claim never touches a published row: the
\* row stays published and its attempts stay what they were.
THEOREM FrozenCorrect == Spec => PublishedIsFrozen
<1>1. ASSUME TypeOK, Next, NEW e \in published PROVE e \in published' /\ attempts'[e] = attempts[e]
  <2>1. published \subseteq published'
    BY <1>1 DEF Next, RelayStep, Enqueue, ClaimBatch, MarkFails, Unavailable, Defer, Crash, Accepted, MarkPublished,
                Refused, MarkFailed, TimesOut, LeaseLapses, WindowCloses, rowVars
  <2>2. e \in Events
    BY <1>1, Types
  <2>3. ASSUME NEW r \in Relays, ClaimBatch(r) PROVE attempts'[e] = attempts[e]
    <3> DEFINE B == Oldest({f \in Events : Claimable(f)})
    <3>1. attempts' = [f \in Events |-> IF f \in B THEN attempts[f] + 1 ELSE attempts[f]]
      BY <2>3 DEF ClaimBatch
    <3>2. e \notin B
      BY <1>1, BatchBounds
    <3> HIDE DEF B
    <3>3. QED
      BY <2>2, <3>1, <3>2
  <2>4. ASSUME NEW r \in Relays, Defer(r) PROVE attempts'[e] = attempts[e]
    <3>1. attempts' = [f \in Events |-> IF f \in Returned(r) THEN Refund(attempts[f]) ELSE attempts[f]]
      BY <2>4 DEF Defer
    <3>2. e \notin Returned(r)
      BY <1>1 DEF Returned
    <3>3. QED
      BY <2>2, <3>1, <3>2
  <2>5. \/ attempts' = attempts
        \/ \E r \in Relays : ClaimBatch(r) \/ Defer(r)
    BY <1>1 DEF Next, RelayStep, Enqueue, MarkFails, Unavailable, Crash, Accepted, MarkPublished,
                Refused, MarkFailed, TimesOut, LeaseLapses, WindowCloses, rowVars
  <2>6. QED
    BY <2>1, <2>3, <2>4, <2>5
<1>2. RelayInv /\ [Next]_vars => [\A e \in published : e \in published' /\ attempts'[e] = attempts[e]]_vars
  BY <1>1 DEF RelayInv
<1>3. QED
  BY <1>2, RelayAlways, PTL DEF Spec, PublishedIsFrozen

----------------------------------------------------------------------------
(* The outbox as a stage of the event path *)

\* Only what was committed to the outbox reaches the broker.
CommittedInv == InStream \subseteq rows

\* The outbox keeps its rows, and a relay sends only what it holds.
LEMMA SentIsCommitted ==
  ASSUME TypeOK, CommittedInv, Next
  PROVE  /\ rows \subseteq rows' /\ rows' \subseteq Events
         /\ InStream \subseteq InStream' /\ InStream' \subseteq rows
<1>1. rows \subseteq rows' /\ rows' \subseteq Events
  <2>1. rows' = rows \/ \E e \in Events : rows' = rows \cup {e}
    BY DEF Next, RelayStep, Enqueue, ClaimBatch, MarkFails, Unavailable, Defer, Crash, Accepted,
           MarkPublished, Refused, MarkFailed, TimesOut, LeaseLapses, WindowCloses, rowVars
  <2>2. QED
    BY <2>1, Types
<1>2. InStream \subseteq InStream'
  BY StreamGrows DEF InStream
<1>3. ASSUME NEW e \in Events, copies'[e] > 0 PROVE e \in rows
  <2>1. CASE copies' = copies
    BY <1>3, <2>1 DEF CommittedInv, InStream
  <2>2. ASSUME NEW r \in Relays, NEW f \in Events, Publishing(r, f), Lands(f) PROVE e \in rows
    <3>1. f \in rows
      BY <2>2, Types DEF Publishing
    <3>2. e # f => copies'[e] = copies[e]
      BY <2>2, Types DEF Lands
    <3>3. QED
      BY <1>3, <3>1, <3>2 DEF CommittedInv, InStream
  <2>3. copies' = copies \/ \E r \in Relays, f \in Events : Publishing(r, f) /\ Lands(f)
    BY DEF Next, RelayStep, Enqueue, ClaimBatch, MarkFails, Unavailable, Defer, Crash, Accepted,
           MarkPublished, Refused, MarkFailed, TimesOut, LeaseLapses, WindowCloses, brokerVars
  <2>4. QED
    BY <2>1, <2>2, <2>3
<1>4. QED
  BY <1>1, <1>2, <1>3 DEF InStream

\* A relay marks a row whose event the broker took before.
LEMMA MarkedIsSent ==
  ASSUME TypeOK, StreamInv, Next
  PROVE  published \subseteq published' /\ published' \subseteq InStream
<1>1. \/ published' = published
      \/ \E r \in Relays, e \in Events :
            pc[r] = "accepted" /\ First(r, e) /\ published' = published \cup {e}
  BY DEF Next, RelayStep, Enqueue, ClaimBatch, MarkFails, Unavailable, Defer, Crash, Accepted,
         MarkPublished, Refused, MarkFailed, TimesOut, LeaseLapses, WindowCloses, rowVars, First
<1>2. published \subseteq InStream
  BY Types DEF StreamInv, PublishedIsInStream, InStream
<1>3. QED
  BY <1>1, <1>2 DEF StreamInv, InStream

LEMMA StageStep ==
  ASSUME RelayInv, CommittedInv, [Next]_vars
  PROVE  [Stage!Next]_Stage!stage /\ CommittedInv'
<1>1. CASE Next
  <2>1. /\ rows \subseteq rows' /\ rows' \subseteq Events
        /\ InStream \subseteq InStream' /\ InStream' \subseteq rows
    BY <1>1, SentIsCommitted DEF RelayInv
  <2>2. published \subseteq published' /\ published' \subseteq InStream
    BY <1>1, MarkedIsSent DEF RelayInv
  <2>3. Stage!Next
    BY <2>1, <2>2 DEF Stage!Next
  <2>4. CommittedInv'
    BY <2>1 DEF CommittedInv
  <2>5. QED
    BY <2>3, <2>4
<1>2. CASE UNCHANGED vars
  BY <1>2 DEF vars, rowVars, brokerVars, Stage!stage, InStream, CommittedInv
<1>3. QED
  BY <1>1, <1>2

\* Whatever relays crash, stall and repeat: an event is in the stream only if
\* its transaction committed, it is marked only if the stream had it, and none
\* of this is ever taken back.
THEOREM RelayHandsOver == Spec => ImplementsHandOver
<1>1. Init => Stage!Init /\ CommittedInv
  BY DEF Init, Stage!Init, InStream, CommittedInv
<1>2. RelayInv /\ CommittedInv /\ [Next]_vars => [Stage!Next]_Stage!stage /\ CommittedInv'
  BY StageStep
<1>3. QED
  BY <1>1, <1>2, RelayAlways, PTL DEF Spec, ImplementsHandOver, Stage!Spec

----------------------------------------------------------------------------
(* The event path. Of the consumer only its hand-over is used, and of the  *)
(* broker that a consumer reaches what the stream has.                     *)

VARIABLES
    inReach, handled, acked   \* the consumer's stage (see EventConsumer)

Consumer == INSTANCE HandOver WITH
               Items <- Events, taken <- inReach, passed <- handled, closed <- acked
Path == INSTANCE HandOver WITH
               Items <- Events, taken <- rows, passed <- handled, closed <- acked
StreamFeeds == inReach \subseteq InStream

\* Two stages in a row are one, when the second takes what the first passed on.
LEMMA PathStep ==
  ASSUME [Stage!Next]_Stage!stage, [Consumer!Next]_Consumer!stage,
         StreamFeeds, InStream \subseteq rows, Path!InOrder
  PROVE  [Path!Next]_Path!stage /\ Path!InOrder'
<1>1. rows \subseteq rows' /\ (rows' = rows \/ rows' \subseteq Events)
  BY DEF Stage!Next, Stage!stage
<1>2. /\ handled \subseteq handled' /\ (handled' = handled \/ handled' \subseteq inReach)
      /\ acked \subseteq acked' /\ (acked' = acked \/ acked' \subseteq handled)
  BY DEF Consumer!Next, Consumer!stage
<1>3. rows' \subseteq Events /\ handled' \subseteq rows /\ acked' \subseteq handled
  BY <1>1, <1>2 DEF StreamFeeds, Path!InOrder
<1>4. Path!Next
  BY <1>1, <1>2, <1>3 DEF Path!Next
<1>5. Path!InOrder'
  BY <1>1, <1>2, <1>3 DEF Path!InOrder
<1>6. QED
  BY <1>4, <1>5

\* From the transaction to the acknowledgement, with any number of relays and
\* consumers failing on the way: no handler acts on, no dead letter reports and
\* no acknowledgement settles an event whose transaction did not commit.
THEOREM PathCorrect ==
  Spec /\ Consumer!Spec /\ []StreamFeeds => Path!Spec /\ []Path!InOrder
<1>1. Init /\ Consumer!Init => Path!Init /\ Path!InOrder
  BY DEF Init, Consumer!Init, Path!Init, Path!InOrder
<1>2. [Stage!Next]_Stage!stage /\ [Consumer!Next]_Consumer!stage /\ StreamFeeds
        /\ CommittedInv /\ Path!InOrder => [Path!Next]_Path!stage /\ Path!InOrder'
  BY PathStep DEF CommittedInv
<1>3. Init => CommittedInv
  BY DEF Init, InStream, CommittedInv
<1>4. RelayInv /\ CommittedInv /\ [Next]_vars => [Stage!Next]_Stage!stage /\ CommittedInv'
  BY StageStep
<1>5. QED
  BY <1>1, <1>2, <1>3, <1>4, RelayAlways, PTL DEF Spec, Consumer!Spec, Path!Spec
=============================================================================
