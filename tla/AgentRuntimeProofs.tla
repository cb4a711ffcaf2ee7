------------------------ MODULE AgentRuntimeProofs ------------------------
(***************************************************************************)
(* First the idempotency keys, for any callers, keys and requests: the     *)
(* effects under a key are bounded, and an answer is of its own request.   *)
(* Then the agent runtime, for any workers, runs, strategies and bounds:   *)
(* types, the one-turn lease, approval before effect, a truthful journal,  *)
(* and - since every step of the runtime is a step of Idempotency or none  *)
(* - what was shown of the keys.                                           *)
(***************************************************************************)
EXTENDS AgentRuntime, FiniteSetTheorems, WellFoundedInduction, TLAPS

\* A call past its first step has its key and its request, and at its end an answer.
CallOK ==
    \A c \in Callers :
        /\ call[c].at # "idle" => call[c].key \in Keys /\ call[c].request \in Requests
        /\ call[c].at = "answered" => call[c].answer \in Replies

\* The calls between their claim and their answer.
Holders(k) == {c \in Callers : call[c].at \in {"running", "acted"} /\ call[c].key = k}

\* While no row of the key lapsed, at most one call is at work under it, and
\* the pending row is its own.
OwnRow ==
    \A k \in Keys : lapses[k] = 0 =>
        \A c \in Holders(k) :
            /\ row[k].state = "pending" /\ row[k].request = call[c].request
            /\ \A d \in Holders(k) : d = c

KeyInv == KeyTypeOK /\ CallOK /\ ActsAccounted /\ OwnRow /\ ReplayIsOfTheRequest

----------------------------------------------------------------------------
(* Counting the calls that may still act *)

LEMMA RunningFinite ==
  ASSUME NEW k
  PROVE  IsFiniteSet(Running(k)) /\ Cardinality(Running(k)) \in Nat
<1>1. IsFiniteSet(Running(k))
  BY KeyAssumption, FS_Subset DEF Running
<1>2. QED
  BY <1>1, FS_CardinalityType

\* One call more, or one less.
LEMMA CountAdd ==
  ASSUME NEW S, IsFiniteSet(S), NEW c, c \notin S
  PROVE  Cardinality(S) \in Nat /\ Cardinality(S \cup {c}) = Cardinality(S) + 1
  BY FS_AddElement, FS_CardinalityType
LEMMA CountRemove ==
  ASSUME NEW S, IsFiniteSet(S), NEW c \in S
  PROVE  Cardinality(S) \in Nat /\ Cardinality(S \ {c}) = Cardinality(S) - 1
  BY FS_RemoveElement, FS_CardinalityType

\* What a key has spent of its budget.
Spent(k) == acts[k] + Cardinality(Running(k)) + (IF Free(k) THEN 1 ELSE 0)
Budget(k) == 1 + lapses[k] + unsure[k]

\* A step that spends no more under k than it adds to the budget of k.
LEMMA KeyKeeps ==
  ASSUME KeyTypeOK, KeyTypeOK', NEW k \in Keys, Spent(k) <= Budget(k),
         acts'[k] = acts[k], lapses'[k] = lapses[k], unsure'[k] = unsure[k],
         Running(k)' \subseteq Running(k), row'[k].state = "none" => row[k].state = "none"
  PROVE  Spent(k)' <= Budget(k)'
<1> DEFINE n == Cardinality(Running(k))
           m == Cardinality(Running(k)')
<1>1. n \in Nat /\ m \in Nat /\ m <= n
  <2>1. IsFiniteSet(Running(k)) /\ n \in Nat
    BY RunningFinite
  <2>2. QED
    BY <2>1, FS_Subset, FS_CardinalityType
<1>2. acts[k] \in Nat /\ lapses[k] \in Nat /\ unsure[k] \in Nat
  BY DEF KeyTypeOK
<1>3. Free(k)' => Free(k)
  BY DEF Free
<1> HIDE DEF n, m
<1>4. QED
  BY <1>1, <1>2, <1>3 DEF Spent, Budget, n, m

----------------------------------------------------------------------------
(* The steps *)

LEMMA RowTyped ==
  ASSUME row \in [Keys -> Rows], NEW k, NEW r \in Rows, row' = [row EXCEPT ![k] = r]
  PROVE  row' \in [Keys -> Rows]
  OBVIOUS
LEMMA CallTyped ==
  ASSUME call \in [Callers -> Calls], CallOK, NEW c, NEW v \in Calls,
         v.at # "idle" => v.key \in Keys /\ v.request \in Requests,
         v.at = "answered" => v.answer \in Replies,
         call' = [call EXCEPT ![c] = v]
  PROVE  call' \in [Callers -> Calls] /\ CallOK'
  BY DEF CallOK

\* The answers of a call, and the rows it leaves.
LEMMA Typed ==
  ASSUME KeyTypeOK, NEW k \in Keys, NEW q \in Requests
  PROVE  /\ NoRow \in Rows /\ NoCall \in Calls
         /\ Finished(k, q) \in Rows /\ Released(k) \in Rows
         /\ \A a \in {Reply(k, q), Answer("unavailable", None), Answer("ok", q), Failed} :
              /\ a \in Replies
              /\ [at |-> "answered", key |-> k, request |-> q, answer |-> a] \in Calls
<1>1. row[k] \in Rows /\ NoRow \in Rows /\ NoCall \in Calls
  BY DEF KeyTypeOK, Rows, NoRow, Calls, NoCall
<1>2. Finished(k, q) \in Rows
  BY <1>1 DEF Finished, Rows
<1>3. Released(k) \in Rows
  BY <1>1 DEF Released
<1>4. ASSUME NEW a \in {Reply(k, q), Answer("unavailable", None), Answer("ok", q), Failed}
      PROVE  a \in Replies
  <2>1. CASE a = Reply(k, q)
    <3>1. row[k].result \in Requests \cup {None}
      BY <1>1 DEF Rows
    <3>2. CASE row[k].request # q
      BY <2>1, <3>2 DEF Replies, Reply, Answer
    <3>3. CASE row[k].request = q
      BY <2>1, <3>1, <3>3 DEF Replies, Reply, Answer
    <3>4. QED
      BY <3>2, <3>3
  <2>2. CASE a = Answer("unavailable", None)
    BY <2>2 DEF Replies, Answer
  <2>3. CASE a = Answer("ok", q)
    BY <2>3 DEF Replies, Answer
  <2>4. CASE a = Failed
    BY <2>4 DEF Replies, Failed, Answer
  <2>5. QED
    BY <1>4, <2>1, <2>2, <2>3, <2>4
<1>5. QED
  BY <1>1, <1>2, <1>3, <1>4 DEF Calls

LEMMA KeyTypeStep ==
  ASSUME KeyTypeOK, CallOK, KeyNext
  PROVE  KeyTypeOK' /\ CallOK'
<1>0. /\ row \in [Keys -> Rows] /\ call \in [Callers -> Calls]
      /\ acts \in [Keys -> Nat] /\ lapses \in [Keys -> Nat] /\ unsure \in [Keys -> Nat]
  BY DEF KeyTypeOK
<1>1. ASSUME NEW c \in Callers, NEW k \in Keys, NEW q \in Requests, Claim(c, k, q)
      PROVE  KeyTypeOK' /\ CallOK'
  <2>1. UNCHANGED <<acts, lapses, unsure>>
    BY <1>1 DEF Claim
  <2>2. CASE Free(k)
    <3> DEFINE r == [state |-> "pending", request |-> q, result |-> None]
               v == [at |-> "running", key |-> k, request |-> q, answer |-> None]
    <3>1. r \in Rows /\ v \in Calls /\ v.key = k /\ v.request = q /\ v.at = "running"
      BY DEF Rows, Calls
    <3>2. row' = [row EXCEPT ![k] = r] /\ call' = [call EXCEPT ![c] = v]
      BY <1>1, <2>2 DEF Claim
    <3> HIDE DEF r, v
    <3>3. row' \in [Keys -> Rows]
      BY <1>0, <3>1, <3>2, RowTyped
    <3>4. call' \in [Callers -> Calls] /\ CallOK'
      BY <1>0, <3>1, <3>2, CallTyped
    <3>5. QED
      BY <1>0, <2>1, <3>3, <3>4 DEF KeyTypeOK
  <2>3. CASE ~Free(k)
    <3> DEFINE v == [at |-> "answered", key |-> k, request |-> q, answer |-> Reply(k, q)]
    <3>1. v \in Calls /\ v.key = k /\ v.request = q /\ v.answer \in Replies
      BY Typed
    <3>2. row' = row /\ call' = [call EXCEPT ![c] = v]
      BY <1>1, <2>3 DEF Claim
    <3> HIDE DEF v
    <3>3. call' \in [Callers -> Calls] /\ CallOK'
      BY <1>0, <3>1, <3>2, CallTyped
    <3>4. QED
      BY <1>0, <2>1, <3>2, <3>3 DEF KeyTypeOK
  <2>4. QED
    BY <2>2, <2>3
<1>2. ASSUME NEW c \in Callers, NEW k \in Keys, NEW q \in Requests, ClaimUnavailable(c, k, q)
      PROVE  KeyTypeOK' /\ CallOK'
  <2> DEFINE v == [at |-> "answered", key |-> k, request |-> q, answer |-> Answer("unavailable", None)]
  <2>1. v \in Calls /\ v.key = k /\ v.request = q /\ v.answer \in Replies
    BY Typed
  <2>2. call' = [call EXCEPT ![c] = v] /\ UNCHANGED <<row, acts, lapses, unsure>>
    BY <1>2 DEF ClaimUnavailable
  <2> HIDE DEF v
  <2>3. call' \in [Callers -> Calls] /\ CallOK'
    BY <1>0, <2>1, <2>2, CallTyped
  <2>4. QED
    BY <1>0, <2>2, <2>3 DEF KeyTypeOK
<1>3. ASSUME NEW c \in Callers, Act(c) PROVE KeyTypeOK' /\ CallOK'
  <2>1. call' \in [Callers -> Calls]
    BY <1>0, <1>3 DEF Act, Calls
  <2>4. CallOK'
    BY <1>0, <1>3 DEF Act, Calls, CallOK
  <2>2. acts' \in [Keys -> Nat]
    BY <1>0, <1>3 DEF Act, CallOK
  <2>3. QED
    BY <1>0, <1>3, <2>1, <2>2, <2>4 DEF Act, KeyTypeOK
<1>4. ASSUME NEW c \in Callers, NEW k \in Keys, NEW q \in Requests, NEW r \in Rows,
             NEW a \in {Reply(k, q), Answer("unavailable", None), Answer("ok", q), Failed},
             NEW stored \in BOOLEAN, call[c].key = k, call[c].request = q, Answers(c, a, r, stored)
      PROVE  row' \in [Keys -> Rows] /\ call' \in [Callers -> Calls] /\ CallOK'
  <2>1. row' \in [Keys -> Rows]
    BY <1>0, <1>4 DEF Answers
  <2>2. a \in Replies
    BY Typed
  <2>3. call' \in [Callers -> Calls]
    <3>1. call[c] \in Calls
      BY <1>0
    <3>2. [call[c] EXCEPT !.at = "answered", !.answer = a] \in Calls
      BY <2>2, <3>1 DEF Calls
    <3>3. QED
      BY <1>0, <1>4, <3>2 DEF Answers
  <2>4. CallOK'
    BY <1>0, <1>4, <2>2 DEF Answers, Calls, CallOK
  <2>5. QED
    BY <2>1, <2>3, <2>4
<1>5. ASSUME NEW c \in Callers, NEW stored \in BOOLEAN,
             Succeed(c, stored) \/ Fail(c, stored) \/ FailAfterAct(c, stored)
      PROVE  KeyTypeOK' /\ CallOK'
  <2> DEFINE k == call[c].key
             q == call[c].request
  <2>1. k \in Keys /\ q \in Requests
    BY <1>5 DEF Succeed, Fail, FailAfterAct, CallOK
  <2>2. Finished(k, q) \in Rows /\ Released(k) \in Rows
    BY <2>1, Typed
  <2>3. Answers(c, Answer("ok", q), Finished(k, q), stored) \/ Answers(c, Failed, Released(k), stored)
    BY <1>5 DEF Succeed, Fail, FailAfterAct
  <2>4. acts' = acts /\ lapses' = lapses /\ unsure' \in [Keys -> Nat]
    BY <1>0, <1>5 DEF Succeed, Fail, FailAfterAct
  <2>5. row' \in [Keys -> Rows] /\ call' \in [Callers -> Calls] /\ CallOK'
    BY <1>4, <2>1, <2>2, <2>3
  <2>6. QED
    BY <1>0, <2>4, <2>5 DEF KeyTypeOK
<1>6. ASSUME NEW c \in Callers, Return(c) \/ CallerDies(c) PROVE KeyTypeOK' /\ CallOK'
  <2>1. NoCall \in Calls /\ NoCall.at = "idle"
    BY DEF NoCall, Calls
  <2>2. call' = [call EXCEPT ![c] = NoCall] /\ UNCHANGED <<row, acts, lapses, unsure>>
    BY <1>6 DEF Return, CallerDies
  <2>3. call' \in [Callers -> Calls] /\ CallOK'
    BY <1>0, <2>1, <2>2, CallTyped
  <2>4. QED
    BY <1>0, <2>2, <2>3 DEF KeyTypeOK
<1>7. ASSUME NEW k \in Keys, Purge(k) PROVE KeyTypeOK' /\ CallOK'
  <2>1. row' \in [Keys -> Rows]
    <3>1. NoRow \in Rows
      BY DEF NoRow, Rows
    <3>2. QED
      BY <1>0, <1>7, <3>1, RowTyped DEF Purge
  <2>2. lapses' \in [Keys -> Nat]
    BY <1>0, <1>7 DEF Purge
  <2>3. QED
    BY <1>0, <1>7, <2>1, <2>2 DEF Purge, KeyTypeOK, CallOK
<1>8. QED
  BY <1>1, <1>2, <1>3, <1>5, <1>6, <1>7 DEF KeyNext, CallerStep

\* Each step pays for what it may set free.
LEMMA AccountStep ==
  ASSUME KeyTypeOK, CallOK, KeyTypeOK', ActsAccounted, KeyNext
  PROVE  ActsAccounted'
<1> SUFFICES ASSUME NEW k \in Keys PROVE Spent(k)' <= Budget(k)'
  BY DEF ActsAccounted, Spent, Budget
<1>0. Spent(k) <= Budget(k)
  BY DEF ActsAccounted, Spent, Budget
<1>t. /\ acts[k] \in Nat /\ lapses[k] \in Nat /\ unsure[k] \in Nat
      /\ acts'[k] \in Nat /\ lapses'[k] \in Nat /\ unsure'[k] \in Nat
      /\ Cardinality(Running(k)) \in Nat /\ IsFiniteSet(Running(k))
  BY RunningFinite DEF KeyTypeOK
<1>1. ASSUME NEW c \in Callers, NEW j \in Keys, NEW q \in Requests, Claim(c, j, q)
      PROVE  Spent(k)' <= Budget(k)'
  <2>1. acts'[k] = acts[k] /\ lapses'[k] = lapses[k] /\ unsure'[k] = unsure[k]
    BY <1>1 DEF Claim
  <2>2. CASE Free(j) /\ j = k
    <3>1. Running(k)' = Running(k) \cup {c} /\ c \notin Running(k)
      BY <1>1, <2>2 DEF Claim, Running, KeyTypeOK
    <3>2. Cardinality(Running(k)') = Cardinality(Running(k)) + 1
      BY <3>1, <1>t, CountAdd
    <3>3. Free(k) /\ ~Free(k)'
      BY <1>1, <2>2 DEF Claim, Free, KeyTypeOK
    <3>4. QED
      BY <1>0, <1>t, <2>1, <3>2, <3>3 DEF Spent, Budget
  <2>3. CASE ~(Free(j) /\ j = k)
    <3>1. Running(k)' \subseteq Running(k)
      BY <1>1, <2>3 DEF Claim, Running, KeyTypeOK
    <3>2. row'[k].state = "none" => row[k].state = "none"
      BY <1>1, <2>3 DEF Claim, KeyTypeOK
    <3>3. QED
      BY <1>0, <2>1, <3>1, <3>2, KeyKeeps
  <2>4. QED
    BY <2>2, <2>3
<1>2. ASSUME NEW c \in Callers, NEW j \in Keys, NEW q \in Requests, ClaimUnavailable(c, j, q)
      PROVE  Spent(k)' <= Budget(k)'
  <2>1. Running(k)' \subseteq Running(k)
    BY <1>2 DEF ClaimUnavailable, Running, KeyTypeOK
  <2>2. QED
    BY <1>0, <1>2, <2>1, KeyKeeps DEF ClaimUnavailable
<1>3. ASSUME NEW c \in Callers, Act(c) PROVE Spent(k)' <= Budget(k)'
  <2>1. CASE call[c].key = k
    <3>1. Running(k)' = Running(k) \ {c} /\ c \in Running(k)
      BY <1>3, <2>1 DEF Act, Running, KeyTypeOK
    <3>2. Cardinality(Running(k)') = Cardinality(Running(k)) - 1
      BY <3>1, <1>t, CountRemove
    <3>3. acts'[k] = acts[k] + 1 /\ lapses' = lapses /\ unsure' = unsure /\ Free(k)' = Free(k)
      BY <1>3, <2>1 DEF Act, KeyTypeOK, Free
    <3>4. QED
      BY <1>0, <1>t, <3>2, <3>3 DEF Spent, Budget
  <2>2. CASE call[c].key # k
    <3>1. Running(k)' \subseteq Running(k) /\ acts'[k] = acts[k]
      BY <1>3, <2>2 DEF Act, Running, KeyTypeOK
    <3>2. QED
      BY <1>0, <1>3, <3>1, KeyKeeps DEF Act
  <2>3. QED
    BY <2>1, <2>2
<1>4. ASSUME NEW c \in Callers, NEW stored \in BOOLEAN, Succeed(c, stored)
      PROVE  Spent(k)' <= Budget(k)'
  <2>1. Running(k)' \subseteq Running(k)
    BY <1>4 DEF Succeed, Answers, Running, KeyTypeOK
  <2>2. row'[k].state = "none" => row[k].state = "none"
    BY <1>4 DEF Succeed, Answers, Finished, Free, KeyTypeOK, Rows
  <2>3. QED
    BY <1>0, <1>4, <2>1, <2>2, KeyKeeps DEF Succeed
<1>5. ASSUME NEW c \in Callers, NEW stored \in BOOLEAN, Fail(c, stored)
      PROVE  Spent(k)' <= Budget(k)'
  <2>1. acts' = acts /\ lapses' = lapses /\ unsure' = unsure
    BY <1>5 DEF Fail
  <2>2. CASE call[c].key = k
    <3>1. Running(k)' = Running(k) \ {c} /\ c \in Running(k)
      BY <1>5, <2>2 DEF Fail, Answers, Running, KeyTypeOK
    <3>2. Cardinality(Running(k)') = Cardinality(Running(k)) - 1
      BY <3>1, <1>t, CountRemove
    <3>3. QED
      BY <1>0, <1>t, <2>1, <3>2 DEF Spent, Budget
  <2>3. CASE call[c].key # k
    <3>1. Running(k)' \subseteq Running(k) /\ row'[k] = row[k]
      BY <1>5, <2>3 DEF Fail, Answers, Running, KeyTypeOK
    <3>2. QED
      BY <1>0, <2>1, <3>1, KeyKeeps
  <2>4. QED
    BY <2>2, <2>3
<1>6. ASSUME NEW c \in Callers, NEW stored \in BOOLEAN, FailAfterAct(c, stored)
      PROVE  Spent(k)' <= Budget(k)'
  <2>1. acts' = acts /\ lapses' = lapses /\ Running(k)' = Running(k)
    BY <1>6 DEF FailAfterAct, Answers, Running, KeyTypeOK
  <2>2. CASE call[c].key = k
    <3>1. unsure'[k] = unsure[k] + 1
      BY <1>6, <2>2 DEF FailAfterAct, KeyTypeOK
    <3>2. QED
      BY <1>0, <1>t, <2>1, <3>1 DEF Spent, Budget
  <2>3. CASE call[c].key # k
    <3>1. unsure'[k] = unsure[k] /\ row'[k] = row[k]
      BY <1>6, <2>3 DEF FailAfterAct, Answers, KeyTypeOK
    <3>2. QED
      BY <1>0, <2>1, <3>1, KeyKeeps
  <2>4. QED
    BY <2>2, <2>3
<1>7. ASSUME NEW c \in Callers, Return(c) \/ CallerDies(c) PROVE Spent(k)' <= Budget(k)'
  <2>1. Running(k)' \subseteq Running(k)
    BY <1>7 DEF Return, CallerDies, Running, KeyTypeOK, NoCall
  <2>2. QED
    BY <1>0, <1>7, <2>1, KeyKeeps DEF Return, CallerDies
<1>8. ASSUME NEW j \in Keys, Purge(j) PROVE Spent(k)' <= Budget(k)'
  <2>1. acts' = acts /\ unsure' = unsure /\ Running(k)' = Running(k)
    BY <1>8 DEF Purge, Running
  <2>2. CASE j = k
    <3>1. lapses'[k] = lapses[k] + 1
      BY <1>8, <2>2 DEF Purge, KeyTypeOK
    <3>2. QED
      BY <1>0, <1>t, <2>1, <3>1 DEF Spent, Budget
  <2>3. CASE j # k
    <3>1. lapses'[k] = lapses[k] /\ row'[k] = row[k]
      BY <1>8, <2>3 DEF Purge, KeyTypeOK
    <3>2. QED
      BY <1>0, <2>1, <3>1, KeyKeeps
  <2>4. QED
    BY <2>2, <2>3
<1>9. QED
  BY <1>1, <1>2, <1>3, <1>4, <1>5, <1>6, <1>7, <1>8 DEF KeyNext, CallerStep

\* A step that leaves k's row, and lets no call into its work under k.
LEMMA OwnRowKeeps ==
  ASSUME OwnRow, NEW k \in Keys, lapses'[k] = 0 => lapses[k] = 0,
         row'[k] = row[k], Holders(k)' \subseteq Holders(k),
         \A d \in Holders(k)' : call'[d].request = call[d].request
  PROVE  lapses'[k] = 0 =>
             \A d \in Holders(k)' :
                /\ row'[k].state = "pending" /\ row'[k].request = call'[d].request
                /\ \A e \in Holders(k)' : e = d
  BY DEF OwnRow

LEMMA OwnRowStep ==
  ASSUME KeyTypeOK, CallOK, OwnRow, KeyNext
  PROVE  OwnRow'
<1> DEFINE Own(k) == lapses'[k] = 0 =>
                        \A d \in Holders(k)' :
                            /\ row'[k].state = "pending" /\ row'[k].request = call'[d].request
                            /\ \A e \in Holders(k)' : e = d
<1> SUFFICES ASSUME NEW k \in Keys PROVE Own(k)
  BY DEF OwnRow
<1>t. /\ row \in [Keys -> Rows] /\ call \in [Callers -> Calls] /\ lapses \in [Keys -> Nat]
  BY DEF KeyTypeOK
<1>1. ASSUME NEW c \in Callers, NEW j \in Keys, NEW q \in Requests, Claim(c, j, q)
      PROVE  Own(k)
  <2>1. lapses' = lapses /\ c \notin Holders(k)
    BY <1>1 DEF Claim, Holders
  <2>2. CASE Free(j) /\ j = k
    <3>1. Holders(k)' = Holders(k) \cup {c}
      BY <1>1, <1>t, <2>2 DEF Claim, Holders
    <3>2. lapses[k] = 0 => Holders(k) = {}
      BY <2>2 DEF OwnRow, Free
    <3>3. row'[k].state = "pending" /\ row'[k].request = call'[c].request
      BY <1>1, <1>t, <2>2 DEF Claim
    <3>4. QED
      BY <2>1, <3>1, <3>2, <3>3
  <2>3. CASE ~(Free(j) /\ j = k)
    <3>1. Holders(k)' \subseteq Holders(k) /\ row'[k] = row[k]
      BY <1>1, <1>t, <2>3 DEF Claim, Holders
    <3>2. \A d \in Callers : d # c => call'[d] = call[d]
      BY <1>1, <1>t DEF Claim
    <3>3. \A d \in Holders(k)' : call'[d].request = call[d].request
      BY <2>1, <3>1, <3>2 DEF Holders
    <3>4. QED
      BY <2>1, <3>1, <3>3, OwnRowKeeps
  <2>4. QED
    BY <2>2, <2>3
<1>2. ASSUME NEW c \in Callers, UNCHANGED <<row, lapses>>,
             \A d \in Callers \ {c} : call'[d] = call[d],
             c \in Holders(k)' => c \in Holders(k) /\ call'[c].request = call[c].request
      PROVE  Own(k)
  <2>1. Holders(k)' \subseteq Holders(k) /\ \A d \in Holders(k)' : call'[d].request = call[d].request
    BY <1>2 DEF Holders
  <2>2. QED
    BY <1>2, <2>1, OwnRowKeeps
<1>3. ASSUME NEW c \in Callers, NEW j \in Keys, NEW q \in Requests, ClaimUnavailable(c, j, q)
      PROVE  Own(k)
  <2>1. c \notin Holders(k)'
    BY <1>3, <1>t DEF ClaimUnavailable, Holders
  <2>2. UNCHANGED <<row, lapses>> /\ \A d \in Callers \ {c} : call'[d] = call[d]
    BY <1>3, <1>t DEF ClaimUnavailable
  <2>3. QED
    BY <1>2, <2>1, <2>2
<1>4. ASSUME NEW c \in Callers, Act(c) PROVE Own(k)
  <2>1. c \in Holders(k)' => c \in Holders(k) /\ call'[c].request = call[c].request
    BY <1>4, <1>t DEF Act, Holders, Calls
  <2>2. UNCHANGED <<row, lapses>> /\ \A d \in Callers \ {c} : call'[d] = call[d]
    BY <1>4, <1>t DEF Act
  <2>3. QED
    BY <1>2, <2>1, <2>2
<1>5. ASSUME NEW c \in Callers, Return(c) \/ CallerDies(c) PROVE Own(k)
  <2>1. c \notin Holders(k)'
    BY <1>5, <1>t DEF Return, CallerDies, Holders, NoCall
  <2>2. UNCHANGED <<row, lapses>> /\ \A d \in Callers \ {c} : call'[d] = call[d]
    BY <1>5, <1>t DEF Return, CallerDies
  <2>3. QED
    BY <1>2, <2>1, <2>2
<1>6. ASSUME NEW c \in Callers, NEW stored \in BOOLEAN,
             Succeed(c, stored) \/ Fail(c, stored) \/ FailAfterAct(c, stored)
      PROVE  Own(k)
  <2>1. PICK a, r : Answers(c, a, r, stored)
    BY <1>6 DEF Succeed, Fail, FailAfterAct
  <2>2. lapses' = lapses /\ c \in Holders(call[c].key) /\ call[c].key \in Keys
    BY <1>6 DEF Succeed, Fail, FailAfterAct, Holders, CallOK
  <2>3. c \notin Holders(k)' /\ \A d \in Callers \ {c} : call'[d] = call[d]
    BY <2>1, <1>t DEF Answers, Holders, Calls
  <2>4. Holders(k)' \subseteq Holders(k) \ {c}
    BY <2>3 DEF Holders
  <2>5. CASE call[c].key = k
    <3>1. lapses[k] = 0 => Holders(k)' = {}
      BY <2>2, <2>4, <2>5 DEF OwnRow
    <3>2. QED
      BY <2>2, <3>1
  <2>6. CASE call[c].key # k
    <3>1. row'[k] = row[k]
      BY <1>t, <2>1, <2>6 DEF Answers
    <3>2. \A d \in Holders(k)' : call'[d].request = call[d].request
      BY <2>3 DEF Holders
    <3>3. QED
      BY <2>2, <2>4, <3>1, <3>2, OwnRowKeeps
  <2>7. QED
    BY <2>5, <2>6
<1>7. ASSUME NEW j \in Keys, Purge(j) PROVE Own(k)
  <2>1. Holders(k)' = Holders(k) /\ call' = call
    BY <1>7 DEF Purge, Holders
  <2>2. CASE j = k
    BY <1>7, <1>t, <2>2 DEF Purge
  <2>3. CASE j # k
    <3>1. row'[k] = row[k] /\ lapses'[k] = lapses[k]
      BY <1>7, <1>t, <2>3 DEF Purge
    <3>2. QED
      BY <2>1, <3>1, OwnRowKeeps
  <2>4. QED
    BY <2>2, <2>3
<1>8. QED
  BY <1>1, <1>3, <1>4, <1>5, <1>6, <1>7 DEF KeyNext, CallerStep

\* What a done row stores, and what a call answers.
RowTells(k)  == row[k].state = "done" /\ lapses[k] = 0 => row[k].result = row[k].request
CallTells(c) == call[c].at = "answered" /\ call[c].answer.how = "ok" /\ lapses[call[c].key] = 0
                    => call[c].answer.of = call[c].request

LEMMA ReplayStep ==
  ASSUME KeyTypeOK, CallOK, OwnRow, ReplayIsOfTheRequest, KeyNext
  PROVE  ReplayIsOfTheRequest'
<1>0. (\A k \in Keys : RowTells(k)) /\ (\A c \in Callers : CallTells(c))
  BY DEF ReplayIsOfTheRequest, RowTells, CallTells
<1>t. /\ row \in [Keys -> Rows] /\ call \in [Callers -> Calls] /\ lapses \in [Keys -> Nat]
  BY DEF KeyTypeOK
<1> SUFFICES (\A k \in Keys : RowTells(k)') /\ (\A c \in Callers : CallTells(c)')
  BY DEF ReplayIsOfTheRequest, RowTells, CallTells
<1>1. ASSUME NEW c \in Callers, NEW j \in Keys, NEW q \in Requests, Claim(c, j, q)
      PROVE  (\A k \in Keys : RowTells(k)') /\ (\A d \in Callers : CallTells(d)')
  <2>1. lapses' = lapses /\ \A d \in Callers \ {c} : call'[d] = call[d]
    BY <1>1, <1>t DEF Claim
  <2>2. ASSUME NEW k \in Keys PROVE RowTells(k)'
    BY <1>0, <1>1, <1>t, <2>1 DEF Claim, RowTells
  <2>3. CallTells(c)'
    <3>1. CASE Free(j)
      BY <1>1, <1>t, <3>1 DEF Claim, CallTells
    <3>2. CASE ~Free(j)
      <4>1. call'[c].answer = Reply(j, q) /\ call'[c].key = j /\ call'[c].request = q
        BY <1>1, <1>t, <3>2 DEF Claim
      <4>2. RowTells(j)
        BY <1>0
      <4>3. Reply(j, q).how = "ok" => /\ row[j].request = q /\ row[j].state = "done"
                                      /\ Reply(j, q).of = row[j].result
        BY DEF Reply, Answer
      <4>4. QED
        BY <2>1, <4>1, <4>2, <4>3 DEF CallTells, RowTells
    <3>3. QED
      BY <3>1, <3>2
  <2>4. QED
    BY <1>0, <2>1, <2>2, <2>3 DEF CallTells
<1>2. ASSUME NEW c \in Callers, UNCHANGED <<row, lapses>>,
             \A d \in Callers \ {c} : call'[d] = call[d], CallTells(c)'
      PROVE  (\A k \in Keys : RowTells(k)') /\ (\A d \in Callers : CallTells(d)')
  BY <1>0, <1>2 DEF RowTells, CallTells
<1>3. ASSUME NEW c \in Callers, NEW j \in Keys, NEW q \in Requests, ClaimUnavailable(c, j, q)
      PROVE  (\A k \in Keys : RowTells(k)') /\ (\A d \in Callers : CallTells(d)')
  <2>1. CallTells(c)'
    BY <1>3, <1>t DEF ClaimUnavailable, CallTells, Answer
  <2>2. UNCHANGED <<row, lapses>> /\ \A d \in Callers \ {c} : call'[d] = call[d]
    BY <1>3, <1>t DEF ClaimUnavailable
  <2>3. QED
    BY <1>2, <2>1, <2>2
<1>4. ASSUME NEW c \in Callers, Act(c)
      PROVE  (\A k \in Keys : RowTells(k)') /\ (\A d \in Callers : CallTells(d)')
  <2>1. CallTells(c)'
    BY <1>4, <1>t DEF Act, CallTells, Calls
  <2>2. UNCHANGED <<row, lapses>> /\ \A d \in Callers \ {c} : call'[d] = call[d]
    BY <1>4, <1>t DEF Act
  <2>3. QED
    BY <1>2, <2>1, <2>2
<1>5. ASSUME NEW c \in Callers, Return(c) \/ CallerDies(c)
      PROVE  (\A k \in Keys : RowTells(k)') /\ (\A d \in Callers : CallTells(d)')
  <2>1. CallTells(c)'
    BY <1>5, <1>t DEF Return, CallerDies, CallTells, NoCall
  <2>2. UNCHANGED <<row, lapses>> /\ \A d \in Callers \ {c} : call'[d] = call[d]
    BY <1>5, <1>t DEF Return, CallerDies
  <2>3. QED
    BY <1>2, <2>1, <2>2
<1>6. ASSUME NEW c \in Callers, NEW stored \in BOOLEAN, Succeed(c, stored)
      PROVE  (\A k \in Keys : RowTells(k)') /\ (\A d \in Callers : CallTells(d)')
  <2> DEFINE j == call[c].key
             q == call[c].request
  <2>1. lapses' = lapses /\ j \in Keys /\ c \in Holders(j)
    BY <1>6 DEF Succeed, CallOK, Holders
  <2>2. Answers(c, Answer("ok", q), Finished(j, q), stored)
    BY <1>6 DEF Succeed
  <2>3. \A d \in Callers \ {c} : call'[d] = call[d]
    BY <1>t, <2>2 DEF Answers
  <2>4. CallTells(c)'
    BY <1>t, <2>2 DEF Answers, Answer, CallTells, Calls
  <2>5. lapses[j] = 0 => row[j].request = q
    BY <2>1 DEF OwnRow
  <2>6. ASSUME NEW k \in Keys PROVE RowTells(k)'
    <3>1. CASE k = j /\ stored
      <4>1. row'[k] = Finished(j, q)
        BY <1>t, <2>2, <3>1 DEF Answers
      <4>2. row[j] \in Rows
        BY <1>t, <2>1
      <4>3. lapses[j] = 0 => (Finished(j, q).state = "done" => Finished(j, q).result = Finished(j, q).request)
        BY <2>5, <4>2 DEF Finished, Free, Rows
      <4>4. QED
        BY <2>1, <3>1, <4>1, <4>3 DEF RowTells
    <3>2. CASE ~(k = j /\ stored)
      <4>1. row'[k] = row[k]
        BY <1>t, <2>2, <3>2 DEF Answers
      <4>2. QED
        BY <1>0, <2>1, <4>1 DEF RowTells
    <3>3. QED
      BY <3>1, <3>2
  <2>7. QED
    BY <1>0, <2>1, <2>3, <2>4, <2>6 DEF CallTells
<1>7. ASSUME NEW c \in Callers, NEW stored \in BOOLEAN, Fail(c, stored) \/ FailAfterAct(c, stored)
      PROVE  (\A k \in Keys : RowTells(k)') /\ (\A d \in Callers : CallTells(d)')
  <2>1. lapses' = lapses /\ Answers(c, Failed, Released(call[c].key), stored)
    BY <1>7 DEF Fail, FailAfterAct
  <2>2. \A d \in Callers \ {c} : call'[d] = call[d]
    BY <1>t, <2>1 DEF Answers
  <2>3. CallTells(c)'
    BY <1>t, <2>1 DEF Answers, Answer, Failed, CallTells, Calls
  <2>4. ASSUME NEW k \in Keys PROVE RowTells(k)'
    <3>1. row'[k] = row[k] \/ row'[k] = NoRow
      BY <1>t, <2>1 DEF Answers, Released
    <3>2. QED
      BY <1>0, <2>1, <3>1 DEF RowTells, NoRow
  <2>5. QED
    BY <1>0, <2>1, <2>2, <2>3, <2>4 DEF CallTells
<1>8. ASSUME NEW j \in Keys, Purge(j)
      PROVE  (\A k \in Keys : RowTells(k)') /\ (\A d \in Callers : CallTells(d)')
  <2>1. call' = call /\ \A k \in Keys : lapses'[k] = 0 => lapses[k] = 0
    BY <1>8, <1>t DEF Purge
  <2>2. ASSUME NEW k \in Keys PROVE RowTells(k)'
    <3>1. row'[k] = row[k] \/ row'[k] = NoRow
      BY <1>8, <1>t DEF Purge
    <3>2. QED
      BY <1>0, <2>1, <3>1 DEF RowTells, NoRow
  <2>3. ASSUME NEW d \in Callers PROVE CallTells(d)'
    BY <1>0, <2>1 DEF CallTells, CallOK
  <2>4. QED
    BY <2>2, <2>3
<1>9. QED
  BY <1>1, <1>3, <1>4, <1>5, <1>6, <1>7, <1>8 DEF KeyNext, CallerStep

----------------------------------------------------------------------------
(* The theorem *)

LEMMA KeyInvInit ==
  ASSUME KeyInit
  PROVE  KeyInv
<1>1. KeyTypeOK
  <2>1. NoRow \in Rows /\ NoCall \in Calls
    BY DEF NoRow, Rows, NoCall, Calls
  <2>2. QED
    BY <2>1 DEF KeyInit, KeyTypeOK
<1>2. CallOK /\ OwnRow /\ ReplayIsOfTheRequest
  BY DEF KeyInit, NoRow, NoCall, CallOK, OwnRow, Holders, ReplayIsOfTheRequest
<1>3. ASSUME NEW k \in Keys PROVE Running(k) = {}
  BY DEF KeyInit, NoCall, Running
<1>4. ActsAccounted
  BY <1>3, FS_EmptySet DEF ActsAccounted, KeyInit, NoRow, Free
<1>5. QED
  BY <1>1, <1>2, <1>4 DEF KeyInv

LEMMA KeyInvStep ==
  ASSUME KeyInv, [KeyNext]_keyVars
  PROVE  KeyInv'
<1>1. CASE KeyNext
  BY <1>1, KeyTypeStep, AccountStep, OwnRowStep, ReplayStep DEF KeyInv
<1>2. CASE UNCHANGED keyVars
  <2>1. \A k : Running(k)' = Running(k) /\ Holders(k)' = Holders(k) /\ Free(k)' = Free(k)
    BY <1>2 DEF keyVars, Running, Holders, Free
  <2>2. KeyTypeOK' /\ CallOK' /\ OwnRow' /\ ReplayIsOfTheRequest'
    BY <1>2, <2>1 DEF KeyInv, keyVars, KeyTypeOK, CallOK, OwnRow, ReplayIsOfTheRequest
  <2>3. ActsAccounted'
    BY <1>2, <2>1 DEF KeyInv, keyVars, ActsAccounted
  <2>4. QED
    BY <2>2, <2>3 DEF KeyInv
<1>3. QED
  BY <1>1, <1>2

\* A tool takes effect at most once per key, plus once per lapse and per hidden
\* effect, and (while no row lapsed) an answer is the result of its own request.
THEOREM KeyInvCorrect == KeySpec => []KeyInv
  BY KeyInvInit, KeyInvStep, PTL DEF KeySpec

LEMMA KeyInvBounds ==
  ASSUME KeyInv
  PROVE  ActsBounded /\ ReplayIsOfTheRequest
<1>1. ASSUME NEW k \in Keys PROVE acts[k] <= 1 + lapses[k] + unsure[k]
  <2>1. /\ acts[k] \in Nat /\ lapses[k] \in Nat /\ unsure[k] \in Nat
        /\ Cardinality(Running(k)) \in Nat
    BY RunningFinite DEF KeyInv, KeyTypeOK
  <2>2. QED
    BY <2>1 DEF KeyInv, ActsAccounted
<1>2. QED
  BY <1>1 DEF ActsBounded, KeyInv

\* "Run fn at most once per key" and "the original result comes back"
\* (idempotency.py), for any callers, keys and requests.
THEOREM KeysCorrect == KeySpec => [](ActsBounded /\ ReplayIsOfTheRequest)
  BY KeyInvCorrect, KeyInvBounds, PTL

----------------------------------------------------------------------------
(* Least and greatest numbers *)

LEMMA MinOfNats ==
  ASSUME NEW S \in SUBSET Nat, S # {}
  PROVE  \E m \in S : \A n \in S : m <= n
<1>1. PICK m \in S : \A n \in S : ~ (<<n, m>> \in OpToRel(<, Nat))
  BY WFMin, NatLessThanWellFounded
<1>2. \A n \in S : ~ (n < m)
  BY <1>1 DEF OpToRel
<1>3. \A n \in S : n \in Nat /\ m \in Nat
  OBVIOUS
<1>4. QED
  BY <1>2, <1>3

LEMMA MinInSet ==
  ASSUME NEW S \in SUBSET Nat, S # {}
  PROVE  Min(S) \in S
  BY MinOfNats DEF Min

LEMMA MaxInSet ==
  ASSUME NEW b \in Nat, NEW S \in SUBSET (0 .. b), S # {}
  PROVE  Max(S) \in S
<1> DEFINE U == {n \in Nat : \A x \in S : x <= n}
<1>1. PICK m \in U : \A n \in U : m <= n
  <2>1. b \in U /\ U \in SUBSET Nat
    OBVIOUS
  <2> HIDE DEF U
  <2>2. QED
    BY <2>1, MinOfNats
<1>2. m \in S
  <2>1. CASE m = 0
    <3>1. PICK x \in S : TRUE
      OBVIOUS
    <3>2. x <= m /\ x \in Nat
      BY <1>1
    <3>3. QED
      BY <2>1, <3>2
  <2>2. CASE m # 0
    <3>1. m - 1 \in Nat /\ m - 1 \notin U
      <4>1. m \in Nat
        BY <1>1
      <4>2. m - 1 \in Nat /\ ~ (m <= m - 1)
        BY <4>1, <2>2
      <4>3. QED
        BY <1>1, <4>2
    <3>2. PICK x \in S : ~ (x <= m - 1)
      BY <3>1
    <3>3. x <= m /\ x \in Nat
      BY <1>1
    <3>4. QED
      BY <1>1, <3>1, <3>2, <3>3
  <2>3. QED
    BY <2>1, <2>2
<1>3. \E z \in S : \A x \in S : z >= x
  BY <1>1, <1>2
<1>4. QED
  BY <1>3 DEF Max

----------------------------------------------------------------------------
(* Types and pointers *)

\* Where a worker has a run, where it has a checkpoint, and its call.
WithCheckpoint == {"loop", "hold call", "gateway", "hold approved", "approved", "tool",
                   "hold node", "put node"}
PointersOf(w) ==
    /\ pc[w] # "idle" => cur[w] \in Runs
    /\ pc[w] \in WithCheckpoint => cp[w] \in Keys
    /\ call[w].at # "idle" => pc[w] = "tool" /\ call[w].key = cp[w] /\ call[w].request = cur[w]
Pointers == \A w \in Workers : PointersOf(w)
LeaseHeld == lease.live => lease.holder \in Workers

LEMMA LatestType ==
  ASSUME RuntimeTypeOK
  PROVE  Latest \in 0 .. MaxCp /\ (Latest # 0 => Latest \in Keys)
<1> DEFINE S == {0} \cup {k \in Keys : cps[k].run # None}
<1>1. MaxCp \in Nat /\ S \in SUBSET (0 .. MaxCp) /\ S # {}
  BY RuntimeAssumption
<1>2. Max(S) \in S
  <2> HIDE DEF S
  <2>1. QED
    BY <1>1, MaxInSet
<1>3. QED
  BY <1>1, <1>2, RuntimeAssumption DEF Latest

LEMMA WaitingMin ==
  ASSUME Waiting # {}
  PROVE  Min(Waiting) \in Runs
  BY MinInSet, RuntimeAssumption DEF Waiting

LEMMA TypeInit ==
  ASSUME Init
  PROVE  RuntimeTypeOK /\ Pointers /\ LeaseHeld
<1>1. RuntimeTypeOK
  BY RuntimeAssumption
  DEF Init, RuntimeTypeOK, NoInterrupt, NoBase, NoLease, RunRows, Checkpoints, Interrupts, Points
<1>2. Pointers
  BY RuntimeAssumption DEF Init, Pointers, PointersOf, KeyInit, NoCall, WithCheckpoint
<1>4. LeaseHeld
  BY DEF Init, NoLease, LeaseHeld
<1>3. QED
  BY <1>1, <1>2, <1>4

\* Rows with one field written.
LEMMA StatusTyped ==
  ASSUME NEW x \in RunRows, NEW s \in Active \cup Settled \cup {"none"}
  PROVE  [x EXCEPT !.status = s] \in RunRows
  BY DEF RunRows
LEMMA StopTyped ==
  ASSUME NEW x \in RunRows, NEW s \in {None, "interrupt", "rollback", "cancel"}
  PROVE  [x EXCEPT !.stop = s] \in RunRows
  BY DEF RunRows

LEMMA StatusOfRun ==
  ASSUME RuntimeTypeOK, NEW r, NEW s \in Active \cup Settled, run' = [run EXCEPT ![r].status = s]
  PROVE  run' \in [Runs -> RunRows]
<1>1. run \in [Runs -> RunRows]
  BY DEF RuntimeTypeOK
<1>2. r \in Runs => [run[r] EXCEPT !.status = s] \in RunRows
  BY <1>1, StatusTyped
<1>3. QED
  BY <1>1, <1>2

LEMMA DiscardTyped ==
  ASSUME RuntimeTypeOK, NEW r, NEW b
  PROVE  Discarded(r, b) \in [Keys -> Checkpoints]
  BY DEF RuntimeTypeOK, Discarded, Checkpoints

LEMMA RequestsType ==
  ASSUME RuntimeTypeOK, NEW r \in Runs,
         Submit(r) \/ Resume(r) \/ CancelRead(r) \/ CancelWrite(r) \/ ExecuteNothing(r)
  PROVE  RuntimeTypeOK'
<1>t. run \in [Runs -> RunRows] /\ cps \in [Keys -> Checkpoints] /\ interrupt \in [Keys -> Interrupts]
      /\ cancelling \in [Runs -> {None} \cup Cancels] /\ todo \subseteq Runs /\ faults \in 0 .. MaxFaults
  BY DEF RuntimeTypeOK
<1>1. CASE Submit(r)
  <2>1. run' \in [Runs -> RunRows]
    <3>1. ASSUME NEW s \in Runs, strategy \in {"interrupt", "rollback"} PROVE Decided(s) \in RunRows
      <4>1. [run[s] EXCEPT !.stop = strategy] \in RunRows
        BY <1>t, <3>1, StopTyped
      <4>2. \A z \in {"superseded", "rolled_back"} : [run[s] EXCEPT !.status = z] \in RunRows
        BY <1>t, StatusTyped DEF Settled
      <4>3. QED
        BY <4>1, <4>2 DEF Decided
    <3>2. [run[r] EXCEPT !.status = "pending"] \in RunRows
      BY <1>t, StatusTyped DEF Active
    <3>3. QED
      BY <1>t, <1>1, <3>1, <3>2 DEF Submit
  <2>2. cps' \in [Keys -> Checkpoints]
    BY <1>t, <1>1 DEF Submit, Checkpoints
  <2>3. QED
    BY <1>t, <1>1, <2>1, <2>2 DEF RuntimeTypeOK, Submit, workerVars
<1>2. CASE Resume(r)
  <2>1. run' \in [Runs -> RunRows]
    BY <1>2, StatusOfRun DEF Resume, Active
  <2>2. interrupt' \in [Keys -> Interrupts]
    BY <1>t, <1>2 DEF Resume, Interrupts
  <2>3. QED
    BY <1>t, <1>2, <2>1, <2>2 DEF RuntimeTypeOK, Resume, workerVars
<1>3. CASE CancelRead(r)
  <2>1. Below(run[r].base) \in 0 .. MaxCp
    BY <1>t, RuntimeAssumption DEF Below, RunRows
  <2>2. cancelling' \in [Runs -> {None} \cup Cancels]
    BY <1>t, <1>3, <2>1 DEF CancelRead, Cancels
  <2>3. faults' \in 0 .. MaxFaults
    BY <1>t, <1>3, RuntimeAssumption DEF CancelRead, UseFault
  <2>4. QED
    BY <1>t, <1>3, <2>2, <2>3 DEF RuntimeTypeOK, CancelRead, runVars, workerVars
<1>4. CASE CancelWrite(r)
  <2>1. cancelling[r] \in Cancels /\ run[r] \in RunRows
    BY <1>t, <1>4 DEF CancelWrite
  <2>2. run' \in [Runs -> RunRows]
    <3>1. cancelling[r].action \in {"cancel", "rollback"}
      BY <2>1 DEF Cancels
    <3>2. [run[r] EXCEPT !.stop = cancelling[r].action] \in RunRows
      BY <2>1, <3>1, StopTyped
    <3>3. \A s \in {"cancelled", "rolled_back"} : [run[r] EXCEPT !.status = s] \in RunRows
      BY <2>1, StatusTyped DEF Settled
    <3>4. QED
      BY <1>t, <1>4, <3>2, <3>3 DEF CancelWrite
  <2>3. cps' \in [Keys -> Checkpoints]
    BY <1>t, <1>4, DiscardTyped DEF CancelWrite
  <2>4. cancelling' \in [Runs -> {None} \cup Cancels]
    BY <1>t, <1>4 DEF CancelWrite
  <2>5. QED
    BY <1>4, <2>2, <2>3, <2>4 DEF RuntimeTypeOK, CancelWrite, workerVars
<1>5. CASE ExecuteNothing(r)
  BY <1>5 DEF RuntimeTypeOK, ExecuteNothing, runVars, workerVars
<1>6. QED
  BY <1>1, <1>2, <1>3, <1>4, <1>5

LEMMA LeavesType ==
  ASSUME RuntimeTypeOK, NEW w \in Workers, Leaves(w)
  PROVE  /\ pc' \in [Workers -> Points] /\ cur' \in [Workers -> Runs \cup {None}]
         /\ base' \in [Workers -> {NoBase} \cup 0 .. MaxCp] /\ cp' \in [Workers -> 0 .. MaxCp]
         /\ overrun' \subseteq Workers
<1>1. pc' \in [Workers -> Points]
  BY DEF RuntimeTypeOK, Leaves, Goto, Points
<1>2. cur' \in [Workers -> Runs \cup {None}] /\ base' \in [Workers -> {NoBase} \cup 0 .. MaxCp]
  BY DEF RuntimeTypeOK, Leaves
<1>3. cp' \in [Workers -> 0 .. MaxCp]
  BY RuntimeAssumption DEF RuntimeTypeOK, Leaves
<1>4. QED
  BY <1>1, <1>2, <1>3 DEF RuntimeTypeOK, Leaves

LEMMA GotoType ==
  ASSUME RuntimeTypeOK, NEW w, NEW p \in Points, Goto(w, p)
  PROVE  pc' \in [Workers -> Points]
  BY DEF RuntimeTypeOK, Goto

LEMMA HeldType ==
  ASSUME NEW w \in Workers
  PROVE  Held(w) \in [holder : Workers \cup {None}, live : BOOLEAN]
  BY DEF Held

LEMMA FaultType ==
  ASSUME RuntimeTypeOK, UseFault \/ faults' = faults
  PROVE  faults' \in 0 .. MaxFaults
  BY RuntimeAssumption DEF RuntimeTypeOK, UseFault

\* What the journal takes.
LEMMA JournaledType ==
  ASSUME RuntimeTypeOK, NEW k, NEW e \in Entries
  PROVE  Journaled(k, e) \in [Keys -> {None} \cup Entries]
  BY DEF RuntimeTypeOK, Journaled

LEMMA LeaseStepsType ==
  ASSUME RuntimeTypeOK, LeaseHeld, NEW w \in Workers,
         Acquire(w) \/ Hold(w) \/ Release(w) \/ Beat(w) \/ LeaseExpires \/ Stall
  PROVE  RuntimeTypeOK'
<1>h. Held(w) \in [holder : Workers \cup {None}, live : BOOLEAN]
  BY HeldType
<1>1. CASE Acquire(w)
  <2>1. CASE Leaves(w) /\ lease' = lease
    BY <1>1, <2>1, LeavesType DEF RuntimeTypeOK, Acquire
  <2>2. CASE Goto(w, "enter") /\ lease' = Held(w) /\ UNCHANGED <<cur, base, cp, overrun>>
    <3>1. pc' \in [Workers -> Points]
      BY <2>2, GotoType DEF Points
    <3>2. QED
      BY <1>h, <1>1, <2>2, <3>1 DEF RuntimeTypeOK, Acquire
  <2>3. QED
    BY <1>1, <2>1, <2>2 DEF Acquire
<1>2. CASE Hold(w)
  <2>1. PICK p \in Points : Goto(w, p)
    BY <1>2 DEF Hold, AfterHold, Points
  <2>2. pc' \in [Workers -> Points]
    BY <2>1, GotoType
  <2>3. lease' \in {lease, Held(w)}
    BY <1>2 DEF Hold
  <2>4. QED
    BY <1>h, <1>2, <2>2, <2>3 DEF RuntimeTypeOK, Hold
<1>3. CASE Release(w)
  BY <1>3, LeavesType DEF RuntimeTypeOK, Release, NoLease
<1>4. CASE Beat(w)
  BY <1>h, <1>4 DEF RuntimeTypeOK, Beat, workerVars
<1>5. CASE LeaseExpires
  BY <1>5 DEF RuntimeTypeOK, LeaseExpires, workerVars
<1>6. CASE Stall
  <2>1. faults' \in 0 .. MaxFaults
    BY <1>6, FaultType DEF Stall
  <2>2. lease.holder \in Workers
    BY <1>6 DEF Stall, LeaseHeld
  <2>3. QED
    BY <1>6, <2>1, <2>2 DEF RuntimeTypeOK, Stall
<1>7. QED
  BY <1>1, <1>2, <1>3, <1>4, <1>5, <1>6

LEMMA ProgramStepsType ==
  ASSUME RuntimeTypeOK, Pointers, NEW w \in Workers,
         Enter(w) \/ Put(w) \/ Finish(w) \/ Stop(w) \/ CallTool(w) \/ Park(w) \/ NextPending(w)
  PROVE  RuntimeTypeOK'
<1>t. /\ run \in [Runs -> RunRows] /\ cps \in [Keys -> Checkpoints] /\ interrupt \in [Keys -> Interrupts]
      /\ journal \in [Keys -> {None} \cup Entries] /\ cur \in [Workers -> Runs \cup {None}]
      /\ base \in [Workers -> {NoBase} \cup 0 .. MaxCp] /\ cp \in [Workers -> 0 .. MaxCp]
  BY DEF RuntimeTypeOK
<1>l. Latest \in 0 .. MaxCp /\ (Latest # 0 => Latest \in Keys) /\ MaxCp \in Nat
  BY LatestType, RuntimeAssumption
<1>1. CASE Enter(w)
  <2> DEFINE r == cur[w]
             b == IF Continues(r) THEN 0 ELSE Latest
             stuck == Answered(r) # {} /\ ~Continues(r)
  <2>1. b \in 0 .. MaxCp /\ r \in Runs
    <3>1. r \in Runs
      BY <1>1 DEF Enter, Pointers, PointersOf
    <3>2. \A z \in {0, Latest} : z \in 0 .. MaxCp
      BY <1>l
    <3>3. QED
      BY <3>1, <3>2
  <2>2. run' \in [Runs -> RunRows]
    <3>1. /\ run[r] \in RunRows
          /\ run' = [run EXCEPT ![r] = [run[r] EXCEPT !.base = IF base[w] = NoBase THEN b ELSE run[r].base,
                                                     !.status = IF stuck THEN "error" ELSE "running"]]
      BY <1>t, <1>1, <2>1 DEF Enter
    <3>2. ASSUME NEW x \in RunRows, NEW c \in {NoBase} \cup 0 .. MaxCp, NEW s \in Active \cup Settled
          PROVE  [x EXCEPT !.base = c, !.status = s] \in RunRows
      BY DEF RunRows
    <3>3. run[r].base \in {NoBase} \cup 0 .. MaxCp
      BY <3>1 DEF RunRows
    <3>4. (IF stuck THEN "error" ELSE "running") \in Active \cup Settled
      BY DEF Active, Settled
    <3> HIDE DEF stuck, b, r
    <3>5. QED
      BY <1>t, <2>1, <3>1, <3>2, <3>3, <3>4
  <2>3. interrupt' \in [Keys -> Interrupts]
    <3>1. ASSUME NEW x \in Interrupts PROVE [x EXCEPT !.state = "consumed"] \in Interrupts
      BY DEF Interrupts
    <3>2. QED
      BY <1>t, <1>1, <3>1 DEF Enter
  <2>4. base' \in [Workers -> {NoBase} \cup 0 .. MaxCp]
    <3>1. base' = [base EXCEPT ![w] = IF base[w] = NoBase THEN b ELSE base[w]]
      BY <1>1 DEF Enter
    <3> HIDE DEF b
    <3>2. QED
      BY <1>t, <2>1, <3>1
  <2>5. cp' \in [Workers -> 0 .. MaxCp]
    <3>1. cp' = [cp EXCEPT ![w] = Latest] \/ cp' = [cp EXCEPT ![w] = 0]
      BY <1>1 DEF Enter
    <3>2. \A z \in {0, Latest} : z \in 0 .. MaxCp
      BY <1>l
    <3>3. QED
      BY <1>t, <3>1, <3>2
  <2>6. pc' \in [Workers -> Points]
    <3>1. Goto(w, "ended") \/ Goto(w, "loop") \/ Goto(w, "next") \/ Goto(w, "hold input")
      BY <1>1 DEF Enter
    <3>2. QED
      BY <3>1, GotoType DEF Points
  <2>7. QED
    BY <1>1, <2>2, <2>3, <2>4, <2>5, <2>6 DEF RuntimeTypeOK, Enter
<1>2. CASE Put(w)
  <2>1. Latest + 1 \in 0 .. MaxCp /\ cur[w] \in Runs
    <3>1. Latest < MaxCp /\ cur[w] \in Runs
      BY <1>2 DEF Put, Pointers, PointersOf
    <3>2. QED
      BY <3>1, <1>l
  <2>2. cps' \in [Keys -> Checkpoints]
    <3>1. [run |-> cur[w], end |-> pc[w] = "put node"] \in Checkpoints
      BY <2>1 DEF Checkpoints
    <3>2. QED
      BY <1>t, <1>2, <3>1 DEF Put
  <2>3. cp' \in [Workers -> 0 .. MaxCp]
    BY <1>t, <1>2, <2>1 DEF Put
  <2>4. pc' \in [Workers -> Points]
    <3>1. PICK p \in Points : Goto(w, p)
      BY <1>2 DEF Put, Points
    <3>2. QED
      BY <3>1, GotoType
  <2>5. QED
    BY <1>2, <2>2, <2>3, <2>4 DEF RuntimeTypeOK, Put
<1>3. CASE Finish(w) \/ Stop(w) \/ Park(w)
  <2>1. pc' \in [Workers -> Points]
    <3>1. Goto(w, "next") /\ "next" \in Points
      BY <1>3 DEF Finish, Stop, Park, Points
    <3>2. QED
      BY <3>1, GotoType
  <2>2. run' \in [Runs -> RunRows]
    <3>1. \E s \in Active \cup Settled : run' = [run EXCEPT ![cur[w]].status = s]
      BY <1>3 DEF Finish, Stop, Park, StatusOf, Active, Settled
    <3>2. QED
      BY <3>1, StatusOfRun
  <2>3. cps' \in [Keys -> Checkpoints]
    BY <1>t, <1>3, DiscardTyped DEF Finish, Stop, Park
  <2>4. interrupt' \in [Keys -> Interrupts]
    <3>1. CASE Park(w)
      <4>1. [state |-> "open", run |-> cur[w], approve |-> FALSE] \in Interrupts
        BY <3>1 DEF Park, Pointers, PointersOf, Interrupts
      <4>2. QED
        BY <1>t, <3>1, <4>1 DEF Park
    <3>2. QED
      BY <1>t, <1>3, <3>1 DEF Finish, Stop
  <2>5. QED
    BY <1>3, <2>1, <2>2, <2>3, <2>4 DEF RuntimeTypeOK, Finish, Stop, Park
<1>4. CASE CallTool(w)
  <2>1. PICK p \in Points : Goto(w, p)
    BY <1>4 DEF CallTool, Points
  <2>2. pc' \in [Workers -> Points]
    BY <2>1, GotoType
  <2>3. Entry(w, "rejected", None) \in Entries
    BY <1>4 DEF CallTool, Pointers, PointersOf, Entry, Entries
  <2>4. journal' \in [Keys -> {None} \cup Entries]
    BY <1>t, <1>4, <2>3, JournaledType DEF CallTool
  <2>5. QED
    BY <1>4, <2>2, <2>4 DEF RuntimeTypeOK, CallTool
<1>5. CASE NextPending(w)
  <2>1. PICK p \in Points : Goto(w, p)
    BY <1>5 DEF NextPending, Points
  <2>2. pc' \in [Workers -> Points]
    BY <2>1, GotoType
  <2>3. cur' \in [Workers -> Runs \cup {None}] /\ base' \in [Workers -> {NoBase} \cup 0 .. MaxCp]
    <3>1. CASE UNCHANGED <<cur, base>>
      BY <1>t, <3>1
    <3>2. CASE ~UNCHANGED <<cur, base>>
      <4>1. Min(Waiting) \in Runs
        BY <1>5, <3>2, WaitingMin DEF NextPending
      <4>2. run[Min(Waiting)].base \in {NoBase} \cup 0 .. MaxCp
        BY <1>t, <4>1 DEF RunRows
      <4>3. QED
        BY <1>t, <1>5, <3>2, <4>1, <4>2 DEF NextPending
    <3>3. QED
      BY <3>1, <3>2
  <2>4. QED
    BY <1>5, <2>2, <2>3 DEF RuntimeTypeOK, NextPending, runVars
<1>6. QED
  BY <1>1, <1>2, <1>3, <1>4, <1>5

LEMMA ToolStepsType ==
  ASSUME CallOK, RuntimeTypeOK, Pointers, NEW w \in Workers,
         Invoke(w) \/ ToolActs(w) \/ ToolAnswers(w) \/ Record(w) \/ Takes(w) \/ Crash(w)
  PROVE  RuntimeTypeOK'
<1>t. /\ run \in [Runs -> RunRows] /\ todo \subseteq Runs
      /\ journal \in [Keys -> {None} \cup Entries] /\ cur \in [Workers -> Runs \cup {None}]
      /\ base \in [Workers -> {NoBase} \cup 0 .. MaxCp] /\ performed \subseteq Runs \X Keys
  BY DEF RuntimeTypeOK
<1>1. CASE Invoke(w)
  <2>1. faults' \in 0 .. MaxFaults
    BY <1>1, FaultType DEF Invoke
  <2>2. pc' \in [Workers -> Points]
    BY <1>1, GotoType DEF Invoke, Points
  <2>3. QED
    BY <1>1, <2>1, <2>2 DEF RuntimeTypeOK, Invoke, runVars
<1>2. CASE ToolActs(w)
  <2>1. cur[w] \in Runs /\ cp[w] \in Keys
    BY <1>2 DEF ToolActs, Pointers, PointersOf, WithCheckpoint
  <2>2. performed' \subseteq Runs \X Keys
    BY <1>t, <1>2, <2>1 DEF ToolActs
  <2>3. QED
    BY <1>2, <2>2 DEF RuntimeTypeOK, ToolActs, runVars, workerVars
<1>3. CASE ToolAnswers(w)
  <2>1. faults' \in 0 .. MaxFaults
    BY <1>3, FaultType DEF ToolAnswers
  <2>2. QED
    BY <1>3, <2>1 DEF RuntimeTypeOK, ToolAnswers, runVars, workerVars
<1>4. CASE Record(w)
  <2> DEFINE e == Entry(w, call[w].answer.how, call[w].answer.of)
  <2>1. cur[w] \in Runs
    BY <1>4 DEF Record, Pointers, PointersOf
  <2>2. call[w].answer \in Replies
    BY <1>4, RuntimeAssumption DEF Record, Return, CallOK
  <2>3. e \in Entries
    BY <2>1, <2>2, RuntimeAssumption DEF Entry, Entries, Replies
  <2>4. journal' \in [Keys -> {None} \cup Entries]
    <3> HIDE DEF e
    <3>1. journal' = Journaled(cp[w], e)
      BY <1>4 DEF Record, e
    <3>2. QED
      BY <2>3, <3>1, JournaledType
  <2>5. pc' \in [Workers -> Points]
    BY <1>4, GotoType DEF Record, Points
  <2>6. QED
    BY <1>4, <2>4, <2>5 DEF RuntimeTypeOK, Record
<1>5. CASE Takes(w)
  <2>1. PICK r \in Runs : Read(w, r) /\ todo' \subseteq todo
    BY <1>5 DEF Takes, Execute, Recover
  <2>2. pc' \in [Workers -> Points]
    BY <2>1, GotoType DEF Read, Points
  <2>3. run[r].base \in {NoBase} \cup 0 .. MaxCp
    BY <1>t DEF RunRows
  <2>4. cur' \in [Workers -> Runs \cup {None}] /\ base' \in [Workers -> {NoBase} \cup 0 .. MaxCp]
    BY <1>t, <2>1, <2>3 DEF Read
  <2>5. QED
    BY <1>t, <2>1, <2>2, <2>4 DEF RuntimeTypeOK, Read, runVars
<1>6. CASE Crash(w)
  <2>1. faults' \in 0 .. MaxFaults
    BY <1>6, FaultType DEF Crash
  <2>2. QED
    BY <1>t, <1>6, <2>1, LeavesType DEF RuntimeTypeOK, Crash, runVars
<1>7. QED
  BY <1>1, <1>2, <1>3, <1>4, <1>5, <1>6

LEMMA TypeStep ==
  ASSUME CallOK, RuntimeTypeOK, Pointers, LeaseHeld, Next
  PROVE  RuntimeTypeOK'
<1>1. ASSUME NEW w \in Workers, Steps(w) \/ Takes(w) \/ Beat(w) \/ Crash(w) PROVE RuntimeTypeOK'
  BY <1>1, LeaseStepsType, ProgramStepsType, ToolStepsType DEF Steps
<1>2. CASE LeaseExpires \/ Stall
  <2>1. lease.holder \in Workers
    BY <1>2 DEF LeaseExpires, Stall, LeaseHeld
  <2>2. QED
    BY <1>2, <2>1, LeaseStepsType
<1>3. ASSUME NEW k \in Keys, KeyLapses(k) PROVE RuntimeTypeOK'
  <2>1. faults' \in 0 .. MaxFaults
    BY <1>3, FaultType DEF KeyLapses
  <2>2. QED
    BY <1>3, <2>1 DEF RuntimeTypeOK, KeyLapses, runVars, workerVars
<1>4. QED
  BY <1>1, <1>2, <1>3, RequestsType DEF Next

----------------------------------------------------------------------------
(* Every step is a step of Idempotency, or none *)

LEMMA StepsKeys ==
  ASSUME RuntimeTypeOK, Pointers, Next
  PROVE  [KeyNext]_keyVars
<1> USE RuntimeAssumption
<1>1. ASSUME NEW w \in Workers, Invoke(w) PROVE KeyNext
  <2>1. cp[w] \in Keys /\ cur[w] \in Requests
    BY <1>1 DEF Invoke, Pointers, PointersOf, WithCheckpoint
  <2>2. Claim(w, cp[w], cur[w]) \/ ClaimUnavailable(w, cp[w], cur[w])
    BY <1>1 DEF Invoke
  <2>3. QED
    BY <2>1, <2>2 DEF KeyNext, CallerStep
<1>2. ASSUME NEW w \in Workers, ToolActs(w) \/ ToolAnswers(w) \/ Record(w) \/ Crash(w) PROVE KeyNext
  <2>1. \/ Act(w) \/ Return(w) \/ CallerDies(w)
        \/ \E stored \in BOOLEAN : Succeed(w, stored) \/ Fail(w, stored) \/ FailAfterAct(w, stored)
    BY <1>2 DEF ToolActs, ToolAnswers, Record, Crash
  <2>2. QED
    BY <2>1 DEF KeyNext, CallerStep
<1>3. ASSUME NEW k \in Keys, KeyLapses(k) PROVE KeyNext
  BY <1>3 DEF KeyLapses, KeyNext
<1>4. ASSUME NEW w \in Workers,
             \/ Acquire(w) \/ Enter(w) \/ Hold(w) \/ Put(w) \/ Finish(w) \/ Stop(w) \/ CallTool(w)
             \/ Park(w) \/ NextPending(w) \/ Release(w) \/ Takes(w) \/ Beat(w)
      PROVE  UNCHANGED keyVars
  BY <1>4 DEF Acquire, Enter, Hold, Put, Finish, Stop, CallTool, Park, NextPending, Release, Takes,
     Execute, Recover, Read, Beat
<1>5. ASSUME NEW r \in Runs,
             Submit(r) \/ Resume(r) \/ CancelRead(r) \/ CancelWrite(r) \/ ExecuteNothing(r)
      PROVE  UNCHANGED keyVars
  BY <1>5 DEF Submit, Resume, CancelRead, CancelWrite, ExecuteNothing
<1>6. CASE LeaseExpires \/ Stall
  BY <1>6 DEF LeaseExpires, Stall
<1>7. QED
  BY <1>1, <1>2, <1>3, <1>4, <1>5, <1>6 DEF Next, Steps

----------------------------------------------------------------------------
(* Where the workers are *)

\* A worker's step is about itself.
Elsewhere(w) ==
    \A v \in Workers \ {w} :
        /\ pc'[v] = pc[v] /\ cur'[v] = cur[v] /\ cp'[v] = cp[v] /\ call'[v] = call[v]
        /\ v \in overrun' <=> v \in overrun

LEMMA OwnStep ==
  ASSUME KeyTypeOK, RuntimeTypeOK, NEW w \in Workers, Steps(w) \/ Takes(w) \/ Crash(w)
  PROVE  Elsewhere(w)
<1>t. /\ pc \in [Workers -> Points] /\ cur \in [Workers -> Runs \cup {None}]
      /\ cp \in [Workers -> 0 .. MaxCp] /\ call \in [Workers -> Calls]
  BY RuntimeAssumption DEF RuntimeTypeOK, KeyTypeOK
<1> USE DEF Elsewhere
<1>1. CASE Leaves(w) /\ (call' = call \/ CallerDies(w))
  BY <1>t, <1>1 DEF Leaves, Goto, CallerDies
<1>2. ASSUME NEW p, Goto(w, p), UNCHANGED <<keyVars, cur, cp, overrun>> PROVE Elsewhere(w)
  BY <1>t, <1>2 DEF Goto, keyVars
<1>3. CASE Enter(w) \/ Put(w) \/ NextPending(w) \/ Takes(w)
  BY <1>t, <1>3 DEF Enter, Put, NextPending, Takes, Execute, Recover, Read, Goto, keyVars
<1>4. CASE Acquire(w) \/ Release(w) \/ Crash(w)
  BY <1>1, <1>2, <1>4 DEF Acquire, Release, Crash, keyVars
<1>5. CASE Hold(w) \/ Finish(w) \/ Stop(w) \/ CallTool(w) \/ Park(w)
  BY <1>2, <1>5 DEF Hold, Finish, Stop, CallTool, Park
<1>6. CASE Invoke(w)
  <2>1. call' = [call EXCEPT ![w] = call'[w]]
    BY <1>t, <1>6 DEF Invoke, Claim, ClaimUnavailable
  <2>2. QED
    BY <1>t, <1>6, <2>1 DEF Invoke, Goto
<1>7. CASE ToolActs(w) \/ ToolAnswers(w) \/ Record(w)
  <2>1. call' = [call EXCEPT ![w] = call'[w]]
    BY <1>t, <1>7 DEF ToolActs, ToolAnswers, Record, Act, Succeed, Fail, FailAfterAct, Answers, Return
  <2>2. pc' = pc \/ Goto(w, "hold node")
    BY <1>7 DEF ToolActs, ToolAnswers, Record, workerVars
  <2>3. UNCHANGED <<cur, cp, overrun>>
    BY <1>7 DEF ToolActs, ToolAnswers, Record, workerVars
  <2>4. QED
    BY <1>t, <2>1, <2>2, <2>3 DEF Goto
<1>8. QED
  BY <1>3, <1>4, <1>5, <1>6, <1>7 DEF Steps

\* The steps of everyone else, and of time.
Outside ==
    \/ \E w \in Workers : Beat(w)
    \/ \E r \in Runs : Submit(r) \/ Resume(r) \/ CancelRead(r) \/ CancelWrite(r) \/ ExecuteNothing(r)
    \/ LeaseExpires \/ Stall \/ \E k \in Keys : KeyLapses(k)

LEMMA OutsideStep ==
  ASSUME Outside
  PROVE  UNCHANGED <<call, pc, cur, base, cp, performed, journal>>
  BY DEF Outside, Beat, Submit, Resume, CancelRead, CancelWrite, ExecuteNothing, LeaseExpires, Stall,
     KeyLapses, Purge, keyVars, runVars, workerVars

LEMMA PointersStep ==
  ASSUME KeyTypeOK, RuntimeTypeOK, Pointers, Next
  PROVE  Pointers'
<1>t. /\ pc \in [Workers -> Points] /\ cur \in [Workers -> Runs \cup {None}]
      /\ cp \in [Workers -> 0 .. MaxCp] /\ call \in [Workers -> Calls]
  BY RuntimeAssumption DEF RuntimeTypeOK, KeyTypeOK
<1>1. CASE Outside
  BY <1>1, OutsideStep DEF Pointers, PointersOf
<1>2. ASSUME NEW w \in Workers, Steps(w) \/ Takes(w) \/ Crash(w), PointersOf(w)' PROVE Pointers'
  BY <1>2, OwnStep DEF Elsewhere, Pointers, PointersOf
<1>3. ASSUME NEW w \in Workers, Steps(w) \/ Takes(w) \/ Crash(w) PROVE PointersOf(w)'
  <2>0. PointersOf(w) /\ (pc[w] # "tool" => call[w].at = "idle")
    BY DEF Pointers, PointersOf
  <2>1. CASE Acquire(w) \/ Release(w) \/ Crash(w)
    <3>1. CASE Leaves(w)
      <4>1. pc'[w] = "idle"
        BY <1>t, <3>1 DEF Leaves, Goto
      <4>2. call'[w].at = "idle"
        BY <1>t, <2>0, <2>1 DEF Acquire, Release, Crash, CallerDies, NoCall, keyVars
      <4>3. QED
        BY <4>1, <4>2 DEF PointersOf, WithCheckpoint
    <3>2. CASE Goto(w, "enter") /\ Acquire(w) /\ UNCHANGED <<cur, cp>>
      BY <1>t, <2>0, <3>2 DEF Acquire, Goto, PointersOf, WithCheckpoint, keyVars
    <3>3. QED
      BY <2>1, <3>1, <3>2 DEF Acquire, Release, Crash
  <2>2. CASE Hold(w) \/ Finish(w) \/ Stop(w) \/ CallTool(w) \/ Park(w)
    <3>1. PICK p : Goto(w, p) /\ (p \in WithCheckpoint => pc[w] \in WithCheckpoint)
      <4>1. CASE Hold(w)
        <5>1. pc[w] = "hold input" \/ pc[w] \in WithCheckpoint
          BY <4>1 DEF Hold, WithCheckpoint
        <5>4. pc[w] = "hold input" => AfterHold(pc[w]) \notin WithCheckpoint
          BY DEF AfterHold, WithCheckpoint
        <5>2. "release" \notin WithCheckpoint
          BY DEF WithCheckpoint
        <5>3. QED
          BY <4>1, <5>1, <5>2, <5>4 DEF Hold
      <4>2. CASE Finish(w) \/ Stop(w) \/ Park(w)
        <5>1. Goto(w, "next") /\ "next" \notin WithCheckpoint
          BY <4>2 DEF Finish, Stop, Park, WithCheckpoint
        <5>2. QED
          BY <5>1
      <4>3. CASE CallTool(w)
        <5>1. pc[w] \in WithCheckpoint
          BY <4>3 DEF CallTool, WithCheckpoint
        <5>2. \E p : Goto(w, p)
          BY <4>3 DEF CallTool
        <5>3. QED
          BY <5>1, <5>2
      <4>4. QED
        BY <2>2, <4>1, <4>2, <4>3
    <3>2. pc[w] \notin {"idle", "tool"} /\ UNCHANGED <<cur, cp, call>>
      BY <2>2 DEF Hold, Finish, Stop, CallTool, Park, keyVars
    <3>3. QED
      BY <1>t, <2>0, <3>1, <3>2 DEF Goto, PointersOf
  <2>3. CASE Enter(w)
    <3>1. cp'[w] = (IF Continues(cur[w]) THEN Latest ELSE 0) /\ UNCHANGED <<cur, call>> /\ cur[w] \in Runs
      BY <1>t, <2>0, <2>3 DEF Enter, PointersOf, keyVars
    <3>2. Continues(cur[w]) => cp'[w] \in Keys
      BY <3>1, LatestType DEF Continues
    <3>3. pc'[w] \in WithCheckpoint => Continues(cur[w])
      <4>1. Continues(cur[w]) \/ Goto(w, "next") \/ Goto(w, "hold input")
        BY <2>3 DEF Enter
      <4>2. QED
        BY <1>t, <4>1 DEF Goto, WithCheckpoint
    <3>4. call'[w].at = "idle"
      BY <2>0, <2>3, <3>1 DEF Enter
    <3>5. QED
      BY <3>1, <3>2, <3>3, <3>4 DEF PointersOf
  <2>4. CASE Put(w)
    <3>1. Latest + 1 \in Keys /\ Latest + 1 \in 0 .. MaxCp
      <4>1. Latest < MaxCp
        BY <2>4 DEF Put
      <4>2. QED
        BY <4>1, LatestType, RuntimeAssumption
    <3>2. cp'[w] = Latest + 1 /\ UNCHANGED <<cur, call>>
      BY <1>t, <2>4 DEF Put, keyVars
    <3>3. cur[w] \in Runs /\ call[w].at = "idle"
      BY <2>0, <2>4 DEF Put, PointersOf
    <3>4. QED
      BY <3>1, <3>2, <3>3 DEF PointersOf
  <2>5. CASE NextPending(w)
    <3>1. cur'[w] \in Runs
      <4>1. CASE cur' = cur
        BY <2>0, <2>5, <4>1 DEF NextPending, PointersOf
      <4>2. CASE cur' # cur
        BY <1>t, <2>5, <4>2, WaitingMin DEF NextPending
      <4>3. QED
        BY <4>1, <4>2
    <3>2. pc'[w] \notin WithCheckpoint /\ call' = call /\ call[w].at = "idle"
      BY <1>t, <2>0, <2>5 DEF NextPending, Goto, WithCheckpoint, keyVars
    <3>3. QED
      BY <3>1, <3>2 DEF PointersOf
  <2>6. CASE Takes(w)
    <3>1. PICK r \in Runs : Read(w, r)
      BY <2>6 DEF Takes, Execute, Recover
    <3>2. QED
      BY <1>t, <2>0, <3>1 DEF Read, Goto, PointersOf, WithCheckpoint, keyVars
  <2>7. CASE Invoke(w)
    <3>1. call'[w].key = cp[w] /\ call'[w].request = cur[w]
      BY <1>t, <2>7 DEF Invoke, Claim, ClaimUnavailable
    <3>2. pc'[w] = "tool" /\ UNCHANGED <<cur, cp>>
      BY <1>t, <2>7 DEF Invoke, Goto
    <3>3. cur[w] \in Runs /\ cp[w] \in Keys
      BY <2>0, <2>7 DEF Invoke, PointersOf, WithCheckpoint
    <3>4. QED
      BY <3>1, <3>2, <3>3 DEF PointersOf
  <2>8. CASE ToolActs(w) \/ ToolAnswers(w)
    <3>1. pc[w] = "tool" /\ UNCHANGED <<pc, cur, cp>> /\ call[w].at # "idle"
      BY <2>8 DEF ToolActs, ToolAnswers, workerVars, Act, Succeed, Fail, FailAfterAct
    <3>2. call'[w].key = call[w].key /\ call'[w].request = call[w].request
      BY <1>t, <2>8 DEF ToolActs, ToolAnswers, Act, Succeed, Fail, FailAfterAct, Answers, Calls
    <3>3. QED
      BY <2>0, <3>1, <3>2 DEF PointersOf
  <2>9. CASE Record(w)
    <3>1. pc'[w] = "hold node" /\ call'[w].at = "idle" /\ UNCHANGED <<cur, cp>>
      BY <1>t, <2>9 DEF Record, Goto, Return, NoCall
    <3>2. QED
      BY <2>0, <2>9, <3>1 DEF Record, PointersOf, WithCheckpoint
  <2>10. QED
    BY <1>3, <2>1, <2>2, <2>3, <2>4, <2>5, <2>6, <2>7, <2>8, <2>9 DEF Steps
<1>4. QED
  BY <1>1, <1>2, <1>3 DEF Next, Outside

----------------------------------------------------------------------------
(* The lease *)

\* A worker that steps without having overrun its lease is its holder, so a
\* lease that somebody else may take has no such worker.
LEMMA HolderAlone ==
  ASSUME StepperHoldsLease, NEW w \in Workers, Acquirable(w), NEW v \in Workers, v # w,
         Stepping(v)
  PROVE  v \in overrun
  BY RuntimeAssumption DEF StepperHoldsLease, Acquirable, Held

LEMMA LeaseStep ==
  ASSUME KeyTypeOK, RuntimeTypeOK, LeaseHeld, StepperHoldsLease, Next
  PROVE  StepperHoldsLease' /\ LeaseHeld'
<1>t. pc \in [Workers -> Points] /\ overrun \subseteq Workers
  BY DEF RuntimeTypeOK
<1>1. ASSUME NEW w \in Workers, Steps(w) \/ Takes(w) \/ Crash(w)
      PROVE  StepperHoldsLease' /\ LeaseHeld'
  <2>0. Elsewhere(w)
    BY <1>1, OwnStep
  <2>1. CASE /\ Acquirable(w) /\ lease' = Held(w)
    BY <2>0, <2>1, HolderAlone DEF StepperHoldsLease, Stepping, LeaseHeld, Held, Elsewhere
  <2>2. CASE lease' = lease /\ Stepping(w) /\ overrun' = overrun
    BY <2>0, <2>2 DEF StepperHoldsLease, Stepping, LeaseHeld, Held, Elsewhere
  <2>3. CASE lease' = lease /\ ~Stepping(w)'
    BY <2>0, <2>3 DEF StepperHoldsLease, Stepping, LeaseHeld, Held, Elsewhere
  <2>4. CASE Release(w)
    <3>1. ~Stepping(w)'
      BY <1>t, <2>4 DEF Release, Leaves, Goto, Stepping
    <3>2. lease' = IF lease.holder = w THEN NoLease ELSE lease
      BY <2>4 DEF Release
    <3>3. ASSUME NEW v \in Workers, Stepping(v)', v \notin overrun' PROVE lease' = Held(v)'
      <4>1. v # w /\ Stepping(v) /\ v \notin overrun
        BY <2>0, <3>1, <3>3 DEF Elsewhere, Stepping
      <4>2. lease = Held(v)
        BY <4>1 DEF StepperHoldsLease
      <4>3. QED
        BY <3>2, <4>1, <4>2 DEF Held
    <3>4. LeaseHeld'
      BY <3>2 DEF LeaseHeld, NoLease
    <3>5. QED
      BY <3>3, <3>4 DEF StepperHoldsLease
  <2>5. CASE Acquire(w)
    <3>1. CASE Leaves(w) /\ lease' = lease
      BY <1>t, <2>3, <3>1 DEF Leaves, Goto, Stepping
    <3>2. QED
      BY <2>1, <2>5, <3>1 DEF Acquire
  <2>6. CASE Hold(w)
    BY <2>1, <2>2, <2>6 DEF Hold, Stepping
  <2>7. CASE Enter(w) \/ Put(w) \/ Finish(w) \/ Stop(w) \/ CallTool(w) \/ Park(w) \/ NextPending(w)
    BY <2>2, <2>7 DEF Enter, Put, Finish, Stop, CallTool, Park, NextPending, runVars, Stepping
  <2>8. CASE Invoke(w) \/ ToolActs(w) \/ ToolAnswers(w) \/ Record(w)
    BY <2>2, <2>8 DEF Invoke, ToolActs, ToolAnswers, Record, runVars, workerVars, Stepping
  <2>9. CASE Takes(w)
    <3>1. lease' = lease /\ Goto(w, "acquire")
      BY <2>9 DEF Takes, Execute, Recover, Read, runVars
    <3>2. QED
      BY <1>t, <2>3, <3>1 DEF Goto, Stepping
  <2>10. CASE Crash(w)
    <3>1. lease' = lease /\ Leaves(w)
      BY <2>10 DEF Crash, runVars
    <3>2. QED
      BY <1>t, <2>3, <3>1 DEF Leaves, Goto, Stepping
  <2>11. QED
    BY <1>1, <2>4, <2>5, <2>6, <2>7, <2>8, <2>9, <2>10 DEF Steps
<1>2. CASE UNCHANGED <<lease, pc, overrun>>
  BY <1>2 DEF StepperHoldsLease, LeaseHeld, Stepping, Held
<1>3. ASSUME NEW w \in Workers, Beat(w) PROVE StepperHoldsLease' /\ LeaseHeld'
  <2>1. pc' = pc /\ overrun' = overrun /\ lease' = Held(w) /\ lease = [holder |-> w, live |-> FALSE]
    BY <1>3 DEF Beat, workerVars
  <2>2. \A v \in Workers : ~(Stepping(v) /\ v \notin overrun)
    BY <2>1 DEF StepperHoldsLease, Held
  <2>3. QED
    BY <2>1, <2>2 DEF StepperHoldsLease, LeaseHeld, Stepping, Held
<1>4. CASE LeaseExpires
  <2>1. pc' = pc /\ overrun' = overrun /\ ~lease'.live
    BY <1>4 DEF LeaseExpires, workerVars, RuntimeTypeOK
  <2>2. \A v \in Workers : ~(Stepping(v) /\ v \notin overrun)
    BY <1>4 DEF LeaseExpires, StepperHoldsLease, Held
  <2>3. QED
    BY <2>1, <2>2 DEF StepperHoldsLease, LeaseHeld, Stepping
<1>5. CASE Stall
  <2>1. pc' = pc /\ overrun' = overrun \cup {lease.holder} /\ ~lease'.live
    BY <1>5 DEF Stall, RuntimeTypeOK
  <2>2. \A v \in Workers : Stepping(v) /\ v \notin overrun => v = lease.holder
    BY DEF StepperHoldsLease, Held
  <2>3. QED
    BY <2>1, <2>2 DEF StepperHoldsLease, LeaseHeld, Stepping
<1>6. ASSUME NEW r \in Runs,
             Submit(r) \/ Resume(r) \/ CancelRead(r) \/ CancelWrite(r) \/ ExecuteNothing(r)
      PROVE  UNCHANGED <<lease, pc, overrun>>
  BY <1>6 DEF Submit, Resume, CancelRead, CancelWrite, ExecuteNothing, runVars, workerVars
<1>7. ASSUME NEW k \in Keys, KeyLapses(k) PROVE UNCHANGED <<lease, pc, overrun>>
  BY <1>7 DEF KeyLapses, runVars, workerVars
<1>8. QED
  BY <1>1, <1>2, <1>3, <1>4, <1>5, <1>6, <1>7 DEF Next

----------------------------------------------------------------------------
(* Approvals *)

\* A worker on its way to a gated tool has the human's approval of this call.
Approves(k) == Decision(k) /\ interrupt[k].approve
ApprovedAt(w) ==
    pc[w] \in {"hold approved", "approved"} \/ (pc[w] = "tool" /\ cur[w] \in Gated) => Approves(cp[w])
Approvals == \A w \in Workers : ApprovedAt(w)

\* An approval is not taken back.
LEMMA ApprovalsStay ==
  ASSUME RuntimeTypeOK, Next, NEW k \in Keys, Approves(k)
  PROVE  Approves(k)'
<1>t. interrupt \in [Keys -> Interrupts] /\ interrupt[k].state \in {"resolved", "consumed"}
  BY DEF RuntimeTypeOK, Approves, Decision
<1> USE DEF Approves, Decision
<1>1. CASE interrupt' = interrupt
  BY <1>1
<1>2. ASSUME NEW r \in Runs, Resume(r) PROVE Approves(k)'
  BY <1>t, <1>2 DEF Resume
<1>3. ASSUME NEW w \in Workers, Enter(w) PROVE Approves(k)'
  <2>1. interrupt'[k] = interrupt[k] \/ interrupt'[k] = [interrupt[k] EXCEPT !.state = "consumed"]
    BY <1>3 DEF Enter
  <2>2. interrupt[k] \in Interrupts
    BY <1>t
  <2>3. QED
    BY <2>1, <2>2 DEF Interrupts
<1>4. ASSUME NEW w \in Workers, Park(w) PROVE Approves(k)'
  <2>1. interrupt[k] # NoInterrupt
    BY <1>t DEF NoInterrupt
  <2>2. interrupt'[k] = interrupt[k]
    BY <1>t, <1>4, <2>1 DEF Park
  <2>3. QED
    BY <2>2
<1>5. ASSUME NEW w \in Workers,
             \/ Acquire(w) \/ Hold(w) \/ Put(w) \/ Finish(w) \/ Stop(w) \/ CallTool(w)
             \/ NextPending(w) \/ Release(w)
      PROVE  interrupt' = interrupt
  BY <1>5 DEF Acquire, Hold, Put, Finish, Stop, CallTool, NextPending, Release, runVars
<1>6. ASSUME NEW w \in Workers,
             Invoke(w) \/ ToolActs(w) \/ ToolAnswers(w) \/ Record(w) \/ Takes(w) \/ Beat(w) \/ Crash(w)
      PROVE  interrupt' = interrupt
  BY <1>6 DEF Invoke, ToolActs, ToolAnswers, Record, Takes, Execute, Recover, Read, Beat, Crash, runVars
<1>7. ASSUME NEW r \in Runs, Submit(r) \/ CancelRead(r) \/ CancelWrite(r) \/ ExecuteNothing(r)
      PROVE  interrupt' = interrupt
  BY <1>7 DEF Submit, CancelRead, CancelWrite, ExecuteNothing, runVars
<1>8. CASE LeaseExpires \/ Stall \/ \E j \in Keys : KeyLapses(j)
  BY <1>8 DEF LeaseExpires, Stall, KeyLapses, runVars
<1>9. QED
  BY <1>1, <1>2, <1>3, <1>4, <1>5, <1>6, <1>7, <1>8 DEF Next, Steps

LEMMA ApprovalStep ==
  ASSUME KeyTypeOK, RuntimeTypeOK, Pointers, Approvals, NoActWithoutApproval, Next
  PROVE  Approvals' /\ NoActWithoutApproval'
<1>t. /\ pc \in [Workers -> Points] /\ cur \in [Workers -> Runs \cup {None}]
      /\ cp \in [Workers -> 0 .. MaxCp] /\ performed \subseteq Runs \X Keys
  BY DEF RuntimeTypeOK
<1>k. \A k \in Keys : Approves(k) => Approves(k)'
  BY ApprovalsStay
<1> USE DEF Approves, Decision
<1>a. ASSUME NEW w \in Workers, NEW v \in Workers, v # w, Elsewhere(w) PROVE ApprovedAt(v)'
  <2>1. ApprovedAt(v) /\ (pc[v] \in WithCheckpoint => cp[v] \in Keys)
    BY DEF Approvals, Pointers, PointersOf
  <2>2. QED
    BY <1>k, <1>a, <2>1 DEF Elsewhere, ApprovedAt, WithCheckpoint
<1>1. ASSUME NEW w \in Workers, Steps(w) \/ Takes(w) \/ Crash(w) PROVE Approvals'
  <2> SUFFICES ApprovedAt(w)'
    BY <1>1, <1>a, OwnStep DEF Approvals
  <2>0. ApprovedAt(w) /\ (pc[w] \in WithCheckpoint => cp[w] \in Keys)
    BY DEF Approvals, Pointers, PointersOf
  <2>1. ASSUME pc'[w] \notin {"hold approved", "approved", "tool"} PROVE ApprovedAt(w)'
    BY <2>1 DEF ApprovedAt
  <2>2. CASE Acquire(w) \/ Release(w) \/ Crash(w) \/ Takes(w)
    BY <1>t, <2>1, <2>2 DEF Acquire, Release, Crash, Leaves, Takes, Execute, Recover, Read, Goto
  <2>3. CASE Enter(w)
    <3>1. Goto(w, "ended") \/ Goto(w, "loop") \/ Goto(w, "next") \/ Goto(w, "hold input")
      BY <2>3 DEF Enter
    <3>2. QED
      BY <1>t, <2>1, <3>1 DEF Goto
  <2>4. CASE Put(w) \/ Finish(w) \/ Stop(w) \/ Park(w) \/ NextPending(w) \/ Record(w)
    BY <1>t, <2>1, <2>4 DEF Put, Finish, Stop, Park, NextPending, Record, Goto
  <2>5. CASE Hold(w)
    <3>1. cp' = cp /\ (pc'[w] = "approved" => pc[w] = "hold approved") /\ pc'[w] \notin {"hold approved", "tool"}
      BY <1>t, <2>5 DEF Hold, AfterHold, Goto
    <3>2. QED
      BY <1>k, <2>0, <3>1 DEF ApprovedAt, WithCheckpoint
  <2>6. CASE CallTool(w)
    <3>1. cp' = cp /\ pc'[w] \notin {"approved", "tool"} /\ pc[w] = "loop"
      BY <1>t, <2>6 DEF CallTool, Goto
    <3>2. pc'[w] = "hold approved" => Decision(cp[w]) /\ Approved(cp[w])
      BY <1>t, <2>6 DEF CallTool, Goto
    <3>3. QED
      BY <1>k, <2>0, <3>1, <3>2 DEF ApprovedAt, WithCheckpoint, Approves, Approved
  <2>7. CASE Invoke(w)
    <3>1. cp' = cp /\ cur' = cur /\ pc'[w] = "tool"
      BY <1>t, <2>7 DEF Invoke, Goto
    <3>2. pc[w] = "approved" \/ cur[w] \notin Gated
      BY <2>7 DEF Invoke
    <3>3. QED
      BY <1>k, <2>0, <3>1, <3>2 DEF ApprovedAt, WithCheckpoint
  <2>8. CASE ToolActs(w) \/ ToolAnswers(w)
    <3>1. UNCHANGED <<pc, cur, cp>>
      BY <2>8 DEF ToolActs, ToolAnswers, workerVars
    <3>2. QED
      BY <1>k, <2>0, <3>1 DEF ApprovedAt, WithCheckpoint
  <2>9. QED
    BY <1>1, <2>2, <2>3, <2>4, <2>5, <2>6, <2>7, <2>8 DEF Steps
<1>2. ASSUME Outside PROVE Approvals'
  <2>1. pc' = pc /\ cur' = cur /\ cp' = cp
    BY <1>2, OutsideStep
  <2>2. ASSUME NEW w \in Workers PROVE ApprovedAt(w)'
    <3>1. ApprovedAt(w) /\ (pc[w] \in WithCheckpoint => cp[w] \in Keys)
      BY DEF Approvals, Pointers, PointersOf
    <3>2. QED
      BY <1>k, <2>1, <3>1 DEF ApprovedAt, WithCheckpoint
  <2>3. QED
    BY <2>2 DEF Approvals
<1>3. ASSUME performed' = performed PROVE NoActWithoutApproval'
  BY <1>t, <1>k, <1>3 DEF NoActWithoutApproval, Approves
<1>4. ASSUME NEW w \in Workers, ToolActs(w) PROVE NoActWithoutApproval'
  <2>1. performed' = performed \cup {<<cur[w], cp[w]>>} /\ pc[w] = "tool"
    BY <1>4 DEF ToolActs
  <2>2. cp[w] \in Keys /\ (cur[w] \in Gated => Approves(cp[w]))
    BY <2>1 DEF Pointers, PointersOf, WithCheckpoint, Approvals, ApprovedAt
  <2>3. QED
    BY <1>t, <1>k, <2>1, <2>2 DEF NoActWithoutApproval, Approves
<1>5. ASSUME NEW w \in Workers,
             \/ Acquire(w) \/ Enter(w) \/ Hold(w) \/ Put(w) \/ Finish(w) \/ Stop(w) \/ CallTool(w)
             \/ Park(w) \/ Invoke(w) \/ ToolAnswers(w) \/ Record(w) \/ NextPending(w) \/ Release(w)
             \/ Takes(w) \/ Crash(w)
      PROVE  performed' = performed
  BY <1>5 DEF Acquire, Enter, Hold, Put, Finish, Stop, CallTool, Park, Invoke, ToolAnswers, Record,
     NextPending, Release, Takes, Execute, Recover, Read, Crash
<1>6. QED
  BY <1>1, <1>2, <1>3, <1>4, <1>5, OutsideStep DEF Next, Steps, Outside

----------------------------------------------------------------------------
(* The journal *)

\* Whatever is stored or answered as a success was an effect under that key.
RowsTrue == \A k \in Keys : row[k].state = "done" => <<row[k].result, k>> \in performed
CallTrue(w) ==
    /\ call[w].at = "acted" => <<call[w].request, call[w].key>> \in performed
    /\ call[w].at = "answered" /\ call[w].answer.how = "ok"
        => <<call[w].answer.of, call[w].key>> \in performed
CallsTrue == \A w \in Workers : CallTrue(w)
Truth == RowsTrue /\ CallsTrue /\ JournalIsTrue

LEMMA TruthStep ==
  ASSUME KeyTypeOK, RuntimeTypeOK, Pointers, CallOK, Truth, Next
  PROVE  Truth'
<1>t. /\ row \in [Keys -> Rows] /\ call \in [Workers -> Calls] /\ journal \in [Keys -> {None} \cup Entries]
      /\ RowsTrue /\ CallsTrue /\ JournalIsTrue
  BY RuntimeAssumption DEF KeyTypeOK, RuntimeTypeOK, Truth
\* A step that only adds effects.
<1>a. ASSUME UNCHANGED <<row, call, journal>>, performed \subseteq performed' PROVE Truth'
  BY <1>a, <1>t DEF Truth, RowsTrue, CallsTrue, CallTrue, JournalIsTrue
<1>1. ASSUME NEW w \in Workers,
             \/ Acquire(w) \/ Enter(w) \/ Hold(w) \/ Put(w) \/ Finish(w) \/ Stop(w) \/ Park(w)
             \/ NextPending(w) \/ Release(w) \/ Takes(w)
      PROVE  Truth'
  <2>1. UNCHANGED <<row, call, journal, performed>>
    BY <1>1 DEF Acquire, Enter, Hold, Put, Finish, Stop, Park, NextPending, Release, Takes, Execute,
       Recover, Read, keyVars, runVars
  <2>2. QED
    BY <1>a, <2>1
<1>2. ASSUME NEW w \in Workers, CallTool(w) PROVE Truth'
  <2>1. UNCHANGED <<row, call, performed>>
    BY <1>2 DEF CallTool, keyVars
  <2>2. ASSUME NEW k \in Keys PROVE journal'[k] = journal[k] \/ journal'[k].how = "rejected"
    BY <1>t, <1>2 DEF CallTool, Journaled, Entry
  <2>3. JournalIsTrue'
    BY <1>t, <2>1, <2>2 DEF JournalIsTrue
  <2>4. QED
    BY <1>t, <2>1, <2>3 DEF Truth, RowsTrue, CallsTrue, CallTrue
<1>3. ASSUME NEW w \in Workers, Invoke(w) PROVE Truth'
  <2>0. cp[w] \in Keys
    BY <1>3 DEF Invoke, Pointers, PointersOf, WithCheckpoint
  <2>1. UNCHANGED <<journal, performed>> /\ \A v \in Workers \ {w} : call'[v] = call[v]
    BY <1>3, <1>t DEF Invoke, Claim, ClaimUnavailable, runVars
  <2>2. \A k \in Keys : row'[k] = row[k] \/ row'[k].state = "pending"
    BY <1>3, <1>t DEF Invoke, Claim, ClaimUnavailable
  <2>3. CallTrue(w)'
    <3>1. CASE call'[w].at = "running"
      BY <3>1 DEF CallTrue
    <3>2. CASE call'[w].at # "running"
      <4>1. /\ call'[w].at = "answered" /\ call'[w].key = cp[w]
            /\ call'[w].answer \in {Reply(cp[w], cur[w]), Answer("unavailable", None)}
        BY <1>3, <1>t, <3>2 DEF Invoke, Claim, ClaimUnavailable
      <4>2. \A a \in {Reply(cp[w], cur[w]), Answer("unavailable", None)} :
               a.how = "ok" => row[cp[w]].state = "done" /\ a.of = row[cp[w]].result
        <5>1. LET a == Reply(cp[w], cur[w]) IN
              a.how = "ok" => row[cp[w]].state = "done" /\ a.of = row[cp[w]].result
          BY DEF Reply, Answer
        <5>2. Answer("unavailable", None).how # "ok"
          BY DEF Answer
        <5>3. QED
          BY <5>1, <5>2
      <4>3. QED
        BY <1>t, <2>0, <2>1, <4>1, <4>2 DEF CallTrue, RowsTrue
    <3>3. QED
      BY <3>1, <3>2
  <2>4. QED
    BY <1>t, <2>1, <2>2, <2>3 DEF Truth, RowsTrue, CallsTrue, CallTrue, JournalIsTrue
<1>4. ASSUME NEW w \in Workers, ToolActs(w) PROVE Truth'
  <2>1. UNCHANGED <<row, journal>> /\ performed' = performed \cup {<<call[w].request, call[w].key>>}
    BY <1>4 DEF ToolActs, Act, Pointers, PointersOf, runVars
  <2>2. \A v \in Workers \ {w} : call'[v] = call[v]
    BY <1>4, <1>t DEF ToolActs, Act
  <2>3. call'[w].at = "acted" /\ call'[w].request = call[w].request /\ call'[w].key = call[w].key
    BY <1>4, <1>t DEF ToolActs, Act, Calls
  <2>4. QED
    BY <1>t, <2>1, <2>2, <2>3 DEF Truth, RowsTrue, CallsTrue, CallTrue, JournalIsTrue
<1>5. ASSUME NEW w \in Workers, ToolAnswers(w) PROVE Truth'
  <2> DEFINE k == call[w].key
             q == call[w].request
  <2>1. UNCHANGED <<journal, performed>>
    BY <1>5 DEF ToolAnswers, runVars
  <2>2. PICK stored \in BOOLEAN :
           \/ call[w].at = "acted" /\ Answers(w, Answer("ok", q), Finished(k, q), stored)
           \/ Answers(w, Failed, Released(k), stored)
    BY <1>5 DEF ToolAnswers, Succeed, Fail, FailAfterAct
  <2>3. call[w].at # "idle" /\ k \in Keys
    BY <1>5, RuntimeAssumption DEF ToolAnswers, Succeed, Fail, FailAfterAct, CallOK
  <2>4. \A v \in Workers \ {w} : call'[v] = call[v]
    BY <1>t, <2>2 DEF Answers
  <2>5. CASE call[w].at = "acted" /\ Answers(w, Answer("ok", q), Finished(k, q), stored)
    <3>1. <<q, k>> \in performed
      BY <1>t, <2>5 DEF CallsTrue, CallTrue
    <3>2. call'[w].at = "answered" /\ call'[w].answer = Answer("ok", q) /\ call'[w].key = k
      BY <1>t, <2>5 DEF Answers, Calls
    <3>3. CallTrue(w)'
      BY <2>1, <3>1, <3>2 DEF CallTrue, Answer
    <3>4. ASSUME NEW j \in Keys, row'[j].state = "done" PROVE <<row'[j].result, j>> \in performed
      <4>1. CASE j = k /\ row'[j] = Finished(k, q)
        <5>1. row[k] \in Rows
          BY <1>t, <2>3
        <5>2. Finished(k, q).state = "done" => Finished(k, q).result = q
          BY <5>1 DEF Finished, Free, Rows
        <5>3. QED
          BY <3>1, <3>4, <4>1, <5>2
      <4>2. CASE row'[j] = row[j]
        BY <1>t, <3>4, <4>2 DEF RowsTrue
      <4>3. QED
        BY <1>t, <2>3, <2>5, <4>1, <4>2 DEF Answers
    <3>5. QED
      BY <1>t, <2>1, <2>4, <3>3, <3>4 DEF Truth, RowsTrue, CallsTrue, CallTrue, JournalIsTrue
  <2>6. CASE Answers(w, Failed, Released(k), stored)
    <3>1. call'[w].at = "answered" /\ call'[w].answer = Failed
      BY <1>t, <2>6 DEF Answers, Calls
    <3>2. CallTrue(w)'
      BY <3>1 DEF CallTrue, Failed, Answer
    <3>3. \A j \in Keys : row'[j] = row[j] \/ row'[j] = NoRow
      BY <1>t, <2>6 DEF Answers, Released
    <3>4. RowsTrue'
      BY <1>t, <2>1, <3>3 DEF RowsTrue, NoRow
    <3>5. QED
      BY <1>t, <2>1, <2>4, <3>2, <3>4 DEF Truth, CallsTrue, CallTrue, JournalIsTrue
  <2>7. QED
    BY <2>2, <2>5, <2>6
<1>6. ASSUME NEW w \in Workers, Record(w) PROVE Truth'
  <2> DEFINE e == Entry(w, call[w].answer.how, call[w].answer.of)
  <2>1. /\ UNCHANGED <<row, performed>> /\ call' = [call EXCEPT ![w] = NoCall] /\ cp[w] = call[w].key
        /\ call[w].at = "answered"
    BY <1>6 DEF Record, Return, Pointers, PointersOf
  <2>2. e.how = "ok" => <<e.of, cp[w]>> \in performed
    BY <1>t, <2>1 DEF Entry, CallsTrue, CallTrue
  <2>3. ASSUME NEW k \in Keys PROVE journal'[k] = journal[k] \/ (k = cp[w] /\ journal'[k] = e)
    <3>1. journal' = Journaled(cp[w], e)
      BY <1>6 DEF Record
    <3> HIDE DEF e
    <3>2. QED
      BY <1>t, <3>1 DEF Journaled
  <2> HIDE DEF e
  <2>4. JournalIsTrue'
    BY <1>t, <2>1, <2>2, <2>3 DEF JournalIsTrue
  <2>5. QED
    BY <1>t, <2>1, <2>4 DEF Truth, RowsTrue, CallsTrue, CallTrue, NoCall
<1>7. ASSUME NEW w \in Workers, Crash(w) PROVE Truth'
  BY <1>7, <1>t DEF Crash, CallerDies, NoCall, runVars, Truth, RowsTrue, CallsTrue, CallTrue, JournalIsTrue
<1>8. ASSUME NEW k \in Keys, KeyLapses(k) PROVE Truth'
  <2>1. UNCHANGED <<call, journal, performed>>
    BY <1>8 DEF KeyLapses, Purge, runVars
  <2>2. \A j \in Keys : row'[j] = row[j] \/ row'[j] = NoRow
    BY <1>8, <1>t DEF KeyLapses, Purge
  <2>3. QED
    BY <1>t, <2>1, <2>2 DEF Truth, RowsTrue, CallsTrue, CallTrue, JournalIsTrue, NoRow
<1>9. ASSUME NEW r \in Runs,
             Submit(r) \/ Resume(r) \/ CancelRead(r) \/ CancelWrite(r) \/ ExecuteNothing(r)
      PROVE  UNCHANGED <<row, call, journal, performed>>
  BY <1>9 DEF Submit, Resume, CancelRead, CancelWrite, ExecuteNothing, keyVars, runVars
<1>10. ASSUME NEW w \in Workers, Beat(w) \/ LeaseExpires \/ Stall
       PROVE  UNCHANGED <<row, call, journal, performed>>
  BY <1>10 DEF Beat, LeaseExpires, Stall, keyVars
<1>11. CASE LeaseExpires \/ Stall
  BY <1>11, <1>a DEF LeaseExpires, Stall, keyVars
<1>12. QED
  BY <1>a, <1>1, <1>2, <1>3, <1>4, <1>5, <1>6, <1>7, <1>8, <1>9, <1>10, <1>11 DEF Next, Steps

----------------------------------------------------------------------------
(* The theorems *)

RuntimeInv ==
    /\ KeyInv /\ RuntimeTypeOK /\ Pointers /\ LeaseHeld /\ StepperHoldsLease
    /\ Approvals /\ NoActWithoutApproval /\ Truth

LEMMA RuntimeInit ==
  ASSUME Init
  PROVE  RuntimeInv
<1>1. KeyInv
  BY KeyInvInit DEF Init
<1>2. StepperHoldsLease /\ Approvals /\ NoActWithoutApproval
  BY DEF Init, StepperHoldsLease, Stepping, Approvals, ApprovedAt, NoActWithoutApproval
<1>3. Truth
  BY RuntimeAssumption DEF Init, KeyInit, NoRow, NoCall, Truth, RowsTrue, CallsTrue, CallTrue, JournalIsTrue
<1>4. QED
  BY <1>1, <1>2, <1>3, TypeInit DEF RuntimeInv

LEMMA RuntimeStep ==
  ASSUME RuntimeInv, [Next]_vars
  PROVE  RuntimeInv'
<1>1. CASE Next
  <2>1. KeyInv'
    BY <1>1, StepsKeys, KeyInvStep DEF RuntimeInv
  <2>2. RuntimeTypeOK' /\ Pointers' /\ LeaseHeld' /\ StepperHoldsLease'
    BY <1>1, TypeStep, PointersStep, LeaseStep DEF RuntimeInv, KeyInv
  <2>3. Approvals' /\ NoActWithoutApproval' /\ Truth'
    BY <1>1, ApprovalStep, TruthStep DEF RuntimeInv, KeyInv
  <2>4. QED
    BY <2>1, <2>2, <2>3 DEF RuntimeInv
<1>2. CASE UNCHANGED vars
  <2>1. UNCHANGED keyVars /\ UNCHANGED <<strategy, run, cps, interrupt, journal, lease, todo, cancelling>>
        /\ UNCHANGED <<pc, cur, base, cp, overrun, performed, faults>>
    BY <1>2 DEF vars, runVars, workerVars
  <2>2. KeyInv'
    BY <2>1, KeyInvStep DEF RuntimeInv
  <2>3. RuntimeTypeOK' /\ Pointers' /\ LeaseHeld' /\ StepperHoldsLease'
    BY <2>1 DEF RuntimeInv, RuntimeTypeOK, Pointers, PointersOf, LeaseHeld, StepperHoldsLease, Stepping,
       Held, keyVars
  <2>4. Approvals' /\ NoActWithoutApproval' /\ Truth'
    BY <2>1 DEF RuntimeInv, Approvals, ApprovedAt, Approves, NoActWithoutApproval, Decision, Truth,
       RowsTrue, CallsTrue, CallTrue, JournalIsTrue, keyVars
  <2>5. QED
    BY <2>2, <2>3, <2>4 DEF RuntimeInv
<1>3. QED
  BY <1>1, <1>2

LEMMA RuntimeInvCorrect == Spec => []RuntimeInv
  BY RuntimeInit, RuntimeStep, PTL DEF Spec

\* Every variable keeps its type.
THEOREM RuntimeTypeCorrect == Spec => []TypeOK
<1>1. RuntimeInv => TypeOK
  BY DEF RuntimeInv, KeyInv, TypeOK
<1>2. QED
  BY <1>1, RuntimeInvCorrect, PTL

\* One turn per thread: a worker steps only under a live lease of its own, and
\* two workers step the thread only when one of them overran its lease.
THEOREM LeaseCorrect == Spec => [](StepperHoldsLease /\ OneStepper)
<1>1. RuntimeInv => StepperHoldsLease /\ OneStepper
  BY DEF RuntimeInv, StepperHoldsLease, OneStepper, Held
<1>2. QED
  BY <1>1, RuntimeInvCorrect, PTL

\* No gated tool takes effect before a human approved that very call.
THEOREM ApprovalCorrect == Spec => []NoActWithoutApproval
<1>1. RuntimeInv => NoActWithoutApproval
  BY DEF RuntimeInv
<1>2. QED
  BY <1>1, RuntimeInvCorrect, PTL

\* A journaled success was an effect under that key.
THEOREM JournalCorrect == Spec => []JournalIsTrue
<1>1. RuntimeInv => JournalIsTrue
  BY DEF RuntimeInv, Truth
<1>2. QED
  BY <1>1, RuntimeInvCorrect, PTL

\* The runtime's use of the keys is a behaviour of Idempotency, whatever its
\* workers, crashes and stalls do.
THEOREM RuntimeImplementsKeys == Spec => KeySpec
<1>1. Init => KeyInit
  BY DEF Init
<1>2. RuntimeInv /\ [Next]_vars => [KeyNext]_keyVars
  BY StepsKeys DEF RuntimeInv, vars
<1>3. QED
  BY <1>1, <1>2, RuntimeInvCorrect, PTL DEF Spec, KeySpec

\* So the effects under a key stay bounded in the runtime, and an answer is of
\* its own request.
THEOREM RuntimeKeysCorrect == Spec => [](ActsBounded /\ ReplayIsOfTheRequest)
  BY RuntimeImplementsKeys, KeysCorrect, PTL
=============================================================================
