---------------------------- MODULE Idempotency ----------------------------
(***************************************************************************)
(* Idempotency keys of mutating tool calls (examlops/idempotency.py over   *)
(* examlops/data/idempotency.py). A call claims its key in one conditional *)
(* insert, runs the tool, and stores the result or releases the claim.     *)
(* Neither the finish nor the release checks that the row is still the     *)
(* caller's own: a row lapses (pending after the pending TTL, done after   *)
(* the result TTL), and a later call may hold the key by then.             *)
(*                                                                         *)
(* AgentRuntime composes this module with the workers that call tools.     *)
(***************************************************************************)
EXTENDS Naturals, FiniteSets

CONSTANTS Callers,    \* who runs run_idempotent
          Keys,       \* idempotency keys
          Requests,   \* requests, told apart by their hash
          None        \* no key, no request, no answer

ASSUME KeyAssumption ==
    /\ IsFiniteSet(Callers) /\ IsFiniteSet(Keys)
    /\ None \notin Keys /\ None \notin Requests

VARIABLES
    row,     \* idempotency_keys: state, request_hash, and whose result is stored
    call,    \* a caller: where it is, its key and request, and its answer
    acts,    \* times the tool took effect under a key
    lapses,  \* times a row of a key outlived its TTL and was purged
    unsure   \* times a tool failed after it took effect

keyVars == <<row, call, acts, lapses, unsure>>

NoRow  == [state |-> "none", request |-> None, result |-> None]
NoCall == [at |-> "idle", key |-> None, request |-> None, answer |-> None]
\* An answer tells how the call ended and, when it succeeded, whose result it is.
Answer(how, of) == [how |-> how, of |-> of]
Failed == Answer("failed", None)

Replies == [how : {"ok", "failed", "conflict", "in progress", "unavailable"},
            of : Requests \cup {None}]
Calls == [at : {"idle", "running", "acted", "answered"}, key : Keys \cup {None},
          request : Requests \cup {None}, answer : {None} \cup Replies]
Rows == [state : {"none", "pending", "done"}, request : Requests \cup {None},
         result : Requests \cup {None}]

KeyTypeOK ==
    /\ row \in [Keys -> Rows]
    /\ call \in [Callers -> Calls]
    /\ acts \in [Keys -> Nat] /\ lapses \in [Keys -> Nat] /\ unsure \in [Keys -> Nat]

KeyInit ==
    /\ row = [k \in Keys |-> NoRow]
    /\ call = [c \in Callers |-> NoCall]
    /\ acts = [k \in Keys |-> 0] /\ lapses = [k \in Keys |-> 0] /\ unsure = [k \in Keys |-> 0]

FreeOrPending(k) == row[k].state # "done"
Free(k)          == row[k].state = "none"

\* What run_idempotent answers when the key is taken.
ReplyAnyRequest(k, q) == IF row[k].state = "done" THEN Answer("ok", row[k].result) ELSE Answer("in progress", None)
ReplyAnyState(k, q)   == IF row[k].request # q THEN Answer("conflict", None) ELSE Answer("ok", row[k].request)
Reply(k, q) ==
    IF row[k].request # q THEN Answer("conflict", None)
    ELSE IF row[k].state = "done" THEN Answer("ok", row[k].result) ELSE Answer("in progress", None)

\* claim: INSERT .. ON CONFLICT DO NOTHING, else the row that is there.
Claim(c, k, q) ==
    /\ call[c].at = "idle"
    /\ IF Free(k)
       THEN /\ row' = [row EXCEPT ![k] = [state |-> "pending", request |-> q, result |-> None]]
            /\ call' = [call EXCEPT ![c] = [at |-> "running", key |-> k, request |-> q, answer |-> None]]
       ELSE /\ call' = [call EXCEPT ![c] = [at |-> "answered", key |-> k, request |-> q, answer |-> Reply(k, q)]]
            /\ row' = row
    /\ UNCHANGED <<acts, lapses, unsure>>

\* The key cannot be honoured: the tool does not run.
ClaimUnavailable(c, k, q) ==
    /\ call[c].at = "idle"
    /\ call' = [call EXCEPT ![c] = [at |-> "answered", key |-> k, request |-> q,
                                    answer |-> Answer("unavailable", None)]]
    /\ UNCHANGED <<row, acts, lapses, unsure>>

\* The tool takes effect.
Act(c) ==
    /\ call[c].at = "running"
    /\ call' = [call EXCEPT ![c].at = "acted"]
    /\ acts' = [acts EXCEPT ![call[c].key] = @ + 1]
    /\ UNCHANGED <<row, lapses, unsure>>

\* finish: UPDATE .. WHERE key = ?, whoever holds the key now.
Finished(k, q) == IF Free(k) THEN row[k] ELSE [row[k] EXCEPT !.state = "done", !.result = q]
\* release: DELETE .. WHERE key = ? AND state = 'pending', whoever holds the key now.
Released(k) == IF row[k].state = "pending" THEN NoRow ELSE row[k]

\* The answer, and the row; a store that fails after the action leaves the row.
Answers(c, answer, newRow, stored) ==
    /\ row' = IF stored THEN [row EXCEPT ![call[c].key] = newRow] ELSE row
    /\ call' = [call EXCEPT ![c].at = "answered", ![c].answer = answer]

Succeed(c, stored) ==
    /\ call[c].at = "acted"
    /\ Answers(c, Answer("ok", call[c].request), Finished(call[c].key, call[c].request), stored)
    /\ UNCHANGED <<acts, lapses, unsure>>

\* The tool answers an error, or raises, having done nothing; or it acted and
\* its answer was lost.
Fail(c, stored) ==
    /\ call[c].at = "running"
    /\ Answers(c, Failed, Released(call[c].key), stored)
    /\ UNCHANGED <<acts, lapses, unsure>>
FailAfterAct(c, stored) ==
    /\ call[c].at = "acted"
    /\ unsure' = [unsure EXCEPT ![call[c].key] = @ + 1]
    /\ Answers(c, Failed, Released(call[c].key), stored)
    /\ UNCHANGED <<acts, lapses>>

\* The caller takes its answer.
Return(c) ==
    /\ call[c].at = "answered"
    /\ call' = [call EXCEPT ![c] = NoCall]
    /\ UNCHANGED <<row, acts, lapses, unsure>>

\* The caller's process dies: a claim it held stays until it lapses.
CallerDies(c) ==
    /\ call' = [call EXCEPT ![c] = NoCall]
    /\ UNCHANGED <<row, acts, lapses, unsure>>

\* A claim (of any key) deletes the rows whose expires_at has passed.
Purge(k) ==
    /\ ~Free(k)
    /\ row' = [row EXCEPT ![k] = NoRow]
    /\ lapses' = [lapses EXCEPT ![k] = @ + 1]
    /\ UNCHANGED <<call, acts, unsure>>

CallerStep(c) ==
    \/ \E k \in Keys, q \in Requests : Claim(c, k, q) \/ ClaimUnavailable(c, k, q)
    \/ \E stored \in BOOLEAN : Succeed(c, stored) \/ Fail(c, stored) \/ FailAfterAct(c, stored)
    \/ Act(c) \/ Return(c) \/ CallerDies(c)
KeyNext == (\E c \in Callers : CallerStep(c)) \/ (\E k \in Keys : Purge(k))
KeySpec == KeyInit /\ [][KeyNext]_keyVars

----------------------------------------------------------------------------
(* Properties *)

\* "Run fn at most once per key" (idempotency.py): a tool takes effect once
\* under a key, and once more for every row that lapsed under it and every
\* failure that hid an effect - although a late finish or release hits the row
\* of another call.
ActsBounded == \A k \in Keys : acts[k] <= 1 + lapses[k] + unsure[k]

\* "The original result comes back": as long as no row of the key lapsed, what
\* is stored and what is replayed is the result of the same request. (After a
\* lapse a late finish may store its own result on another request's row.)
ReplayIsOfTheRequest ==
    /\ \A k \in Keys : row[k].state = "done" /\ lapses[k] = 0 => row[k].result = row[k].request
    /\ \A c \in Callers :
        call[c].at = "answered" /\ call[c].answer.how = "ok" /\ lapses[call[c].key] = 0
            => call[c].answer.of = call[c].request

\* The calls that may still take effect under a key, and the inductive form of
\* ActsBounded: what acted, what may act and a free key, together.
Running(k) == {c \in Callers : call[c].at = "running" /\ call[c].key = k}
ActsAccounted ==
    \A k \in Keys : acts[k] + Cardinality(Running(k)) + (IF Free(k) THEN 1 ELSE 0)
                        <= 1 + lapses[k] + unsure[k]
=============================================================================
