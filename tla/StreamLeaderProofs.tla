------------------------- MODULE StreamLeaderProofs -------------------------
(***************************************************************************)
(* The leader of a singleton stream, for any replicas, tokens, lifetimes   *)
(* and faults, and however slow its threads and connectors are: it holds a *)
(* live key until its fence, connectors overlap only when one overruns the *)
(* second after it or the heartbeat gave the key back under it, a run that *)
(* lost its lease is told, and no key stays with a run that is over.       *)
(***************************************************************************)
EXTENDS StreamLeader, TLAPS

\* An acquisition has one owner at most. The heartbeat of one that leads is
\* at work and as lost as its run; one that is given back was told to stop.
OwnersInv ==
    /\ \A r, s \in Replicas : r # s /\ stream[r].token = stream[s].token => stream[r].token = None
    /\ \A r \in Replicas : stream[r].at = "electing" => lease[stream[r].token].at = "electing"
    /\ \A r \in Replicas : Leading(r) =>
          /\ lease[stream[r].token].at \in {"idle", "renewing", "releasing", "ended"}
          /\ ~lease[stream[r].token].stopped
          /\ stream[r].lost <=> lease[stream[r].token].lost
    /\ \A r \in Replicas : stream[r].at = "joining" =>
          lease[stream[r].token] = Unused \/ lease[stream[r].token].stopped

\* A heartbeat has an owner until it is told to stop, and then only its last
\* call; it gives the key back when it is lost or stopped.
Owned(t) == \E r \in Replicas : stream[r].token = t /\ (stream[r].at = "electing" \/ Leading(r))
LeasesInv ==
    \A t \in Tokens :
        /\ lease[t].at = "unused" => lease[t] = Unused
        /\ lease[t].at # "unused" /\ ~lease[t].stopped => Owned(t)
        /\ lease[t].stopped => lease[t].at \in {"renewing", "releasing"}
        /\ lease[t].at = "electing" => ~lease[t].lost
        /\ lease[t].at = "releasing" => lease[t].stopped \/ lease[t].lost
        /\ lease[t].at = "ended" => lease[t].lost
        /\ t \in early => lease[t].at \in {"unused", "ended"}

\* No clock is ahead, and a call is refused when another holds the key.
ClockInv ==
    \A t \in Tokens :
        /\ lease[t].since <= now /\ lease[t].lastOk <= now
        /\ lease[t].answer = "refused" => lock.holder # t

\* The key is t's, and for Ttl seconds from x on.
HeldSince(t, x) == lock.holder = t /\ lock.expires >= x \div Res + Ttl
\* Until a second after the fence the key is held, whatever became of the
\* lease: from the last renewal that succeeded, unless the heartbeat gave the
\* key back, and from a call that has been granted but not yet seen.
KeyInv ==
    \A t \in Tokens : ~lease[t].stopped =>
        /\ lease[t].at \in {"idle", "renewing", "releasing", "ended"} /\ t \notin early
             /\ now <= lease[t].lastOk + Fence + Res
             => HeldSince(t, lease[t].lastOk)
        /\ lease[t].at \in {"electing", "renewing"} /\ lease[t].answer = "held"
             /\ now <= lease[t].since + Fence + Res
             => HeldSince(t, lease[t].since)

LeaderInv == TypeOK /\ OwnersInv /\ LeasesInv /\ ClockInv /\ KeyInv /\ LostRunIsTold /\ StrayKeyIsGivenBack

----------------------------------------------------------------------------
(* Ticks and seconds *)

\* Whole seconds of a tick, and the ticks they leave.
LEMMA Seconds ==
  ASSUME NEW x \in Nat
  PROVE  /\ x \div Res \in Nat
         /\ Res * (x \div Res) <= x
         /\ x < Res * (x \div Res) + Res
<1>1. Res \in Nat /\ Res > 0
  BY LeaderAssumption
<1> QED  BY <1>1

LEMMA FewerSeconds ==
  ASSUME NEW a \in Int, NEW b \in Int, Res * a < Res * b
  PROVE  a < b
<1>1. Res \in Nat /\ Res > 0
  BY LeaderAssumption
<1> SUFFICES ASSUME b <= a PROVE FALSE
  OBVIOUS
<1>2. a - b \in Nat
  OBVIOUS
<1>3. Res * (a - b) >= 0
  BY <1>1, <1>2
<1>4. Res * (a - b) = Res * a - Res * b
  BY <1>1
<1> QED  BY <1>1, <1>3, <1>4

\* A later tick is in a later second or in the same one.
LEMMA SecondsGrow ==
  ASSUME NEW x \in Nat, NEW y \in Nat, x <= y
  PROVE  x \div Res <= y \div Res
<1> DEFINE p == x \div Res
           q == y \div Res
<1>1. Res \in Nat
  BY LeaderAssumption
<1>2. p \in Nat /\ q \in Nat /\ Res * p <= x /\ y < Res * q + Res
  BY Seconds
<1> HIDE DEF p, q
<1>3. Res * (q + 1) = Res * q + Res /\ Res * p \in Int /\ Res * q \in Int
  BY <1>1, <1>2
<1>4. Res * p < Res * (q + 1)
  BY <1>1, <1>2, <1>3
<1>5. p < q + 1
  BY <1>2, <1>4, FewerSeconds
<1> QED  BY <1>2, <1>5 DEF p, q

\* A lock of Ttl seconds covers Ttl - 1 seconds of ticks, whenever they begin.
LEMMA SecondsCover ==
  ASSUME NEW x \in Nat, NEW y \in Nat, y <= x + (Ttl - 1) * Res
  PROVE  y \div Res < x \div Res + Ttl
<1> DEFINE p == y \div Res
           q == x \div Res
<1>1. Res \in Nat /\ Ttl \in Nat
  BY LeaderAssumption
<1>2. p \in Nat /\ q \in Nat /\ Res * p <= y /\ x < Res * q + Res
  BY Seconds
<1> HIDE DEF p, q
<1>3. (Ttl - 1) * Res = Res * Ttl - Res /\ Res * (q + Ttl) = Res * q + Res * Ttl
  BY <1>1, <1>2
<1>4. Res * p \in Int /\ Res * q \in Int /\ Res * Ttl \in Int
  BY <1>1, <1>2
<1>5. Res * p < Res * (q + Ttl)
  BY <1>1, <1>2, <1>3, <1>4
<1>6. p < q + Ttl
  BY <1>1, <1>2, <1>5, FewerSeconds
<1> QED  BY <1>6 DEF p, q

\* The fence leaves a second for the rounding and one for the stop
\* (lease.fence_after).
LEMMA FenceFits == Fence \in Nat /\ Res \in Nat /\ Fence + Res <= (Ttl - 1) * Res
<1>1. Res \in Nat /\ Res > 0 /\ Ttl \in Nat /\ Ttl >= 5
  BY LeaderAssumption
<1>2. Ttl * Res \in Nat /\ (Ttl - 2) * Res \in Nat /\ (Ttl - 1) * Res = (Ttl - 2) * Res + Res
  BY <1>1
<1>3. 4 * Ttl * Res = 4 * (Ttl * Res)
  BY <1>1
<1> DEFINE p == Ttl * Res
<1>4. (4 * p) \div 5 \in Nat
  <2>1. p \in Nat
    BY <1>2
  <2> HIDE DEF p
  <2> QED  BY <2>1
<1>5. FenceOfTtl \in Nat
  BY <1>3, <1>4 DEF FenceOfTtl
<1> QED  BY <1>1, <1>2, <1>5 DEF Fence

\* A key held since x is not to be had until its fence and a second have passed.
LEMMA KeyCovers ==
  ASSUME TypeOK, NEW t \in Tokens, NEW x \in Nat, HeldSince(t, x), now <= x + Fence + Res
  PROVE  lock.expires > Second /\ \A u \in Tokens : u # t => ~Takeable(u)
<1>1. now \in Nat /\ lock.expires \in Nat /\ Ttl \in Nat
  BY LeaderAssumption DEF TypeOK, Times
<1>2. (Ttl - 1) * Res \in Int
  BY LeaderAssumption
<1>3. now <= x + (Ttl - 1) * Res
  BY <1>1, <1>2, FenceFits
<1>4. Second < x \div Res + Ttl /\ Second \in Nat /\ x \div Res \in Nat
  BY <1>1, <1>3, SecondsCover, Seconds DEF Second
<1>5. lock.expires > Second
  BY <1>1, <1>4 DEF HeldSince
<1> QED  BY <1>1, <1>4, <1>5, LeaderAssumption DEF HeldSince, Takeable

----------------------------------------------------------------------------
(* Steps *)

StreamType == [at : {"standby", "electing", "leading", "checked", "starting", "running", "joining"},
               token : Tokens \cup {None}, lost : BOOLEAN, told : BOOLEAN,
               until : Nat \cup {NoTime}]
LeaseType == [at : {"unused", "electing", "idle", "renewing", "releasing", "ended"},
              answer : {"none", "held", "refused"}, since : Times, lastOk : Times,
              lost : BOOLEAN, stopped : BOOLEAN]

\* What the types say of each field.
Fields ==
    /\ now \in Nat /\ lock.holder \in Tokens \cup {None} /\ lock.expires \in Nat /\ Second \in Nat
    /\ Standby.at = "standby" /\ Standby.token = None /\ ~Standby.lost
    /\ Unused.at = "unused" /\ Unused.answer = "none" /\ Unused.since = 0 /\ Unused.lastOk = 0
    /\ ~Unused.lost /\ ~Unused.stopped
    /\ None \notin Tokens /\ Ttl \in Nat /\ Fence \in Nat /\ Res \in Nat
    /\ \A r \in Replicas :
          /\ stream[r].at \in {"standby", "electing", "leading", "checked", "starting", "running", "joining"}
          /\ stream[r].token \in Tokens \cup {None} /\ stream[r].until \in Int
          /\ stream[r].lost \in BOOLEAN /\ stream[r].told \in BOOLEAN
          /\ (stream[r].at = "standby") <=> (stream[r].token = None)
          /\ stream[r].at \in {"standby", "electing"} => ~stream[r].lost
    /\ \A t \in Tokens :
          /\ lease[t].at \in {"unused", "electing", "idle", "renewing", "releasing", "ended"}
          /\ lease[t].answer \in {"none", "held", "refused"}
          /\ lease[t].since \in Nat /\ lease[t].lastOk \in Nat
          /\ lease[t].lost \in BOOLEAN /\ lease[t].stopped \in BOOLEAN

LEMMA FieldsOf == TypeOK => Fields
<1> SUFFICES ASSUME TypeOK PROVE Fields
  OBVIOUS
<1>1. now \in Nat
  BY LeaderAssumption DEF TypeOK, Times
<1>2. Second \in Nat
  BY <1>1, Seconds DEF Second
<1> QED  BY <1>1, <1>2, FenceFits, LeaderAssumption DEF Fields, TypeOK, Times, NoTime, Standby, Unused

\* Records with some of their fields written.
LEMMA StreamTyped ==
  /\ Standby \in StreamType
  /\ \A x \in StreamType, n \in Nat \cup {NoTime}, b \in BOOLEAN,
        a \in {"electing", "leading", "checked", "starting", "running", "joining"} :
        /\ [x EXCEPT !.at = a] \in StreamType
        /\ [x EXCEPT !.at = a, !.until = n] \in StreamType
        /\ [x EXCEPT !.at = a, !.told = b] \in StreamType
        /\ [x EXCEPT !.lost = TRUE, !.told = b] \in StreamType
<1>1. Standby \in StreamType
  BY DEF StreamType, Standby
<1>2. ASSUME NEW x \in StreamType, NEW n \in Nat \cup {NoTime}, NEW b \in BOOLEAN,
             NEW a \in {"electing", "leading", "checked", "starting", "running", "joining"}
      PROVE  /\ [x EXCEPT !.at = a] \in StreamType
             /\ [x EXCEPT !.at = a, !.until = n] \in StreamType
             /\ [x EXCEPT !.at = a, !.told = b] \in StreamType
             /\ [x EXCEPT !.lost = TRUE, !.told = b] \in StreamType
  BY <1>2 DEF StreamType
<1> QED  BY <1>1, <1>2

LEMMA ToldTyped ==
  ASSUME TypeOK, NEW t \in Tokens
  PROVE  Told(t) \in [Replicas -> StreamType]
<1>1. stream \in [Replicas -> StreamType]
  BY DEF TypeOK, StreamType
<1>2. ASSUME NEW q \in Replicas PROVE Told(t)[q] \in StreamType
  <2> DEFINE b == stream[q].told \/ stream[q].at \in {"starting", "running"}
  <2>1. stream[q] \in StreamType /\ b \in BOOLEAN
    BY <1>1 DEF StreamType
  <2>2. Told(t)[q] \in {stream[q], [stream[q] EXCEPT !.lost = TRUE, !.told = b]}
    BY <2>1 DEF Told, StreamType
  <2> HIDE DEF b
  <2> QED  BY <2>1, <2>2, StreamTyped
<1> QED  BY <1>2 DEF Told

LEMMA LeaseTyped ==
  /\ Unused \in LeaseType
  /\ \A x \in LeaseType :
        /\ [x EXCEPT !.lost = TRUE] \in LeaseType
        /\ [x EXCEPT !.stopped = TRUE] \in LeaseType
        /\ \A w \in {"none", "held", "refused"} : [x EXCEPT !.answer = w] \in LeaseType
        /\ \A a \in {"electing", "idle", "renewing", "releasing", "ended"} :
              /\ [x EXCEPT !.at = a] \in LeaseType
              /\ [x EXCEPT !.at = a, !.lost = TRUE] \in LeaseType
              /\ \A n \in Times : [x EXCEPT !.at = a, !.answer = "none", !.since = n] \in LeaseType
              /\ \A n, m \in Times :
                    /\ [x EXCEPT !.at = a, !.since = n, !.lastOk = m] \in LeaseType
                    /\ [x EXCEPT !.at = a, !.answer = "none", !.since = n, !.lastOk = m] \in LeaseType
<1>1. Unused \in LeaseType
  BY LeaderAssumption DEF LeaseType, Unused, Times
<1>2. ASSUME NEW x \in LeaseType, NEW w \in {"none", "held", "refused"},
             NEW a \in {"electing", "idle", "renewing", "releasing", "ended"}
      PROVE  /\ [x EXCEPT !.lost = TRUE] \in LeaseType
             /\ [x EXCEPT !.stopped = TRUE] \in LeaseType
             /\ [x EXCEPT !.answer = w] \in LeaseType
             /\ [x EXCEPT !.at = a] \in LeaseType
             /\ [x EXCEPT !.at = a, !.lost = TRUE] \in LeaseType
  BY <1>2 DEF LeaseType
<1>3. ASSUME NEW x \in LeaseType, NEW n \in Times, NEW m \in Times,
             NEW a \in {"electing", "idle", "renewing", "releasing", "ended"}
      PROVE  /\ [x EXCEPT !.at = a, !.answer = "none", !.since = n] \in LeaseType
             /\ [x EXCEPT !.at = a, !.since = n, !.lastOk = m] \in LeaseType
             /\ [x EXCEPT !.at = a, !.answer = "none", !.since = n, !.lastOk = m] \in LeaseType
  BY <1>3 DEF LeaseType
<1> QED  BY <1>1, <1>2, <1>3

\* A fresh token is asked for.
LEMMA ElectStep ==
  ASSUME LeaderInv, NEW r \in Replicas, NEW t \in Tokens, Elect(r, t)
  PROVE  LeaderInv'
<1>f. Fields
  BY FieldsOf DEF LeaderInv
<1> USE DEF LeaderInv
<1>e1. stream[r].at = "standby" /\ lease[t] = Unused /\ lock.holder # t /\ \A q \in Replicas : stream[q].token # t
  BY DEF Elect, Fresh
<1>e2. /\ \A q \in Replicas : q # r => stream'[q] = stream[q]
       /\ stream'[r].at = "electing" /\ stream'[r].token = t /\ ~stream'[r].lost
  BY DEF Elect, TypeOK, Standby
<1>e3. /\ \A u \in Tokens : u # t => lease'[u] = lease[u]
       /\ lease'[t].at = "electing" /\ lease'[t].answer = "none" /\ lease'[t].since = now
       /\ lease'[t].lastOk = 0 /\ ~lease'[t].lost /\ ~lease'[t].stopped
  BY DEF Elect, TypeOK, Unused
<1>e4. /\ now' = now /\ lock' = lock /\ faults' = faults
       /\ early' = early \ {t} /\ unreleased' = unreleased \ {t}
  BY DEF Elect
<1> USE <1>f, <1>e1, <1>e2, <1>e3, <1>e4
<1>1. TypeOK'
  <2>1. stream' \in [Replicas -> StreamType]
    BY LeaderAssumption DEF Fields, TypeOK, StreamType, Elect, Standby, Unused
  <2>2. lease' \in [Tokens -> LeaseType]
    BY LeaderAssumption DEF Fields, TypeOK, LeaseType, Times, Elect, Standby, Unused
  <2>3. /\ now' \in Times /\ lock' \in [holder : Tokens \cup {None}, expires : Nat]
        /\ early' \subseteq Tokens /\ unreleased' \subseteq Tokens
        /\ faults' \in 0 .. MaxFaults
    BY LeaderAssumption DEF Fields, TypeOK, Times, UseFault, Elect, Standby, Unused
  <2>4. \A q \in Replicas : /\ (stream'[q].at = "standby") <=> (stream'[q].token = None)
                            /\ stream'[q].at \in {"standby", "electing"} => ~stream'[q].lost
    BY DEF Fields, OwnersInv, LeasesInv, Leading
  <2> QED  BY <2>1, <2>2, <2>3, <2>4 DEF TypeOK, StreamType, LeaseType
<1>2. OwnersInv'
  BY DEF Fields, OwnersInv, LeasesInv, Leading
<1>3. LeasesInv'
  BY DEF Fields, OwnersInv, LeasesInv, Owned, Leading
<1>4. ClockInv'
  BY DEF Fields, OwnersInv, LeasesInv, ClockInv, Leading
<1>5. KeyInv'
  BY DEF Fields, OwnersInv, LeasesInv, ClockInv, KeyInv, HeldSince, Leading
<1>6. LostRunIsTold'
  BY DEF Fields, OwnersInv, LeasesInv, LostRunIsTold, Leading
<1>7. StrayKeyIsGivenBack'
  BY DEF Fields, OwnersInv, LeasesInv, ClockInv, StrayKeyIsGivenBack, Owned, Leading
<1> QED  BY <1>1, <1>2, <1>3, <1>4, <1>5, <1>6, <1>7

\* The run thread goes on, and no connector starts.
LEMMA MoveStep ==
  ASSUME LeaderInv, NEW r \in Replicas, Check(r) \/ Publish(r) \/ RunEnds(r)
  PROVE  LeaderInv'
<1>f. Fields
  BY FieldsOf DEF LeaderInv
<1> USE DEF LeaderInv
<1>e1. /\ \A q \in Replicas : q # r => stream'[q] = stream[q]
       /\ stream'[r].token = stream[r].token /\ stream'[r].lost = stream[r].lost
       /\ stream[r].at \in {"leading", "checked", "running"} /\ stream'[r].at \in {"leading", "checked", "starting"}
  BY DEF Check, Publish, RunEnds, TypeOK
<1>e2. UNCHANGED <<now, lock, lease, early, unreleased, faults>>
  BY DEF Check, Publish, RunEnds
<1> USE <1>f, <1>e1, <1>e2
<1>1. TypeOK'
  <2>1. stream' \in [Replicas -> StreamType]
    BY LeaderAssumption DEF Fields, TypeOK, StreamType, Check, Publish, RunEnds
  <2>2. lease' \in [Tokens -> LeaseType]
    BY LeaderAssumption DEF Fields, TypeOK, LeaseType, Times, Check, Publish, RunEnds
  <2>3. /\ now' \in Times /\ lock' \in [holder : Tokens \cup {None}, expires : Nat]
        /\ early' \subseteq Tokens /\ unreleased' \subseteq Tokens
        /\ faults' \in 0 .. MaxFaults
    BY LeaderAssumption DEF Fields, TypeOK, Times, UseFault, Check, Publish, RunEnds
  <2>4. \A q \in Replicas : /\ (stream'[q].at = "standby") <=> (stream'[q].token = None)
                            /\ stream'[q].at \in {"standby", "electing"} => ~stream'[q].lost
    BY DEF Fields, OwnersInv, LeasesInv, Leading
  <2> QED  BY <2>1, <2>2, <2>3, <2>4 DEF TypeOK, StreamType, LeaseType
<1>2. OwnersInv'
  BY DEF Fields, OwnersInv, LeasesInv, Leading
<1>3. LeasesInv'
  BY DEF Fields, OwnersInv, LeasesInv, Owned, Leading
<1>4. ClockInv'
  BY DEF Fields, OwnersInv, LeasesInv, ClockInv, Leading
<1>5. KeyInv'
  BY DEF Fields, OwnersInv, LeasesInv, ClockInv, KeyInv, HeldSince, Leading
<1>6. LostRunIsTold'
  BY DEF Fields, OwnersInv, LeasesInv, LostRunIsTold, Leading
<1>7. StrayKeyIsGivenBack'
  BY DEF Fields, OwnersInv, LeasesInv, ClockInv, StrayKeyIsGivenBack, Owned, Leading
<1> QED  BY <1>1, <1>2, <1>3, <1>4, <1>5, <1>6, <1>7

\* A connector starts.
LEMMA BeginStep ==
  ASSUME LeaderInv, NEW r \in Replicas, Begin(r)
  PROVE  LeaderInv'
<1>f. Fields
  BY FieldsOf DEF LeaderInv
<1> USE DEF LeaderInv
<1>e1. /\ \A q \in Replicas : q # r => stream'[q] = stream[q]
       /\ stream'[r].token = stream[r].token /\ stream'[r].lost = stream[r].lost
       /\ stream[r].at = "starting" /\ stream'[r].at = "running"
       /\ stream'[r].told = (stream[r].told \/ stream[r].lost)
  BY DEF Begin, LooksAgain, TypeOK
<1>e2. UNCHANGED <<now, lock, lease, early, unreleased, faults>>
  BY DEF Begin
<1> USE <1>f, <1>e1, <1>e2
<1>1. TypeOK'
  <2>1. stream' \in [Replicas -> StreamType]
    <3>1. stream \in [Replicas -> StreamType]
      BY DEF TypeOK, StreamType
    <3> DEFINE b == LooksAgain(r)
    <3>2. b \in BOOLEAN
      BY <1>f DEF LooksAgain, Fields
    <3>3. stream' = [stream EXCEPT ![r] = [stream[r] EXCEPT !.at = "running", !.told = b]]
      BY <3>1 DEF Begin
    <3> HIDE DEF b
    <3>4. [stream[r] EXCEPT !.at = "running", !.told = b] \in StreamType
      BY <3>1, <3>2, StreamTyped
    <3> QED  BY <3>1, <3>3, <3>4
  <2>2. lease' \in [Tokens -> LeaseType]
    BY LeaderAssumption DEF Fields, TypeOK, LeaseType, Times, Begin
  <2>3. /\ now' \in Times /\ lock' \in [holder : Tokens \cup {None}, expires : Nat]
        /\ early' \subseteq Tokens /\ unreleased' \subseteq Tokens
        /\ faults' \in 0 .. MaxFaults
    BY LeaderAssumption DEF Fields, TypeOK, Times, UseFault, Begin
  <2>4. \A q \in Replicas : /\ (stream'[q].at = "standby") <=> (stream'[q].token = None)
                            /\ stream'[q].at \in {"standby", "electing"} => ~stream'[q].lost
    BY DEF Fields, OwnersInv, LeasesInv, Leading
  <2> QED  BY <2>1, <2>2, <2>3, <2>4 DEF TypeOK, StreamType, LeaseType
<1>2. OwnersInv'
  BY DEF Fields, OwnersInv, LeasesInv, Leading
<1>3. LeasesInv'
  BY DEF Fields, OwnersInv, LeasesInv, Owned, Leading
<1>4. ClockInv'
  BY DEF Fields, OwnersInv, LeasesInv, ClockInv, Leading
<1>5. KeyInv'
  BY DEF Fields, OwnersInv, LeasesInv, ClockInv, KeyInv, HeldSince, Leading
<1>6. LostRunIsTold'
  BY DEF Fields, OwnersInv, LeasesInv, LostRunIsTold, Leading
<1>7. StrayKeyIsGivenBack'
  BY DEF Fields, OwnersInv, LeasesInv, ClockInv, StrayKeyIsGivenBack, Owned, Leading
<1> QED  BY <1>1, <1>2, <1>3, <1>4, <1>5, <1>6, <1>7

\* An election that was granted: the stream leads.
LEMMA ElectionWon ==
  ASSUME LeaderInv, NEW r \in Replicas, stream[r].at = "electing", stream[r].token \in Tokens,
         lease[stream[r].token].answer = "held",
         stream' = [stream EXCEPT ![r].at = "leading"],
         lease' = [lease EXCEPT ![stream[r].token] =
                     [Unused EXCEPT !.at = "idle", !.since = now, !.lastOk = lease[stream[r].token].since]],
         UNCHANGED <<now, lock, early, unreleased, faults>>
  PROVE  LeaderInv'
<1>f. Fields
  BY FieldsOf DEF LeaderInv
<1> USE DEF LeaderInv
<1>e1. /\ \A q \in Replicas : q # r => stream'[q] = stream[q]
       /\ stream'[r].at = "leading" /\ stream'[r].token = stream[r].token /\ stream'[r].lost = stream[r].lost
  BY DEF TypeOK
<1>e2. /\ \A u \in Tokens : u # stream[r].token => lease'[u] = lease[u]
       /\ lease'[stream[r].token].at = "idle" /\ lease'[stream[r].token].answer = "none"
       /\ lease'[stream[r].token].since = now /\ lease'[stream[r].token].lastOk = lease[stream[r].token].since
       /\ ~lease'[stream[r].token].lost /\ ~lease'[stream[r].token].stopped
  BY DEF TypeOK, Unused
<1> USE <1>f, <1>e1, <1>e2
<1>1. TypeOK'
  <2>1. stream' \in [Replicas -> StreamType]
    <3>1. stream \in [Replicas -> StreamType]
      BY DEF TypeOK, StreamType
    <3> QED  BY <3>1, StreamTyped DEF Fields, Fields
  <2>2. lease' \in [Tokens -> LeaseType]
    <3>1. lease \in [Tokens -> LeaseType] /\ now \in Times /\ lease[stream[r].token].since \in Times
      BY DEF TypeOK, LeaseType
    <3>2. [Unused EXCEPT !.at = "idle", !.since = now, !.lastOk = lease[stream[r].token].since] \in LeaseType
      BY <3>1, LeaseTyped
    <3> QED  BY <3>1, <3>2
  <2>3. /\ now' \in Times /\ lock' \in [holder : Tokens \cup {None}, expires : Nat]
        /\ early' \subseteq Tokens /\ unreleased' \subseteq Tokens
        /\ faults' \in 0 .. MaxFaults
    BY LeaderAssumption DEF Fields, TypeOK, Times, UseFault, Times
  <2>4. \A q \in Replicas : /\ (stream'[q].at = "standby") <=> (stream'[q].token = None)
                            /\ stream'[q].at \in {"standby", "electing"} => ~stream'[q].lost
    BY DEF Fields, OwnersInv, LeasesInv, Leading
  <2> QED  BY <2>1, <2>2, <2>3, <2>4 DEF TypeOK, StreamType, LeaseType
<1>2. OwnersInv'
  BY DEF Fields, OwnersInv, LeasesInv, Leading
<1>3. LeasesInv'
  BY DEF Fields, OwnersInv, LeasesInv, Owned, Leading
<1>4. ClockInv'
  BY DEF Fields, OwnersInv, LeasesInv, ClockInv, Leading
<1>5. KeyInv'
  BY DEF Fields, OwnersInv, LeasesInv, ClockInv, KeyInv, HeldSince, Leading
<1>6. LostRunIsTold'
  BY DEF Fields, OwnersInv, LeasesInv, LostRunIsTold, Leading
<1>7. StrayKeyIsGivenBack'
  BY DEF Fields, OwnersInv, LeasesInv, ClockInv, StrayKeyIsGivenBack, Owned, Leading
<1> QED  BY <1>1, <1>2, <1>3, <1>4, <1>5, <1>6, <1>7

\* An election that was refused, or failed: the stream stands by.
LEMMA ElectionLost ==
  ASSUME LeaderInv, NEW r \in Replicas, stream[r].at = "electing", stream[r].token \in Tokens,
         lease[stream[r].token].answer = "refused" \/ stream[r].token \in unreleased',
         stream' = [stream EXCEPT ![r] = Standby],
         lease' = [lease EXCEPT ![stream[r].token] = Unused],
         UNCHANGED <<now, lock, early>>, unreleased \subseteq unreleased',
         unreleased' \subseteq Tokens, faults' \in 0 .. MaxFaults
  PROVE  LeaderInv'
<1>f. Fields
  BY FieldsOf DEF LeaderInv
<1> USE DEF LeaderInv
<1>e1. /\ \A q \in Replicas : q # r => stream'[q] = stream[q]
       /\ stream'[r] = Standby
  BY DEF TypeOK
<1>e2. /\ \A u \in Tokens : u # stream[r].token => lease'[u] = lease[u]
       /\ lease'[stream[r].token] = Unused
  BY DEF TypeOK
<1> USE <1>f, <1>e1, <1>e2
<1>1. TypeOK'
  <2>1. stream' \in [Replicas -> StreamType]
    <3>1. stream \in [Replicas -> StreamType]
      BY DEF TypeOK, StreamType
    <3> QED  BY <3>1, StreamTyped DEF Fields, Fields
  <2>2. lease' \in [Tokens -> LeaseType]
    <3>1. lease \in [Tokens -> LeaseType]
      BY DEF TypeOK, LeaseType
    <3>2. now \in Times
      BY DEF TypeOK
    <3> QED  BY <3>1, <3>2, LeaseTyped DEF Fields
  <2>3. /\ now' \in Times /\ lock' \in [holder : Tokens \cup {None}, expires : Nat]
        /\ early' \subseteq Tokens /\ unreleased' \subseteq Tokens
        /\ faults' \in 0 .. MaxFaults
    BY LeaderAssumption DEF Fields, TypeOK, Times, UseFault, Times
  <2>4. \A q \in Replicas : /\ (stream'[q].at = "standby") <=> (stream'[q].token = None)
                            /\ stream'[q].at \in {"standby", "electing"} => ~stream'[q].lost
    BY DEF Fields, OwnersInv, LeasesInv, Leading
  <2> QED  BY <2>1, <2>2, <2>3, <2>4 DEF TypeOK, StreamType, LeaseType
<1>2. OwnersInv'
  BY DEF Fields, OwnersInv, LeasesInv, Leading
<1>3. LeasesInv'
  BY DEF Fields, OwnersInv, LeasesInv, Owned, Leading
<1>4. ClockInv'
  BY DEF Fields, OwnersInv, LeasesInv, ClockInv, Leading
<1>5. KeyInv'
  BY DEF Fields, OwnersInv, LeasesInv, ClockInv, KeyInv, HeldSince, Leading
<1>6. LostRunIsTold'
  BY DEF Fields, OwnersInv, LeasesInv, LostRunIsTold, Leading
<1>7. StrayKeyIsGivenBack'
  BY DEF Fields, OwnersInv, LeasesInv, ClockInv, StrayKeyIsGivenBack, Owned, Leading
<1> QED  BY <1>1, <1>2, <1>3, <1>4, <1>5, <1>6, <1>7

LEMMA ElectedStep ==
  ASSUME LeaderInv, NEW r \in Replicas, Elected(r)
  PROVE  LeaderInv'
<1>1. stream[r].at = "electing" /\ stream[r].token \in Tokens
  BY FieldsOf DEF LeaderInv, Elected, Fields
<1>2. unreleased \subseteq Tokens /\ faults \in 0 .. MaxFaults /\ MaxFaults \in Nat
  BY LeaderAssumption DEF LeaderInv, TypeOK
<1>3. CASE /\ lease[stream[r].token].answer = "held"
           /\ stream' = [stream EXCEPT ![r].at = "leading"]
           /\ lease' = [lease EXCEPT ![stream[r].token] =
                          [Unused EXCEPT !.at = "idle", !.since = now, !.lastOk = lease[stream[r].token].since]]
           /\ UNCHANGED <<now, lock, early, unreleased, faults>>
  BY <1>1, <1>3, ElectionWon
<1>4. CASE /\ lease[stream[r].token].answer = "refused" \/ stream[r].token \in unreleased'
           /\ stream' = [stream EXCEPT ![r] = Standby]
           /\ lease' = [lease EXCEPT ![stream[r].token] = Unused]
           /\ UNCHANGED <<now, lock, early>> /\ unreleased \subseteq unreleased'
           /\ unreleased' \subseteq Tokens /\ faults' \in 0 .. MaxFaults
  BY <1>1, <1>4, ElectionLost
<1> QED  BY <1>1, <1>2, <1>3, <1>4 DEF Elected, UseFault

\* The run is over: its heartbeat is told to stop.
LEMMA GiveBackStep ==
  ASSUME LeaderInv, NEW r \in Replicas, GiveBack(r)
  PROVE  LeaderInv'
<1>f. Fields
  BY FieldsOf DEF LeaderInv
<1> USE DEF LeaderInv
<1>e1. stream[r].at = "leading" /\ stream[r].token \in Tokens
  BY <1>f DEF GiveBack, Fields
<1>e2. /\ \A q \in Replicas : q # r => stream'[q] = stream[q]
       /\ stream'[r].at = "joining" /\ stream'[r].token = stream[r].token /\ stream'[r].lost = stream[r].lost
  BY DEF GiveBack, TypeOK
<1>e3. /\ \A u \in Tokens : u # stream[r].token => lease'[u] = lease[u]
       /\ \/ lease'[stream[r].token] = Unused /\ lease[stream[r].token].at \in {"idle", "ended"}
          \/ /\ lease[stream[r].token].at \notin {"idle", "ended"}
             /\ lease'[stream[r].token] = [lease[stream[r].token] EXCEPT !.stopped = TRUE]
  BY <1>e1 DEF GiveBack, TypeOK
<1>e4. lease'[stream[r].token] # Unused =>
       /\ lease[stream[r].token].at \in {"renewing", "releasing"} /\ lease'[stream[r].token].stopped
       /\ lease'[stream[r].token].at = lease[stream[r].token].at
       /\ lease'[stream[r].token].answer = lease[stream[r].token].answer
       /\ lease'[stream[r].token].since = lease[stream[r].token].since
       /\ lease'[stream[r].token].lastOk = lease[stream[r].token].lastOk
       /\ lease'[stream[r].token].lost = lease[stream[r].token].lost
  BY <1>f, <1>e1, <1>e3 DEF OwnersInv, Leading, TypeOK
<1>e5. UNCHANGED <<now, lock, early, unreleased, faults>>
  BY DEF GiveBack
<1> USE <1>f, <1>e1, <1>e2, <1>e3, <1>e4, <1>e5
<1>1. TypeOK'
  <2>1. stream' \in [Replicas -> StreamType]
    <3>1. stream \in [Replicas -> StreamType]
      BY DEF TypeOK, StreamType
    <3>2. Join \in Nat
      BY LeaderAssumption DEF Join
    <3>3. now + Join \in Nat
      BY <1>f, <3>2 DEF Fields
    <3>4. stream' = [stream EXCEPT ![r] = [stream[r] EXCEPT !.at = "joining", !.until = now + Join]]
      BY <3>1 DEF GiveBack
    <3>5. [stream[r] EXCEPT !.at = "joining", !.until = now + Join] \in StreamType
      BY <3>1, <3>3, StreamTyped
    <3> QED  BY <3>1, <3>4, <3>5
  <2>2. lease' \in [Tokens -> LeaseType]
    <3>1. lease \in [Tokens -> LeaseType]
      BY DEF TypeOK, LeaseType
    <3>2. now \in Times
      BY DEF TypeOK
    <3> QED  BY <3>1, <3>2, LeaseTyped DEF GiveBack
  <2>3. /\ now' \in Times /\ lock' \in [holder : Tokens \cup {None}, expires : Nat]
        /\ early' \subseteq Tokens /\ unreleased' \subseteq Tokens
        /\ faults' \in 0 .. MaxFaults
    BY LeaderAssumption DEF Fields, TypeOK, Times, UseFault, GiveBack
  <2>4. \A q \in Replicas : /\ (stream'[q].at = "standby") <=> (stream'[q].token = None)
                            /\ stream'[q].at \in {"standby", "electing"} => ~stream'[q].lost
    BY DEF Fields, OwnersInv, LeasesInv, Leading
  <2> QED  BY <2>1, <2>2, <2>3, <2>4 DEF TypeOK, StreamType, LeaseType
<1>2. OwnersInv'
  BY DEF Fields, OwnersInv, LeasesInv, Leading
<1>3. LeasesInv'
  BY DEF Fields, OwnersInv, LeasesInv, Owned, Leading
<1>4. ClockInv'
  BY DEF Fields, OwnersInv, LeasesInv, ClockInv, Leading
<1>5. KeyInv'
  BY DEF Fields, OwnersInv, LeasesInv, ClockInv, KeyInv, HeldSince, Leading
<1>6. LostRunIsTold'
  BY DEF Fields, OwnersInv, LeasesInv, LostRunIsTold, Leading
<1>7. StrayKeyIsGivenBack'
  BY DEF Fields, OwnersInv, LeasesInv, ClockInv, StrayKeyIsGivenBack, Owned, Leading
<1> QED  BY <1>1, <1>2, <1>3, <1>4, <1>5, <1>6, <1>7

\* The run thread unlocks, having waited for its heartbeat's last call.
LEMMA UnlockStep ==
  ASSUME LeaderInv, NEW r \in Replicas, Unlock(r)
  PROVE  LeaderInv'
<1>f. Fields
  BY FieldsOf DEF LeaderInv
<1> USE DEF LeaderInv
<1>e1. stream[r].at = "joining" /\ stream[r].token \in Tokens
  BY <1>f DEF Unlock, Fields
<1>e2. /\ \A q \in Replicas : q # r => stream'[q] = stream[q]
       /\ stream'[r] = Standby
  BY DEF Unlock, TypeOK
<1>e3. UNCHANGED <<now, lease, early>> /\ unreleased \subseteq unreleased'
  BY DEF Unlock, Unlocks
<1>e4. lock' = Unlocked(stream[r].token) \/ (lock' = lock /\ stream[r].token \in unreleased')
  BY DEF Unlock, Unlocks
<1>e5. \/ lock' = lock /\ (lock.holder # stream[r].token \/ stream[r].token \in unreleased')
       \/ lock.holder = stream[r].token /\ lock' = [holder |-> None, expires |-> 0]
  BY <1>e4 DEF Unlocked
<1>e6. lock' = lock \/ lock'.holder = None
  BY <1>e5
<1> USE <1>f, <1>e1, <1>e2, <1>e3, <1>e4, <1>e5, <1>e6
<1>1. TypeOK'
  <2>1. stream' \in [Replicas -> StreamType]
    BY LeaderAssumption DEF Fields, TypeOK, StreamType, Unlock, Unlocks, Unlocked, Standby
  <2>2. lease' \in [Tokens -> LeaseType]
    BY LeaderAssumption DEF Fields, TypeOK, LeaseType, Times, Unlock, Unlocks, Unlocked, Standby
  <2>3. /\ now' \in Times /\ lock' \in [holder : Tokens \cup {None}, expires : Nat]
        /\ early' \subseteq Tokens /\ unreleased' \subseteq Tokens
        /\ faults' \in 0 .. MaxFaults
    BY LeaderAssumption DEF Fields, TypeOK, Times, UseFault, Unlock, Unlocks, Unlocked, Standby
  <2>4. \A q \in Replicas : /\ (stream'[q].at = "standby") <=> (stream'[q].token = None)
                            /\ stream'[q].at \in {"standby", "electing"} => ~stream'[q].lost
    BY DEF Fields, OwnersInv, LeasesInv, Leading
  <2> QED  BY <2>1, <2>2, <2>3, <2>4 DEF TypeOK, StreamType, LeaseType
<1>2. OwnersInv'
  BY DEF Fields, OwnersInv, LeasesInv, Leading
<1>3. LeasesInv'
  BY DEF Fields, OwnersInv, LeasesInv, Owned, Leading
<1>4. ClockInv'
  BY DEF Fields, OwnersInv, LeasesInv, ClockInv, Leading
<1>5. KeyInv'
  BY DEF Fields, OwnersInv, LeasesInv, ClockInv, KeyInv, HeldSince, Leading
<1>6. LostRunIsTold'
  BY DEF Fields, OwnersInv, LeasesInv, LostRunIsTold, Leading
<1>7. StrayKeyIsGivenBack'
  BY DEF Fields, OwnersInv, LeasesInv, ClockInv, StrayKeyIsGivenBack, Owned, Leading
<1> QED  BY <1>1, <1>2, <1>3, <1>4, <1>5, <1>6, <1>7

\* A replica dies.
LEMMA CrashStep ==
  ASSUME LeaderInv, NEW r \in Replicas, Crash(r)
  PROVE  LeaderInv'
<1>f. Fields
  BY FieldsOf DEF LeaderInv
<1> USE DEF LeaderInv
<1>e1. stream[r].token \in Tokens
  BY <1>f DEF Crash, Fields
<1>e2. /\ \A q \in Replicas : q # r => stream'[q] = stream[q]
       /\ stream'[r] = Standby
  BY DEF Crash, TypeOK
<1>e3. /\ \A u \in Tokens : u # stream[r].token => lease'[u] = lease[u]
       /\ lease'[stream[r].token] = Unused
  BY <1>e1 DEF Crash, TypeOK
<1>e4. UNCHANGED <<now, lock, early>> /\ unreleased' = unreleased \cup {stream[r].token}
  BY DEF Crash
<1> USE <1>f, <1>e1, <1>e2, <1>e3, <1>e4
<1>1. TypeOK'
  <2>1. stream' \in [Replicas -> StreamType]
    BY LeaderAssumption DEF Fields, TypeOK, StreamType, Crash, Standby, Unused
  <2>2. lease' \in [Tokens -> LeaseType]
    BY LeaderAssumption DEF Fields, TypeOK, LeaseType, Times, Crash, Standby, Unused
  <2>3. /\ now' \in Times /\ lock' \in [holder : Tokens \cup {None}, expires : Nat]
        /\ early' \subseteq Tokens /\ unreleased' \subseteq Tokens
        /\ faults' \in 0 .. MaxFaults
    BY LeaderAssumption DEF Fields, TypeOK, Times, UseFault, Crash, Standby, Unused
  <2>4. \A q \in Replicas : /\ (stream'[q].at = "standby") <=> (stream'[q].token = None)
                            /\ stream'[q].at \in {"standby", "electing"} => ~stream'[q].lost
    BY DEF Fields, OwnersInv, LeasesInv, Leading
  <2> QED  BY <2>1, <2>2, <2>3, <2>4 DEF TypeOK, StreamType, LeaseType
<1>2. OwnersInv'
  BY DEF Fields, OwnersInv, LeasesInv, Leading
<1>3. LeasesInv'
  BY DEF Fields, OwnersInv, LeasesInv, Owned, Leading
<1>4. ClockInv'
  BY DEF Fields, OwnersInv, LeasesInv, ClockInv, Leading
<1>5. KeyInv'
  BY DEF Fields, OwnersInv, LeasesInv, ClockInv, KeyInv, HeldSince, Leading
<1>6. LostRunIsTold'
  BY DEF Fields, OwnersInv, LeasesInv, LostRunIsTold, Leading
<1>7. StrayKeyIsGivenBack'
  BY DEF Fields, OwnersInv, LeasesInv, ClockInv, StrayKeyIsGivenBack, Owned, Leading
<1> QED  BY <1>1, <1>2, <1>3, <1>4, <1>5, <1>6, <1>7

\* What a grant does to the keys: it takes none that is held in time, and lasts Ttl.
LEMMA Grants ==
  ASSUME TypeOK, Fields, NEW t \in Tokens, lock' = [holder |-> t, expires |-> Second + Ttl], Takeable(t)
  PROVE  /\ \A x \in Nat : x <= now => HeldSince(t, x)'
         /\ \A u \in Tokens, x \in Nat : u # t /\ now <= x + Fence + Res => ~HeldSince(u, x)
<1>1. ASSUME NEW x \in Nat, x <= now PROVE HeldSince(t, x)'
  <2>1. x \div Res <= Second /\ x \div Res \in Nat
    BY <1>1, SecondsGrow, Seconds DEF Fields, Second
  <2> QED  BY <2>1 DEF HeldSince, Fields
<1>2. ASSUME NEW u \in Tokens, NEW x \in Nat, u # t, now <= x + Fence + Res PROVE ~HeldSince(u, x)
  BY <1>2, KeyCovers
<1> QED  BY <1>1, <1>2

\* The coordinator grants a call.
LEMMA Granted ==
  ASSUME LeaderInv, NEW t \in Tokens, lease[t].at \in {"electing", "renewing"}, lease[t].answer = "none",
         Takeable(t), lock' = [holder |-> t, expires |-> Second + Ttl],
         lease' = [lease EXCEPT ![t].answer = "held"], UNCHANGED <<now, stream, early, unreleased, faults>>
  PROVE  LeaderInv'
<1>f. Fields
  BY FieldsOf DEF LeaderInv
<1> USE DEF LeaderInv
<1>e1. lease[t].at \in {"electing", "renewing"} /\ lease[t].answer = "none"
  OBVIOUS
<1>e2. /\ \A u \in Tokens : u # t => lease'[u] = lease[u]
       /\ lease'[t].at = lease[t].at /\ lease'[t].since = lease[t].since
       /\ lease'[t].lastOk = lease[t].lastOk /\ lease'[t].lost = lease[t].lost
       /\ lease'[t].stopped = lease[t].stopped
  BY DEF TypeOK
<1>e3. UNCHANGED <<now, stream, early, unreleased, faults>>
  OBVIOUS
<1>e4. lease'[t].answer = "held" /\ lock'.holder = t
  BY DEF TypeOK
<1>e5. /\ \A x \in Nat : x <= now => HeldSince(t, x)'
       /\ \A u \in Tokens, x \in Nat : u # t /\ now <= x + Fence + Res => ~HeldSince(u, x)
  BY <1>f, Grants
<1> USE <1>f, <1>e1, <1>e2, <1>e3, <1>e4, <1>e5
<1>1. TypeOK'
  <2>1. stream' \in [Replicas -> StreamType]
    <3>1. stream \in [Replicas -> StreamType]
      BY DEF TypeOK, StreamType
    <3> QED  BY <3>1
  <2>2. lease' \in [Tokens -> LeaseType]
    <3>1. lease \in [Tokens -> LeaseType]
      BY DEF TypeOK, LeaseType
    <3> QED  BY <3>1, LeaseTyped
  <2>3. /\ now' \in Times /\ lock' \in [holder : Tokens \cup {None}, expires : Nat]
        /\ early' \subseteq Tokens /\ unreleased' \subseteq Tokens
        /\ faults' \in 0 .. MaxFaults
    BY LeaderAssumption DEF Fields, TypeOK, Times, UseFault, Times
  <2>4. \A q \in Replicas : /\ (stream'[q].at = "standby") <=> (stream'[q].token = None)
                            /\ stream'[q].at \in {"standby", "electing"} => ~stream'[q].lost
    BY DEF Fields, OwnersInv, LeasesInv, Leading
  <2> QED  BY <2>1, <2>2, <2>3, <2>4 DEF TypeOK, StreamType, LeaseType
<1>2. OwnersInv'
  BY DEF Fields, OwnersInv, LeasesInv, Leading
<1>3. LeasesInv'
  BY DEF Fields, OwnersInv, LeasesInv, Owned, Leading
<1>4. ClockInv'
  BY DEF Fields, OwnersInv, LeasesInv, ClockInv, Leading
<1>5. KeyInv'
  BY DEF Fields, OwnersInv, LeasesInv, ClockInv, KeyInv, HeldSince, Leading
<1>6. LostRunIsTold'
  BY DEF Fields, OwnersInv, LeasesInv, LostRunIsTold, Leading
<1>7. StrayKeyIsGivenBack'
  BY DEF Fields, OwnersInv, LeasesInv, ClockInv, StrayKeyIsGivenBack, Owned, Leading
<1> QED  BY <1>1, <1>2, <1>3, <1>4, <1>5, <1>6, <1>7

\* The coordinator refuses a call.
LEMMA Refused ==
  ASSUME LeaderInv, NEW t \in Tokens, lease[t].at \in {"electing", "renewing"}, lease[t].answer = "none",
         ~Takeable(t), lock' = lock,
         lease' = [lease EXCEPT ![t].answer = "refused"], UNCHANGED <<now, stream, early, unreleased, faults>>
  PROVE  LeaderInv'
<1>f. Fields
  BY FieldsOf DEF LeaderInv
<1> USE DEF LeaderInv
<1>e1. lease[t].at \in {"electing", "renewing"} /\ lease[t].answer = "none"
  OBVIOUS
<1>e2. /\ \A u \in Tokens : u # t => lease'[u] = lease[u]
       /\ lease'[t].at = lease[t].at /\ lease'[t].since = lease[t].since
       /\ lease'[t].lastOk = lease[t].lastOk /\ lease'[t].lost = lease[t].lost
       /\ lease'[t].stopped = lease[t].stopped
  BY DEF TypeOK
<1>e3. UNCHANGED <<now, stream, early, unreleased, faults>>
  OBVIOUS
<1>e4. lease'[t].answer = "refused"
  BY DEF TypeOK
<1>e5. lock.holder # t
  BY DEF Takeable
<1> USE <1>f, <1>e1, <1>e2, <1>e3, <1>e4, <1>e5
<1>1. TypeOK'
  <2>1. stream' \in [Replicas -> StreamType]
    <3>1. stream \in [Replicas -> StreamType]
      BY DEF TypeOK, StreamType
    <3> QED  BY <3>1
  <2>2. lease' \in [Tokens -> LeaseType]
    <3>1. lease \in [Tokens -> LeaseType]
      BY DEF TypeOK, LeaseType
    <3> QED  BY <3>1, LeaseTyped
  <2>3. /\ now' \in Times /\ lock' \in [holder : Tokens \cup {None}, expires : Nat]
        /\ early' \subseteq Tokens /\ unreleased' \subseteq Tokens
        /\ faults' \in 0 .. MaxFaults
    BY LeaderAssumption DEF Fields, TypeOK, Times, UseFault, Times
  <2>4. \A q \in Replicas : /\ (stream'[q].at = "standby") <=> (stream'[q].token = None)
                            /\ stream'[q].at \in {"standby", "electing"} => ~stream'[q].lost
    BY DEF Fields, OwnersInv, LeasesInv, Leading
  <2> QED  BY <2>1, <2>2, <2>3, <2>4 DEF TypeOK, StreamType, LeaseType
<1>2. OwnersInv'
  BY DEF Fields, OwnersInv, LeasesInv, Leading
<1>3. LeasesInv'
  BY DEF Fields, OwnersInv, LeasesInv, Owned, Leading
<1>4. ClockInv'
  BY DEF Fields, OwnersInv, LeasesInv, ClockInv, KeyInv, HeldSince, Leading
<1>5. KeyInv'
  BY DEF Fields, OwnersInv, LeasesInv, ClockInv, KeyInv, HeldSince, Leading
<1>6. LostRunIsTold'
  BY DEF Fields, OwnersInv, LeasesInv, LostRunIsTold, Leading
<1>7. StrayKeyIsGivenBack'
  BY DEF Fields, OwnersInv, LeasesInv, ClockInv, StrayKeyIsGivenBack, Owned, Leading
<1> QED  BY <1>1, <1>2, <1>3, <1>4, <1>5, <1>6, <1>7

\* A renewal is sent.
LEMMA BeatStep ==
  ASSUME LeaderInv, NEW t \in Tokens, Beat(t)
  PROVE  LeaderInv'
<1>f. Fields
  BY FieldsOf DEF LeaderInv
<1> USE DEF LeaderInv
<1>e1. lease[t].at = "idle"
  BY DEF Beat
<1>e2. /\ \A u \in Tokens : u # t => lease'[u] = lease[u]
       /\ lease'[t].lastOk = lease[t].lastOk /\ lease'[t].lost = lease[t].lost
       /\ lease'[t].stopped = lease[t].stopped
       /\ lease'[t].at = "renewing" /\ lease'[t].answer = "none" /\ lease'[t].since = now
  BY DEF Beat, TypeOK
<1>e3. UNCHANGED <<now, lock, stream, early, unreleased, faults>>
  BY DEF Beat
<1> USE <1>f, <1>e1, <1>e2, <1>e3
<1>1. TypeOK'
  <2>1. stream' \in [Replicas -> StreamType]
    <3>1. stream \in [Replicas -> StreamType]
      BY DEF TypeOK, StreamType
    <3> QED  BY <3>1
  <2>2. lease' \in [Tokens -> LeaseType]
    <3>1. lease \in [Tokens -> LeaseType] /\ now \in Times
      BY DEF TypeOK, LeaseType
    <3>2. lease' = [lease EXCEPT ![t] = [lease[t] EXCEPT !.at = "renewing", !.answer = "none", !.since = now]]
      BY <3>1 DEF Beat
    <3>3. [lease[t] EXCEPT !.at = "renewing", !.answer = "none", !.since = now] \in LeaseType
      BY <3>1, LeaseTyped
    <3> QED  BY <3>1, <3>2, <3>3
  <2>3. /\ now' \in Times /\ lock' \in [holder : Tokens \cup {None}, expires : Nat]
        /\ early' \subseteq Tokens /\ unreleased' \subseteq Tokens
        /\ faults' \in 0 .. MaxFaults
    BY LeaderAssumption DEF Fields, TypeOK, Times, UseFault, Beat
  <2>4. \A q \in Replicas : /\ (stream'[q].at = "standby") <=> (stream'[q].token = None)
                            /\ stream'[q].at \in {"standby", "electing"} => ~stream'[q].lost
    BY DEF Fields, OwnersInv, LeasesInv, Leading
  <2> QED  BY <2>1, <2>2, <2>3, <2>4 DEF TypeOK, StreamType, LeaseType
<1>2. OwnersInv'
  BY DEF Fields, OwnersInv, LeasesInv, Leading
<1>3. LeasesInv'
  BY DEF Fields, OwnersInv, LeasesInv, Owned, Leading
<1>4. ClockInv'
  BY DEF Fields, OwnersInv, LeasesInv, ClockInv, Leading
<1>5. KeyInv'
  BY DEF Fields, OwnersInv, LeasesInv, ClockInv, KeyInv, HeldSince, Leading
<1>6. LostRunIsTold'
  BY DEF Fields, OwnersInv, LeasesInv, LostRunIsTold, Leading
<1>7. StrayKeyIsGivenBack'
  BY DEF Fields, OwnersInv, LeasesInv, ClockInv, StrayKeyIsGivenBack, Owned, Leading
<1> QED  BY <1>1, <1>2, <1>3, <1>4, <1>5, <1>6, <1>7

\* The fence comes: the lease is lost and its run is told to stop.
LEMMA WatchdogStep ==
  ASSUME LeaderInv, NEW t \in Tokens, Watchdog(t)
  PROVE  LeaderInv'
<1>f. Fields
  BY FieldsOf DEF LeaderInv
<1> USE DEF LeaderInv
<1>e1. /\ lease[t].at \in {"idle", "renewing", "releasing"} /\ ~lease[t].stopped /\ ~lease[t].lost
       /\ now >= lease[t].lastOk + Fence
  BY DEF Watchdog, Watched, FenceDue
<1>e2. /\ \A u \in Tokens : u # t => lease'[u] = lease[u]
       /\ lease'[t].at = lease[t].at /\ lease'[t].answer = lease[t].answer
       /\ lease'[t].since = lease[t].since /\ lease'[t].lastOk = lease[t].lastOk
       /\ lease'[t].stopped = lease[t].stopped
       /\ lease'[t].lost
  BY DEF Watchdog, TypeOK
<1>e3. \A q \in Replicas :
       /\ stream[q].token # t => stream'[q] = stream[q]
       /\ stream[q].token = t => /\ stream'[q].at = stream[q].at /\ stream'[q].token = t /\ stream'[q].lost
                                 /\ stream[q].at = "running" => stream'[q].told
  BY DEF Watchdog, Told, TypeOK
<1>e4. UNCHANGED <<now, lock, early, unreleased, faults>>
  BY DEF Watchdog
<1> USE <1>f, <1>e1, <1>e2, <1>e3, <1>e4
<1>1. TypeOK'
  <2>1. stream' \in [Replicas -> StreamType]
    BY ToldTyped DEF Watchdog
  <2>2. lease' \in [Tokens -> LeaseType]
    <3>1. lease \in [Tokens -> LeaseType]
      BY DEF TypeOK, LeaseType
    <3> QED  BY <3>1, LeaseTyped DEF Watchdog
  <2>3. /\ now' \in Times /\ lock' \in [holder : Tokens \cup {None}, expires : Nat]
        /\ early' \subseteq Tokens /\ unreleased' \subseteq Tokens
        /\ faults' \in 0 .. MaxFaults
    BY LeaderAssumption DEF Fields, TypeOK, Times, UseFault, Watchdog
  <2>4. \A q \in Replicas : /\ (stream'[q].at = "standby") <=> (stream'[q].token = None)
                            /\ stream'[q].at \in {"standby", "electing"} => ~stream'[q].lost
    BY DEF Fields, OwnersInv, LeasesInv, Leading
  <2> QED  BY <2>1, <2>2, <2>3, <2>4 DEF TypeOK, StreamType, LeaseType
<1>2. OwnersInv'
  BY DEF Fields, OwnersInv, LeasesInv, Leading
<1>3. LeasesInv'
  BY DEF Fields, OwnersInv, LeasesInv, Owned, Leading
<1>4. ClockInv'
  BY DEF Fields, OwnersInv, LeasesInv, ClockInv, Leading
<1>5. KeyInv'
  BY DEF KeyInv, HeldSince
<1>6. LostRunIsTold'
  BY DEF LostRunIsTold, Fields
<1>7. StrayKeyIsGivenBack'
  BY DEF Fields, OwnersInv, LeasesInv, ClockInv, StrayKeyIsGivenBack, Owned, Leading
<1> QED  BY <1>1, <1>2, <1>3, <1>4, <1>5, <1>6, <1>7

\* Time passes.
LEMMA TickStep ==
  ASSUME LeaderInv, Tick
  PROVE  LeaderInv'
<1>f. Fields
  BY FieldsOf DEF LeaderInv
<1> USE DEF LeaderInv
<1>e1. now < MaxTime /\ now' = now + 1 /\ UNCHANGED <<lock, stream, lease, early, unreleased, faults>>
  BY DEF Tick
<1> USE <1>f, <1>e1
<1>1. TypeOK'
  <2>1. stream' \in [Replicas -> StreamType]
    <3>1. stream \in [Replicas -> StreamType]
      BY DEF TypeOK, StreamType
    <3> QED  BY <3>1
  <2>2. lease' \in [Tokens -> LeaseType]
    <3>1. lease \in [Tokens -> LeaseType]
      BY DEF TypeOK, LeaseType
    <3> QED  BY <3>1
  <2>3. /\ now' \in Times /\ lock' \in [holder : Tokens \cup {None}, expires : Nat]
        /\ early' \subseteq Tokens /\ unreleased' \subseteq Tokens
        /\ faults' \in 0 .. MaxFaults
    BY LeaderAssumption DEF Fields, TypeOK, Times, UseFault, Tick
  <2>4. \A q \in Replicas : /\ (stream'[q].at = "standby") <=> (stream'[q].token = None)
                            /\ stream'[q].at \in {"standby", "electing"} => ~stream'[q].lost
    BY DEF Fields, OwnersInv, LeasesInv, Leading
  <2> QED  BY <2>1, <2>2, <2>3, <2>4 DEF TypeOK, StreamType, LeaseType
<1>2. OwnersInv'
  BY DEF Fields, OwnersInv, LeasesInv, Leading
<1>3. LeasesInv'
  BY DEF Fields, OwnersInv, LeasesInv, Owned, Leading
<1>4. ClockInv'
  BY DEF Fields, OwnersInv, LeasesInv, ClockInv, Leading
<1>5. KeyInv'
  BY DEF Fields, OwnersInv, LeasesInv, ClockInv, KeyInv, HeldSince, Leading
<1>6. LostRunIsTold'
  BY DEF Fields, OwnersInv, LeasesInv, LostRunIsTold, Leading
<1>7. StrayKeyIsGivenBack'
  BY DEF Fields, OwnersInv, LeasesInv, ClockInv, StrayKeyIsGivenBack, Owned, Leading
<1> QED  BY <1>1, <1>2, <1>3, <1>4, <1>5, <1>6, <1>7

\* A renewal that nobody needs any more is granted: the key is to be given back.
LEMMA RenewedInVain ==
  ASSUME LeaderInv, NEW t \in Tokens, lease[t].at = "renewing",
         lease[t].answer = "held", lease[t].stopped \/ lease[t].lost,
         lease' = [lease EXCEPT ![t].at = "releasing"], stream' = stream, UNCHANGED <<now, lock, early, unreleased, faults>>
  PROVE  LeaderInv'
<1>f. Fields
  BY FieldsOf DEF LeaderInv
<1> USE DEF LeaderInv
<1>e1. /\ \A u \in Tokens : u # t => lease'[u] = lease[u]
       /\ lease'[t].answer = lease[t].answer /\ lease'[t].since = lease[t].since
       /\ lease'[t].lastOk = lease[t].lastOk /\ lease'[t].lost = lease[t].lost
       /\ lease'[t].stopped = lease[t].stopped
       /\ lease'[t].at = "releasing"
  BY DEF TypeOK
<1>e2. UNCHANGED <<now, lock, stream, early, unreleased, faults>>
  OBVIOUS
<1> USE <1>f, <1>e1, <1>e2
<1>1. TypeOK'
  <2>1. stream' \in [Replicas -> StreamType]
    <3>1. stream \in [Replicas -> StreamType]
      BY DEF TypeOK, StreamType
    <3> QED  BY <3>1
  <2>2. lease' \in [Tokens -> LeaseType]
    <3>1. lease \in [Tokens -> LeaseType]
      BY DEF TypeOK, LeaseType
    <3> QED  BY <3>1, LeaseTyped
  <2>3. /\ now' \in Times /\ lock' \in [holder : Tokens \cup {None}, expires : Nat]
        /\ early' \subseteq Tokens /\ unreleased' \subseteq Tokens
        /\ faults' \in 0 .. MaxFaults
    BY LeaderAssumption DEF Fields, TypeOK, Times, UseFault, Times
  <2>4. \A q \in Replicas : /\ (stream'[q].at = "standby") <=> (stream'[q].token = None)
                            /\ stream'[q].at \in {"standby", "electing"} => ~stream'[q].lost
    BY DEF Fields, OwnersInv, LeasesInv, Leading
  <2> QED  BY <2>1, <2>2, <2>3, <2>4 DEF TypeOK, StreamType, LeaseType
<1>2. OwnersInv'
  BY DEF Fields, OwnersInv, LeasesInv, Leading
<1>3. LeasesInv'
  BY DEF Fields, OwnersInv, LeasesInv, Owned, Leading
<1>4. ClockInv'
  BY DEF Fields, OwnersInv, LeasesInv, ClockInv, Leading
<1>5. KeyInv'
  BY DEF Fields, OwnersInv, LeasesInv, ClockInv, KeyInv, HeldSince, Leading
<1>6. LostRunIsTold'
  BY DEF Fields, OwnersInv, LeasesInv, LostRunIsTold, Leading
<1>7. StrayKeyIsGivenBack'
  BY DEF Fields, OwnersInv, LeasesInv, ClockInv, StrayKeyIsGivenBack, Owned, Leading
<1> QED  BY <1>1, <1>2, <1>3, <1>4, <1>5, <1>6, <1>7

\* The last call of a stopped heartbeat was refused, or failed.
LEMMA LastCallOver ==
  ASSUME LeaderInv, NEW t \in Tokens, lease[t].at = "renewing", lease[t].stopped,
         lease[t].answer = "refused" \/ t \in unreleased',
         lease' = [lease EXCEPT ![t] = Unused], stream' = stream, UNCHANGED <<now, lock, early>>,
         unreleased \subseteq unreleased', unreleased' \subseteq Tokens, faults' \in 0 .. MaxFaults
  PROVE  LeaderInv'
<1>f. Fields
  BY FieldsOf DEF LeaderInv
<1> USE DEF LeaderInv
<1>e1. /\ \A u \in Tokens : u # t => lease'[u] = lease[u]
       /\ lease'[t] = Unused
  BY DEF TypeOK
<1> USE <1>f, <1>e1
<1>1. TypeOK'
  <2>1. stream' \in [Replicas -> StreamType]
    <3>1. stream \in [Replicas -> StreamType]
      BY DEF TypeOK, StreamType
    <3> QED  BY <3>1
  <2>2. lease' \in [Tokens -> LeaseType]
    <3>1. lease \in [Tokens -> LeaseType]
      BY DEF TypeOK, LeaseType
    <3> QED  BY <3>1, LeaseTyped
  <2>3. /\ now' \in Times /\ lock' \in [holder : Tokens \cup {None}, expires : Nat]
        /\ early' \subseteq Tokens /\ unreleased' \subseteq Tokens
        /\ faults' \in 0 .. MaxFaults
    BY LeaderAssumption DEF Fields, TypeOK, Times, UseFault, Times
  <2>4. \A q \in Replicas : /\ (stream'[q].at = "standby") <=> (stream'[q].token = None)
                            /\ stream'[q].at \in {"standby", "electing"} => ~stream'[q].lost
    BY DEF Fields, OwnersInv, LeasesInv, Leading
  <2> QED  BY <2>1, <2>2, <2>3, <2>4 DEF TypeOK, StreamType, LeaseType
<1>2. OwnersInv'
  BY DEF Fields, OwnersInv, LeasesInv, Leading
<1>3. LeasesInv'
  BY DEF Fields, OwnersInv, LeasesInv, Owned, Leading
<1>4. ClockInv'
  BY DEF Fields, OwnersInv, LeasesInv, ClockInv, Leading
<1>5. KeyInv'
  BY DEF Fields, OwnersInv, LeasesInv, ClockInv, KeyInv, HeldSince, Leading
<1>6. LostRunIsTold'
  BY DEF Fields, OwnersInv, LeasesInv, LostRunIsTold, Leading
<1>7. StrayKeyIsGivenBack'
  BY DEF Fields, OwnersInv, LeasesInv, ClockInv, StrayKeyIsGivenBack, Owned, Leading
<1> QED  BY <1>1, <1>2, <1>3, <1>4, <1>5, <1>6, <1>7

\* A lost lease's renewal is refused.
LEMMA RefusedOnceLost ==
  ASSUME LeaderInv, NEW t \in Tokens, lease[t].at = "renewing",
         Renewed(t), lease[t].answer = "refused", ~lease[t].stopped, lease[t].lost
  PROVE  LeaderInv'
<1>f. Fields
  BY FieldsOf DEF LeaderInv
<1> USE DEF LeaderInv
<1>e1. /\ \A u \in Tokens : u # t => lease'[u] = lease[u]
       /\ lease'[t].answer = lease[t].answer /\ lease'[t].since = lease[t].since
       /\ lease'[t].lastOk = lease[t].lastOk /\ lease'[t].stopped = lease[t].stopped
       /\ lease'[t].at = "ended" /\ lease'[t].lost
  BY DEF Renewed, GivesBack, TypeOK
<1>e2. UNCHANGED <<now, lock, stream, early, unreleased, faults>>
  BY DEF Renewed, GivesBack
<1> USE <1>f, <1>e1, <1>e2
<1>1. TypeOK'
  <2>1. stream' \in [Replicas -> StreamType]
    <3>1. stream \in [Replicas -> StreamType]
      BY DEF TypeOK, StreamType
    <3> QED  BY <3>1
  <2>2. lease' \in [Tokens -> LeaseType]
    <3>1. lease \in [Tokens -> LeaseType]
      BY DEF TypeOK, LeaseType
    <3>2. lease' = [lease EXCEPT ![t] = [lease[t] EXCEPT !.at = "ended", !.lost = TRUE]]
      BY <3>1 DEF Renewed, GivesBack
    <3>3. [lease[t] EXCEPT !.at = "ended", !.lost = TRUE] \in LeaseType
      BY <3>1, LeaseTyped
    <3> QED  BY <3>1, <3>2, <3>3
  <2>3. /\ now' \in Times /\ lock' \in [holder : Tokens \cup {None}, expires : Nat]
        /\ early' \subseteq Tokens /\ unreleased' \subseteq Tokens
        /\ faults' \in 0 .. MaxFaults
    BY LeaderAssumption DEF Fields, TypeOK, Times, UseFault, Times
  <2>4. \A q \in Replicas : /\ (stream'[q].at = "standby") <=> (stream'[q].token = None)
                            /\ stream'[q].at \in {"standby", "electing"} => ~stream'[q].lost
    BY DEF Fields, OwnersInv, LeasesInv, Leading
  <2> QED  BY <2>1, <2>2, <2>3, <2>4 DEF TypeOK, StreamType, LeaseType
<1>2. OwnersInv'
  BY DEF Fields, OwnersInv, LeasesInv, Leading
<1>3. LeasesInv'
  BY DEF Fields, OwnersInv, LeasesInv, Owned, Leading
<1>4. ClockInv'
  BY DEF Fields, OwnersInv, LeasesInv, ClockInv, Leading
<1>5. KeyInv'
  BY DEF Fields, OwnersInv, LeasesInv, ClockInv, KeyInv, HeldSince, Leading
<1>6. LostRunIsTold'
  BY DEF Fields, OwnersInv, LeasesInv, LostRunIsTold, Leading
<1>7. StrayKeyIsGivenBack'
  BY DEF Fields, OwnersInv, LeasesInv, ClockInv, StrayKeyIsGivenBack, Owned, Leading
<1> QED  BY <1>1, <1>2, <1>3, <1>4, <1>5, <1>6, <1>7

\* A refused renewal: the lease is lost, and its run told to stop.
LEMMA RefusedAndLost ==
  ASSUME LeaderInv, NEW t \in Tokens, lease[t].at = "renewing",
         Renewed(t), lease[t].answer = "refused", ~lease[t].stopped, ~lease[t].lost
  PROVE  LeaderInv'
<1>f. Fields
  BY FieldsOf DEF LeaderInv
<1> USE DEF LeaderInv
<1>e1. /\ \A u \in Tokens : u # t => lease'[u] = lease[u]
       /\ lease'[t].answer = lease[t].answer /\ lease'[t].since = lease[t].since
       /\ lease'[t].lastOk = lease[t].lastOk /\ lease'[t].stopped = lease[t].stopped
       /\ lease'[t].at = "ended" /\ lease'[t].lost
  BY DEF Renewed, GivesBack, TypeOK
<1>e2. stream' = Told(t)
  BY DEF Renewed, GivesBack
<1>e3. \A q \in Replicas :
       /\ stream[q].token # t => stream'[q] = stream[q]
       /\ stream[q].token = t => /\ stream'[q].at = stream[q].at /\ stream'[q].token = t /\ stream'[q].lost
                                 /\ stream[q].at = "running" => stream'[q].told
  BY <1>e2 DEF Told, TypeOK
<1>e4. UNCHANGED <<now, lock, early, unreleased, faults>>
  BY DEF Renewed, GivesBack
<1> USE <1>f, <1>e1, <1>e2, <1>e3, <1>e4
<1>1. TypeOK'
  <2>1. stream' \in [Replicas -> StreamType]
    BY ToldTyped
  <2>2. lease' \in [Tokens -> LeaseType]
    <3>1. lease \in [Tokens -> LeaseType]
      BY DEF TypeOK, LeaseType
    <3>2. lease' = [lease EXCEPT ![t] = [lease[t] EXCEPT !.at = "ended", !.lost = TRUE]]
      BY <3>1 DEF Renewed, GivesBack
    <3>3. [lease[t] EXCEPT !.at = "ended", !.lost = TRUE] \in LeaseType
      BY <3>1, LeaseTyped
    <3> QED  BY <3>1, <3>2, <3>3
  <2>3. /\ now' \in Times /\ lock' \in [holder : Tokens \cup {None}, expires : Nat]
        /\ early' \subseteq Tokens /\ unreleased' \subseteq Tokens
        /\ faults' \in 0 .. MaxFaults
    BY LeaderAssumption DEF Fields, TypeOK, Times, UseFault, Times
  <2>4. \A q \in Replicas : /\ (stream'[q].at = "standby") <=> (stream'[q].token = None)
                            /\ stream'[q].at \in {"standby", "electing"} => ~stream'[q].lost
    BY DEF Fields, OwnersInv, LeasesInv, Leading
  <2> QED  BY <2>1, <2>2, <2>3, <2>4 DEF TypeOK, StreamType, LeaseType
<1>2. OwnersInv'
  BY DEF Fields, OwnersInv, LeasesInv, Leading
<1>3. LeasesInv'
  BY DEF Fields, OwnersInv, LeasesInv, Owned, Leading
<1>4. ClockInv'
  BY DEF Fields, OwnersInv, LeasesInv, ClockInv, Leading
<1>5. KeyInv'
  BY DEF KeyInv, HeldSince
<1>6. LostRunIsTold'
  BY DEF LostRunIsTold, Fields
<1>7. StrayKeyIsGivenBack'
  BY DEF Fields, OwnersInv, LeasesInv, ClockInv, StrayKeyIsGivenBack, Owned, Leading
<1> QED  BY <1>1, <1>2, <1>3, <1>4, <1>5, <1>6, <1>7

\* A renewal that was granted, timed from when it was sent.
LEMMA RenewalHeld ==
  ASSUME LeaderInv, NEW t \in Tokens, lease[t].at = "renewing",
         lease[t].answer = "held", ~lease[t].stopped, ~lease[t].lost,
         lease' = [lease EXCEPT ![t] = [Waits(t) EXCEPT !.lastOk = OkSince(t)]], stream' = stream, UNCHANGED <<now, lock, early, unreleased, faults>>
  PROVE  LeaderInv'
<1>f. Fields
  BY FieldsOf DEF LeaderInv
<1> USE DEF LeaderInv
<1>e1. /\ \A u \in Tokens : u # t => lease'[u] = lease[u]
       /\ lease'[t].lost = lease[t].lost /\ lease'[t].stopped = lease[t].stopped
       /\ lease'[t].at = "idle" /\ lease'[t].answer = "none" /\ lease'[t].since = now
       /\ lease'[t].lastOk = IF lease[t].lastOk < lease[t].since THEN lease[t].since ELSE lease[t].lastOk
  BY DEF TypeOK, Waits, OkSince
<1>e2. UNCHANGED <<now, lock, stream, early, unreleased, faults>>
  OBVIOUS
<1> USE <1>f, <1>e1, <1>e2
<1>1. TypeOK'
  <2>1. stream' \in [Replicas -> StreamType]
    <3>1. stream \in [Replicas -> StreamType]
      BY DEF TypeOK, StreamType
    <3> QED  BY <3>1
  <2>2. lease' \in [Tokens -> LeaseType]
    <3>1. lease \in [Tokens -> LeaseType] /\ now \in Times /\ lease[t].since \in Times /\ lease[t].lastOk \in Times
      BY DEF TypeOK, LeaseType
    <3>2. Waits(t) \in LeaseType /\ \A x \in Times : [Waits(t) EXCEPT !.lastOk = x] \in LeaseType
      BY <3>1 DEF Waits, LeaseType
    <3>3. OkSince(t) \in Times
      BY <3>1 DEF OkSince
    <3> QED  BY <3>1, <3>2, <3>3
  <2>3. /\ now' \in Times /\ lock' \in [holder : Tokens \cup {None}, expires : Nat]
        /\ early' \subseteq Tokens /\ unreleased' \subseteq Tokens
        /\ faults' \in 0 .. MaxFaults
    BY LeaderAssumption DEF Fields, TypeOK, Times, UseFault, Times
  <2>4. \A q \in Replicas : /\ (stream'[q].at = "standby") <=> (stream'[q].token = None)
                            /\ stream'[q].at \in {"standby", "electing"} => ~stream'[q].lost
    BY DEF Fields, OwnersInv, LeasesInv, Leading
  <2> QED  BY <2>1, <2>2, <2>3, <2>4 DEF TypeOK, StreamType, LeaseType
<1>2. OwnersInv'
  BY DEF Fields, OwnersInv, LeasesInv, Leading
<1>3. LeasesInv'
  BY DEF Fields, OwnersInv, LeasesInv, Owned, Leading
<1>4. ClockInv'
  BY DEF Fields, OwnersInv, LeasesInv, ClockInv, Leading
<1>5. KeyInv'
  BY DEF Fields, OwnersInv, LeasesInv, ClockInv, KeyInv, HeldSince, Leading
<1>6. LostRunIsTold'
  BY DEF Fields, OwnersInv, LeasesInv, LostRunIsTold, Leading
<1>7. StrayKeyIsGivenBack'
  BY DEF Fields, OwnersInv, LeasesInv, ClockInv, StrayKeyIsGivenBack, Owned, Leading
<1> QED  BY <1>1, <1>2, <1>3, <1>4, <1>5, <1>6, <1>7

LEMMA RenewedStep ==
  ASSUME LeaderInv, NEW t \in Tokens, Renewed(t)
  PROVE  LeaderInv'
<1>1. unreleased \subseteq Tokens /\ faults \in 0 .. MaxFaults /\ lease[t].answer \in {"none", "held", "refused"}
  BY DEF LeaderInv, TypeOK
<1>2. CASE GivesBack(t) /\ lease' = [lease EXCEPT ![t].at = "releasing"] /\ stream' = stream
  BY <1>2, RenewedInVain DEF Renewed, GivesBack
<1>3. CASE lease[t].stopped /\ ~GivesBack(t) /\ lease' = [lease EXCEPT ![t] = Unused] /\ stream' = stream
  BY <1>1, <1>3, LastCallOver DEF Renewed, GivesBack
<1>4. CASE /\ lease[t].answer = "refused" /\ ~lease[t].stopped
           /\ lease' = [lease EXCEPT ![t].at = "ended", ![t].lost = TRUE]
           /\ stream' = IF lease[t].lost THEN stream ELSE Told(t)
  BY <1>4, RefusedOnceLost, RefusedAndLost DEF Renewed
<1>5. CASE /\ lease[t].answer = "held" /\ ~lease[t].stopped /\ ~GivesBack(t)
           /\ lease' = [lease EXCEPT ![t] = [Waits(t) EXCEPT !.lastOk = OkSince(t)]] /\ stream' = stream
  BY <1>5, RenewalHeld DEF Renewed, GivesBack
<1> QED  BY <1>2, <1>3, <1>4, <1>5 DEF Renewed

\* A failed renewal is tried again on the next beat.
LEMMA RetryLater ==
  ASSUME LeaderInv, NEW t \in Tokens, lease[t].at = "renewing",
         ~lease[t].stopped, lease' = [lease EXCEPT ![t] = Waits(t)],
         UNCHANGED <<now, lock, stream, early, unreleased>>, faults' \in 0 .. MaxFaults
  PROVE  LeaderInv'
<1>f. Fields
  BY FieldsOf DEF LeaderInv
<1> USE DEF LeaderInv
<1>e1. /\ \A u \in Tokens : u # t => lease'[u] = lease[u]
       /\ lease'[t].lastOk = lease[t].lastOk /\ lease'[t].lost = lease[t].lost
       /\ lease'[t].stopped = lease[t].stopped
       /\ lease'[t].at = "idle" /\ lease'[t].answer = "none" /\ lease'[t].since = now
  BY DEF TypeOK, Waits
<1> USE <1>f, <1>e1
<1>1. TypeOK'
  <2>1. stream' \in [Replicas -> StreamType]
    <3>1. stream \in [Replicas -> StreamType]
      BY DEF TypeOK, StreamType
    <3> QED  BY <3>1
  <2>2. lease' \in [Tokens -> LeaseType]
    <3>1. lease \in [Tokens -> LeaseType] /\ now \in Times
      BY DEF TypeOK, LeaseType
    <3>2. Waits(t) \in LeaseType
      BY <3>1 DEF Waits, LeaseType
    <3> QED  BY <3>1, <3>2
  <2>3. /\ now' \in Times /\ lock' \in [holder : Tokens \cup {None}, expires : Nat]
        /\ early' \subseteq Tokens /\ unreleased' \subseteq Tokens
        /\ faults' \in 0 .. MaxFaults
    BY LeaderAssumption DEF Fields, TypeOK, Times, UseFault, Times
  <2>4. \A q \in Replicas : /\ (stream'[q].at = "standby") <=> (stream'[q].token = None)
                            /\ stream'[q].at \in {"standby", "electing"} => ~stream'[q].lost
    BY DEF Fields, OwnersInv, LeasesInv, Leading
  <2> QED  BY <2>1, <2>2, <2>3, <2>4 DEF TypeOK, StreamType, LeaseType
<1>2. OwnersInv'
  BY DEF Fields, OwnersInv, LeasesInv, Leading
<1>3. LeasesInv'
  BY DEF Fields, OwnersInv, LeasesInv, Owned, Leading
<1>4. ClockInv'
  BY DEF Fields, OwnersInv, LeasesInv, ClockInv, Leading
<1>5. KeyInv'
  BY DEF Fields, OwnersInv, LeasesInv, ClockInv, KeyInv, HeldSince, Leading
<1>6. LostRunIsTold'
  BY DEF Fields, OwnersInv, LeasesInv, LostRunIsTold, Leading
<1>7. StrayKeyIsGivenBack'
  BY DEF Fields, OwnersInv, LeasesInv, ClockInv, StrayKeyIsGivenBack, Owned, Leading
<1> QED  BY <1>1, <1>2, <1>3, <1>4, <1>5, <1>6, <1>7

LEMMA RenewFailsStep ==
  ASSUME LeaderInv, NEW t \in Tokens, RenewFails(t)
  PROVE  LeaderInv'
<1>1. unreleased \subseteq Tokens /\ faults' \in 0 .. MaxFaults
  BY LeaderAssumption DEF LeaderInv, TypeOK, RenewFails, UseFault
<1>2. CASE lease[t].stopped
  BY <1>1, <1>2, LastCallOver DEF RenewFails
<1>3. CASE ~lease[t].stopped
  BY <1>1, <1>3, RetryLater DEF RenewFails
<1> QED  BY <1>2, <1>3

\* A heartbeat gives the key back.
LEMMA ReleaseStep ==
  ASSUME LeaderInv, NEW t \in Tokens, Release(t)
  PROVE  LeaderInv'
<1>f. Fields
  BY FieldsOf DEF LeaderInv
<1> USE DEF LeaderInv
<1>e1. lease[t].at = "releasing" /\ now' = now /\ stream' = stream /\ unreleased \subseteq unreleased'
  BY DEF Release, Unlocks
<1>e2. /\ \A u \in Tokens : u # t => lease'[u] = lease[u]
       /\ \/ lease[t].stopped /\ lease'[t] = Unused
          \/ /\ ~lease[t].stopped /\ lease'[t].at = "ended" /\ lease'[t].answer = lease[t].answer
             /\ lease'[t].since = lease[t].since /\ lease'[t].lastOk = lease[t].lastOk
             /\ lease'[t].lost = lease[t].lost /\ ~lease'[t].stopped
  BY DEF Release, TypeOK
<1>e3. lock' = Unlocked(t) \/ (lock' = lock /\ t \in unreleased')
  BY DEF Release, Unlocks
<1>e4. \/ lock' = lock /\ (lock.holder # t \/ t \in unreleased')
       \/ lock.holder = t /\ lock' = [holder |-> None, expires |-> 0]
  BY <1>e3 DEF Unlocked
<1>e5. lock' = lock \/ (lock.holder = t /\ lock'.holder = None)
  BY <1>e4
<1>e6. early' = IF lease[t].stopped THEN early ELSE early \cup {t}
  BY DEF Release
<1> USE <1>f, <1>e1, <1>e2, <1>e3, <1>e4, <1>e5, <1>e6
<1>1. TypeOK'
  <2>1. stream' \in [Replicas -> StreamType]
    <3>1. stream \in [Replicas -> StreamType]
      BY DEF TypeOK, StreamType
    <3> QED  BY <3>1
  <2>2. lease' \in [Tokens -> LeaseType]
    <3>1. lease \in [Tokens -> LeaseType]
      BY DEF TypeOK, LeaseType
    <3>2. [lease[t] EXCEPT !.at = "ended"] \in LeaseType
      BY <3>1, LeaseTyped
    <3> QED  BY <3>1, <3>2, LeaseTyped DEF Release
  <2>3. /\ now' \in Times /\ lock' \in [holder : Tokens \cup {None}, expires : Nat]
        /\ early' \subseteq Tokens /\ unreleased' \subseteq Tokens
        /\ faults' \in 0 .. MaxFaults
    BY LeaderAssumption DEF Fields, TypeOK, Times, UseFault, Release, Unlocks
  <2>4. \A q \in Replicas : /\ (stream'[q].at = "standby") <=> (stream'[q].token = None)
                            /\ stream'[q].at \in {"standby", "electing"} => ~stream'[q].lost
    BY DEF Fields, OwnersInv, LeasesInv, Leading
  <2> QED  BY <2>1, <2>2, <2>3, <2>4 DEF TypeOK, StreamType, LeaseType
<1>2. OwnersInv'
  BY DEF Fields, OwnersInv, LeasesInv, Leading
<1>3. LeasesInv'
  BY DEF Fields, OwnersInv, LeasesInv, Owned, Leading
<1>4. ClockInv'
  BY DEF Fields, OwnersInv, LeasesInv, ClockInv, Leading
<1>5. KeyInv'
  BY DEF Fields, OwnersInv, LeasesInv, ClockInv, KeyInv, HeldSince, Leading
<1>6. LostRunIsTold'
  BY DEF Fields, OwnersInv, LeasesInv, LostRunIsTold, Leading
<1>7. StrayKeyIsGivenBack'
  BY DEF Fields, OwnersInv, LeasesInv, ClockInv, StrayKeyIsGivenBack, Owned, Leading
<1> QED  BY <1>1, <1>2, <1>3, <1>4, <1>5, <1>6, <1>7

LEMMA ServeStep ==
  ASSUME LeaderInv, NEW t \in Tokens, Serve(t)
  PROVE  LeaderInv'
<1>1. CASE Takeable(t)
  BY <1>1, Granted DEF Serve
<1>2. CASE ~Takeable(t)
  BY <1>2, Refused DEF Serve
<1> QED  BY <1>1, <1>2

LEMMA LeaderStep == LeaderInv /\ [Next]_vars => LeaderInv'
<1> SUFFICES ASSUME LeaderInv, [Next]_vars PROVE LeaderInv'
  OBVIOUS
<1>1. CASE UNCHANGED vars
  BY <1>1 DEF vars, LeaderInv, TypeOK, OwnersInv, LeasesInv, ClockInv, KeyInv, LostRunIsTold,
     StrayKeyIsGivenBack, Leading, Owned, HeldSince
<1>2. CASE Next
  BY <1>2, ElectStep, ElectedStep, MoveStep, BeginStep, GiveBackStep, UnlockStep, CrashStep,
     ServeStep, WatchdogStep, BeatStep, RenewedStep, RenewFailsStep, ReleaseStep, TickStep DEF Next
<1> QED  BY <1>1, <1>2

LEMMA LeaderInit == Init => LeaderInv
<1> SUFFICES ASSUME Init PROVE LeaderInv
  OBVIOUS
<1>1. TypeOK
  BY LeaderAssumption DEF Init, TypeOK, Standby, Unused, Times, NoTime
<1>2. OwnersInv /\ LostRunIsTold
  BY DEF Init, OwnersInv, LostRunIsTold, Leading, Standby
<1>3. LeasesInv /\ ClockInv /\ KeyInv
  BY DEF Init, LeasesInv, ClockInv, KeyInv, Unused
<1>4. StrayKeyIsGivenBack
  BY DEF Init, StrayKeyIsGivenBack
<1> QED  BY <1>1, <1>2, <1>3, <1>4 DEF LeaderInv

LEMMA LeaderInvCorrect == Spec => []LeaderInv
  BY LeaderInit, LeaderStep, PTL DEF Spec

----------------------------------------------------------------------------
(* Theorems *)

\* Every stream, lease and lock stays what the supervisor, the heartbeat and
\* the coordinator may make of it.
THEOREM LeaderTypeCorrect == Spec => []TypeOK
<1>1. LeaderInv => TypeOK
  BY DEF LeaderInv
<1> QED  BY <1>1, LeaderInvCorrect, PTL

\* A leader whose fence has not come holds the key, and it is live
\* (lease.fence_after, supervisor._acquire).
THEOREM KeyCorrect == Spec => []LeaderHoldsKey
<1>1. LeaderInv => LeaderHoldsKey
  <2> SUFFICES ASSUME LeaderInv, NEW r \in Replicas,
                      Leading(r), ~stream[r].lost, ~FenceDue(stream[r].token)
               PROVE  lock.holder = stream[r].token /\ lock.expires > Second
    BY DEF LeaderHoldsKey
  <2> DEFINE t == stream[r].token
  <2>f. Fields
    BY FieldsOf DEF LeaderInv
  <2>1. t \in Tokens /\ lease[t].at \in {"idle", "renewing"} /\ ~lease[t].stopped /\ t \notin early
    BY <2>f DEF LeaderInv, OwnersInv, LeasesInv, Leading, Fields
  <2>2. lease[t].lastOk \in Nat /\ now < lease[t].lastOk + Fence
    BY <2>f, <2>1 DEF FenceDue, Fields
  <2>3. now <= lease[t].lastOk + Fence + Res
    BY <2>f, <2>2 DEF Fields
  <2>4. HeldSince(t, lease[t].lastOk)
    BY <2>1, <2>3 DEF LeaderInv, KeyInv
  <2> QED  BY <2>1, <2>2, <2>3, <2>4, KeyCovers DEF LeaderInv, HeldSince
<1> QED  BY <1>1, LeaderInvCorrect, PTL

\* Two connectors run at once only when one of them runs more than a second
\* past its fence, or its heartbeat gave the key back under it: any other runs
\* under the key, told to stop or not, and there is one key (lease.fence_after).
THEOREM OverlapCorrect == Spec => []OverlapNeedsOverrun
<1>1. ASSUME LeaderInv, NEW r \in Replicas, stream[r].at = "running",
             stream[r].token \notin early, ~Overruns(stream[r].token)
      PROVE  lock.holder = stream[r].token /\ stream[r].token # None
  <2> DEFINE t == stream[r].token
  <2>f. Fields
    BY <1>1, FieldsOf DEF LeaderInv
  <2>1. /\ t \in Tokens /\ t # None /\ ~lease[t].stopped
        /\ lease[t].at \in {"idle", "renewing", "releasing", "ended"}
    BY <1>1, <2>f DEF LeaderInv, OwnersInv, Leading, Fields
  <2>2. now <= lease[t].lastOk + Fence + Res
    BY <1>1, <2>f, <2>1 DEF Overruns, Fields
  <2>3. HeldSince(t, lease[t].lastOk)
    BY <1>1, <2>1, <2>2 DEF LeaderInv, KeyInv
  <2> QED  BY <2>1, <2>3 DEF HeldSince
<1>2. LeaderInv => OverlapNeedsOverrun
  <2> SUFFICES ASSUME LeaderInv, NEW r \in Replicas, NEW s \in Replicas, r # s,
                      stream[r].at = "running", stream[s].at = "running",
                      stream[r].token \notin early, ~Overruns(stream[r].token),
                      stream[s].token \notin early, ~Overruns(stream[s].token)
               PROVE  FALSE
    BY DEF OverlapNeedsOverrun
  <2>1. stream[r].token # None /\ stream[r].token = stream[s].token
    BY <1>1
  <2> QED  BY <2>1 DEF LeaderInv, OwnersInv
<1> QED  BY <1>2, LeaderInvCorrect, PTL

\* A connector whose lease is lost has been told to stop: the run thread looks
\* again once it has published how to tell it (supervisor._serve).
THEOREM ToldCorrect == Spec => []LostRunIsTold
<1>1. LeaderInv => LostRunIsTold
  BY DEF LeaderInv
<1> QED  BY <1>1, LeaderInvCorrect, PTL

\* No key stays held for a run that is over, unless a release failed or a
\* process died: a stopped heartbeat gives back what its last call took
\* (LeaseHeartbeat._run).
THEOREM StrayCorrect == Spec => []StrayKeyIsGivenBack
<1>1. LeaderInv => StrayKeyIsGivenBack
  BY DEF LeaderInv
<1> QED  BY <1>1, LeaderInvCorrect, PTL
=============================================================================
