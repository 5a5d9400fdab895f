--------------------------- MODULE SentinelProofs ---------------------------
(***************************************************************************)
(* Proofs about Sentinel, for every set of messages, every number of       *)
(* topics and faults, and every batch size.                                *)
(***************************************************************************)
EXTENDS Sentinel, FiniteSetTheorems, TLAPS

-----------------------------------------------------------------------------
(* Claiming a batch.                                                       *)

\* A set of naturals that is not empty has a least element.
LEMMA LeastExists ==
  ASSUME NEW S \in SUBSET Nat, S # {}
  PROVE  \E e \in S : \A x \in S : ~(x < e)
<1>1. \E e \in S : \A x \in S : <<x, e>> \notin OpToRel(<, Nat)
  BY NatLessThanWellFounded, WFMin
<1> QED
  BY <1>1 DEF OpToRel

\* A claim of what there is claims something, and from the front.
LEMMA LowestOfSome ==
  ASSUME NEW S \in SUBSET Nat, IsFiniteSet(S), S # {}, NEW n \in Nat \ {0}
  PROVE  /\ Lowest(S, n) \subseteq S
         /\ Lowest(S, n) # {}
         /\ \A e \in Lowest(S, n), x \in S : x < e => x \in Lowest(S, n)
<1>1. PICK e \in S : \A x \in S : ~(x < e)
  BY LeastExists
<1>2. {x \in S : x < e} = {}
  BY <1>1
<1>3. e \in Lowest(S, n)
  BY <1>2, FS_EmptySet DEF Lowest
<1>4. ASSUME NEW d \in Lowest(S, n), NEW x \in S, x < d
      PROVE  x \in Lowest(S, n)
  <2>1. d \in S /\ Cardinality({y \in S : y < d}) < n
    BY DEF Lowest
  <2>2. {y \in S : y < x} \in SUBSET {y \in S : y < d}
    <3>1. x \in Nat /\ d \in Nat /\ \A y \in S : y \in Nat
      BY <2>1
    <3>2. \A y \in S : y < x => y < d
      BY <1>4, <3>1
    <3> QED
      BY <3>2
  <2>3. IsFiniteSet({y \in S : y < d}) /\ {y \in S : y < d} \in SUBSET S
    BY FS_Subset
  <2>4. /\ Cardinality({y \in S : y < x}) <= Cardinality({y \in S : y < d})
        /\ Cardinality({y \in S : y < x}) \in Nat /\ Cardinality({y \in S : y < d}) \in Nat
    BY <2>2, <2>3, FS_Subset, FS_CardinalityType
  <2> QED
    BY <2>1, <2>4 DEF Lowest
<1> QED
  BY <1>3, <1>4 DEF Lowest

\* The size of an interval.
LEMMA SizeOfInterval ==
  ASSUME NEW a \in Nat, NEW n \in Nat
  PROVE  Cardinality(a + 1 .. a + n) = n
<1> DEFINE l == a + 1
           u == a + n
<1>1. l \in Int /\ u \in Int
  OBVIOUS
<1>2. (IF l > u THEN 0 ELSE u - l + 1) = n
  OBVIOUS
<1> HIDE DEF l, u
<1>3. Cardinality(l..u) = IF l > u THEN 0 ELSE u - l + 1
  BY <1>1, FS_Interval
<1> QED
  BY <1>2, <1>3 DEF l, u

\* The front part of an interval is an interval.
LEMMA FrontOfInterval ==
  ASSUME NEW a \in Nat, NEW b \in Nat, a <= b, NEW D \in SUBSET (a + 1 .. b),
         \A e \in D, x \in a + 1 .. b : x < e => x \in D
  PROVE  Cardinality(D) \in Nat /\ a + Cardinality(D) <= b /\ D = a + 1 .. a + Cardinality(D)
<1>1. IsFiniteSet(a + 1 .. b) /\ Cardinality(a + 1 .. b) = b - a
  <2>1. a + 1 \in Int /\ b \in Int /\ (a + 1 > b => b - a = 0) /\ b - (a + 1) + 1 = b - a
    OBVIOUS
  <2> QED
    BY <2>1, FS_Interval
<1>2. IsFiniteSet(D) /\ Cardinality(D) <= b - a /\ Cardinality(D) \in Nat
  BY <1>1, FS_Subset, FS_CardinalityType
<1> DEFINE n == Cardinality(D)
<1>3. ASSUME NEW e \in a + 1 .. a + n, e \notin D
      PROVE  FALSE
  <2>1. D \in SUBSET (a + 1 .. e - 1)
    BY <1>2, <1>3
  <2>2. IsFiniteSet(a + 1 .. e - 1) /\ Cardinality(a + 1 .. e - 1) = e - 1 - a
    <3>1. a + 1 \in Int /\ e - 1 \in Int /\ a + 1 <= e
      BY <1>2, <1>3
    <3>2. (a + 1 > e - 1 => e - 1 - a = 0) /\ e - 1 - (a + 1) + 1 = e - 1 - a
      BY <3>1
    <3> QED
      BY <3>1, <3>2, FS_Interval
  <2>3. Cardinality(D) <= e - 1 - a
    <3> DEFINE I == a + 1 .. e - 1
    <3>1. IsFiniteSet(I) /\ D \in SUBSET I
      BY <2>1, <2>2
    <3>2. Cardinality(I) = e - 1 - a
      BY <2>2
    <3> HIDE DEF I
    <3>3. Cardinality(D) <= Cardinality(I)
      BY <3>1, FS_Subset
    <3> QED
      BY <3>2, <3>3
  <2> QED
    BY <1>2, <2>3
<1>4. (a + 1 .. a + n) \in SUBSET D
  BY <1>3
<1>5. Cardinality(a + 1 .. a + n) = n
  BY <1>2, SizeOfInterval
<1>6. D = a + 1 .. a + n
  BY <1>2, <1>4, <1>5, FS_Subset
<1> QED
  BY <1>2, <1>6

\* What there is to claim is in the stream.
LEMMA ClaimableInStream ==
  ASSUME TypeOK
  PROVE  /\ Claimable(at) \in SUBSET (1..Len(stream[at]))
         /\ Claimable(at) \in SUBSET Nat
         /\ IsFiniteSet(Claimable(at))
         /\ Len(stream[at]) \in Nat /\ cursor[at] \in 0..Len(stream[at])
<1>1. at \in Topics /\ stream[at] \in Seq(Messages)
  BY DEF TypeOK
<1>2. cursor[at] \in 0..Len(stream[at]) /\ pending[at] \subseteq 1..cursor[at]
  BY <1>1 DEF TypeOK
<1>3. Len(stream[at]) \in Nat
  BY <1>1
<1>4. Claimable(at) \in SUBSET (1..Len(stream[at]))
  BY <1>2, <1>3 DEF Claimable
<1>5. IsFiniteSet(1..Len(stream[at]))
  BY <1>3, FS_Interval
<1> QED
  BY <1>2, <1>3, <1>4, <1>5, FS_Subset

\* A claim moves the cursor over the new entries of its batch, and skips none.
LEMMA ClaimedFront ==
  ASSUME TypeOK, Claim
  PROVE  /\ batch' # {}
         /\ batch' \subseteq Claimable(at)
         /\ cursor'[at] \in cursor[at]..Len(stream[at])
         /\ pending'[at] = pending[at] \cup batch'
         /\ {e \in batch' : cursor[at] < e} = cursor[at] + 1 .. cursor'[at]
<1>1. at \in Topics /\ BatchSize \in Nat \ {0}
  BY SentinelAssumption DEF TypeOK
<1> DEFINE C == Claimable(at)
           D == {e \in batch' : cursor[at] < e}
<1>2. /\ C \in SUBSET (1..Len(stream[at])) /\ C \in SUBSET Nat /\ IsFiniteSet(C) /\ C # {}
      /\ Len(stream[at]) \in Nat /\ cursor[at] \in 0..Len(stream[at])
  BY ClaimableInStream DEF Claim
<1>3. batch' = Lowest(C, BatchSize)
  BY DEF Claim
<1> HIDE DEF C
<1>4. batch' # {} /\ batch' \subseteq C /\ \A e \in batch', x \in C : x < e => x \in batch'
  BY <1>1, <1>2, <1>3, LowestOfSome
<1> USE DEF C
<1>5. D \in SUBSET (cursor[at] + 1 .. Len(stream[at]))
  BY <1>2, <1>4
<1>6. \A e \in D, x \in cursor[at] + 1 .. Len(stream[at]) : x < e => x \in D
  BY <1>2, <1>4 DEF Claimable
<1> DEFINE a == cursor[at]
           b == Len(stream[at])
<1>0. a \in Nat /\ b \in Nat /\ a <= b
  BY <1>2
<1> HIDE DEF D, a, b
<1>7. /\ Cardinality(D) \in Nat /\ a + Cardinality(D) <= b
      /\ D = a + 1 .. a + Cardinality(D)
  <2>1. D \in SUBSET (a + 1 .. b) /\ \A e \in D, x \in a + 1 .. b : x < e => x \in D
    BY <1>5, <1>6 DEF a, b
  <2> QED
    BY <1>0, <2>1, FrontOfInterval
<1> USE DEF D, a, b
<1>8. cursor' = [cursor EXCEPT ![at] = @ + Cardinality(D)]
  BY DEF Claim
<1>9. cursor'[at] = cursor[at] + Cardinality(D) /\ pending'[at] = pending[at] \cup batch'
  BY <1>1, <1>8 DEF Claim, TypeOK
<1> QED
  BY <1>2, <1>4, <1>7, <1>9

-----------------------------------------------------------------------------
(* The streams and the current message.                                    *)

\* Streams only grow at their ends.
Grows ==
  \A t \in Topics :
    /\ Len(stream[t]) \in Nat /\ Len(stream'[t]) \in Nat /\ Len(stream[t]) <= Len(stream'[t])
    /\ \A i \in 1..Len(stream[t]) : stream'[t][i] = stream[t][i]

\* A sequence with an element appended.
LEMMA AppendedSeq ==
  ASSUME NEW E, NEW q \in Seq(E), NEW x \in E
  PROVE  /\ Append(q, x) \in Seq(E)
         /\ Len(q) \in Nat /\ Len(Append(q, x)) = Len(q) + 1
         /\ \A i \in 1..Len(q) : Append(q, x)[i] = q[i]
OBVIOUS

\* Publishing a message appends it.
LEMMA AppendGrows ==
  ASSUME TypeOK, NEW m \in Messages, Append1(m)
  PROVE  stream' \in [Topics -> Seq(Messages)] /\ Grows
<1>1. TopicOf[m] \in Topics
  BY SentinelAssumption
<1>2. \A t \in Topics : stream'[t] = IF t = TopicOf[m] THEN Append(stream[t], m) ELSE stream[t]
  BY <1>1 DEF Append1, TypeOK
<1>3. ASSUME NEW t \in Topics
      PROVE  /\ stream'[t] \in Seq(Messages)
             /\ Len(stream[t]) \in Nat /\ Len(stream'[t]) \in Nat /\ Len(stream[t]) <= Len(stream'[t])
             /\ \A i \in 1..Len(stream[t]) : stream'[t][i] = stream[t][i]
  <2>1. stream[t] \in Seq(Messages)
    BY DEF TypeOK
  <2>2. CASE t = TopicOf[m]
    <3>1. stream'[t] = Append(stream[t], m)
      BY <1>2, <2>2
    <3> QED
      BY <2>1, <3>1, AppendedSeq
  <2>3. CASE t # TopicOf[m]
    <3>1. stream'[t] = stream[t]
      BY <1>2, <2>3
    <3> QED
      BY <2>1, <3>1
  <2> QED
    BY <2>2, <2>3
<1>4. stream' \in [Topics -> Seq(Messages)]
  BY <1>3 DEF Append1, TypeOK
<1> QED
  BY <1>3, <1>4 DEF Grows

\* Steps that publish nothing leave the streams alone.
LEMMA SameGrows ==
  ASSUME TypeOK, stream' = stream
  PROVE  Grows
<1>1. \A t \in Topics : stream[t] \in Seq(Messages)
  BY DEF TypeOK
<1> QED
  BY <1>1 DEF Grows

\* The batch lies in the stream.
LEMMA BatchInStream ==
  ASSUME TypeOK
  PROVE  at \in Topics /\ batch \subseteq 1..Len(stream[at]) /\ batch \subseteq Nat
<1>1. at \in Topics /\ batch \subseteq pending[at] /\ Len(stream[at]) \in Nat
  BY DEF TypeOK
<1>2. cursor[at] \in 0..Len(stream[at]) /\ pending[at] \subseteq 1..cursor[at]
  BY <1>1 DEF TypeOK
<1> QED
  BY <1>1, <1>2

\* Sentinel works on one message at a time.
LEMMA CurrentIsOne ==
  ASSUME TypeOK, NEW m, NEW k, Current(m), Current(k)
  PROVE  m = k
<1>1. PICK d \in batch : stream[at][d] = m /\ \A x \in batch : d <= x
  BY DEF Current
<1>2. PICK e \in batch : stream[at][e] = k /\ \A x \in batch : e <= x
  BY DEF Current
<1>3. d <= e /\ e <= d /\ d \in Nat /\ e \in Nat
  BY <1>1, <1>2, BatchInStream
<1> QED
  BY <1>1, <1>2, <1>3

\* What Sentinel works on stays the same while streams grow.
LEMMA CurrentKept ==
  ASSUME TypeOK, Grows, at' = at, batch' = batch, NEW m
  PROVE  Current(m)' <=> Current(m)
BY BatchInStream DEF Current, Grows

\* Nothing is current between sweeps.
LEMMA CurrentIsBusy ==
  ASSUME TypeOK, NEW m, Current(m)
  PROVE  pc # "sweep"
BY DEF TypeOK, Current

-----------------------------------------------------------------------------
(* Types.                                                                  *)

\* A function to the naturals stays one when a value of it goes up.
LEMMA TickTyped ==
  ASSUME NEW S, NEW f \in [S -> Nat], NEW x \in S
  PROVE  [f EXCEPT ![x] = @ + 1] \in [S -> Nat]
<1>1. f[x] + 1 \in Nat
  OBVIOUS
<1> QED
  BY <1>1, Zenon

\* The initial state is typed.
LEMMA InitTypeOK == Init => TypeOK
<1> SUFFICES ASSUME Init PROVE TypeOK
  OBVIOUS
<1> USE DEF Init, Layers, Verdicts, Statuses, Labels
<1>1. 1 \in Topics
  BY SentinelAssumption DEF Topics
<1>2. stream \in [Topics -> Seq(Messages)]
  OBVIOUS
<1>3. \A t \in Topics : cursor[t] \in 0..Len(stream[t]) /\ pending[t] \subseteq 1..cursor[t]
  OBVIOUS
<1>4. cursor \in [Topics -> Nat] /\ pending \in [Topics -> SUBSET Nat]
  OBVIOUS
<1>5. rows \in [Messages -> [Layers -> Verdicts \cup {"none"}]]
  OBVIOUS
<1>6. quarantine \in [Messages -> [Statuses -> Nat]]
  OBVIOUS
<1> QED
  BY <1>1, <1>2, <1>3, <1>4, <1>5, <1>6 DEF TypeOK

\* Dropping a batch is a typed step.
LEMMA AbandonTypeOK ==
  ASSUME TypeOK, Abandon, UNCHANGED <<busVars, dbVars, outVars>>, faults' \in Nat
  PROVE  TypeOK'
<1>1. 1 \in Topics
  BY SentinelAssumption DEF Topics
<1> QED
  BY <1>1 DEF TypeOK, Abandon, busVars, dbVars, outVars, Labels

\* The next topic is a topic.
LEMMA NextTopicTyped ==
  ASSUME TypeOK
  PROVE  NextTopic \in Topics
BY SentinelAssumption DEF NextTopic, TypeOK, Topics

\* A claim is a typed step.
LEMMA ClaimTypeOK ==
  ASSUME TypeOK, Claim
  PROVE  TypeOK'
<1>1. /\ batch' # {} /\ batch' \subseteq Claimable(at)
      /\ cursor'[at] \in cursor[at]..Len(stream[at])
      /\ pending'[at] = pending[at] \cup batch'
      /\ {e \in batch' : cursor[at] < e} = cursor[at] + 1 .. cursor'[at]
  BY ClaimedFront
<1>2. /\ at \in Topics /\ at' = at /\ stream' = stream
      /\ \A t \in Topics : t # at => cursor'[t] = cursor[t] /\ pending'[t] = pending[t]
      /\ DOMAIN cursor' = Topics /\ DOMAIN pending' = Topics
      /\ cursor' = [t \in Topics |-> cursor'[t]] /\ pending' = [t \in Topics |-> pending'[t]]
  BY DEF Claim, TypeOK
<1>3. cursor[at] \in Nat /\ Len(stream[at]) \in Nat /\ cursor[at] \in 0..Len(stream[at])
  BY ClaimableInStream
<1>4. batch' \subseteq Nat
  BY <1>1, ClaimableInStream
<1>5. cursor'[at] \in 0..Len(stream[at]) /\ cursor'[at] \in Nat /\ cursor[at] <= cursor'[at]
  BY <1>1, <1>3
<1>6. pending'[at] \subseteq 1..cursor'[at]
  <2>1. pending[at] \subseteq 1..cursor[at]
    BY <1>2 DEF TypeOK
  <2>2. ASSUME NEW e \in batch' PROVE e \in 1..cursor'[at]
    <3>1. CASE cursor[at] < e
      BY <1>1, <1>3, <1>5, <3>1
    <3>2. CASE ~(cursor[at] < e)
      <4>1. e \in Claimable(at) /\ e \in Nat
        BY <1>1, <1>4
      <4>2. e \in pending[at]
        BY <1>3, <3>2, <4>1 DEF Claimable
      <4> QED
        BY <1>3, <1>5, <2>1, <4>2
    <3> QED
      BY <3>1, <3>2
  <2> QED
    BY <1>1, <1>3, <1>5, <2>1, <2>2
<1>7. \A t \in Topics : cursor'[t] \in 0..Len(stream'[t]) /\ pending'[t] \subseteq 1..cursor'[t]
  BY <1>2, <1>5, <1>6 DEF TypeOK
<1>8. cursor' \in [Topics -> Nat] /\ pending' \in [Topics -> SUBSET Nat]
  <2>1. \A t \in Topics : cursor'[t] \in Nat /\ pending'[t] \in SUBSET Nat
    BY <1>1, <1>2, <1>4, <1>5 DEF TypeOK
  <2> QED
    BY <1>2, <2>1
<1>9. batch' \subseteq pending'[at'] /\ pc' = "record" /\ layer' = "L1"
  BY <1>1, <1>2 DEF Claim
<1> QED
  BY <1>1, <1>2, <1>7, <1>8, <1>9 DEF Claim, TypeOK, dbVars, outVars, Labels, Layers

\* An ack is a typed step.
LEMMA AckTypeOK ==
  ASSUME TypeOK, NEW m \in Messages, Ack(m)
  PROVE  TypeOK'
<1>1. at \in Topics /\ batch \subseteq pending[at] /\ batch' \subseteq batch
  BY DEF TypeOK, Ack
<1>2. \A t \in Topics : pending'[t] = IF t = at THEN pending[at] \ (batch \ batch') ELSE pending[t]
  BY <1>1 DEF Ack, TypeOK
<1>3. pending' \in [Topics -> SUBSET Nat]
  BY <1>1 DEF Ack, TypeOK
<1>4. \A t \in Topics : cursor'[t] \in 0..Len(stream'[t]) /\ pending'[t] \subseteq 1..cursor'[t]
  BY <1>2 DEF Ack, TypeOK
<1>5. batch' \subseteq pending'[at']
  BY <1>1, <1>2 DEF Ack
<1>6. at' \in Topics
  BY <1>1, NextTopicTyped DEF Ack
<1> QED
  BY <1>3, <1>4, <1>5, <1>6 DEF Ack, TypeOK, dbVars, outVars, Labels, Layers

\* Every step keeps the types.
LEMMA NextTypeOK ==
  TypeOK /\ InOrder /\ [Next]_vars => TypeOK'
<1> SUFFICES ASSUME TypeOK, InOrder, [Next]_vars PROVE TypeOK'
  OBVIOUS
<1> USE DEF Labels, Layers, Verdicts, Statuses
<1>1. ASSUME NEW m \in Messages, Append1(m), UNCHANGED <<cursor, pending, at, batch>>
      PROVE  /\ stream' \in [Topics -> Seq(Messages)]
             /\ \A t \in Topics : cursor'[t] \in 0..Len(stream'[t]) /\ pending'[t] \subseteq 1..cursor'[t]
  <2>1. stream' \in [Topics -> Seq(Messages)] /\ Grows
    BY <1>1, AppendGrows
  <2>2. ASSUME NEW t \in Topics
        PROVE  cursor'[t] \in 0..Len(stream'[t]) /\ pending'[t] \subseteq 1..cursor'[t]
    <3>1. cursor[t] \in 0..Len(stream[t]) /\ pending[t] \subseteq 1..cursor[t]
      BY DEF TypeOK
    <3>2. Len(stream[t]) \in Nat /\ Len(stream'[t]) \in Nat /\ Len(stream[t]) <= Len(stream'[t])
      BY <2>1 DEF Grows
    <3> QED
      BY <1>1, <3>1, <3>2
  <2> QED
    BY <2>1, <2>2
<1>2. ASSUME NEW m \in Messages, Publish(m) PROVE TypeOK'
  BY <1>1, <1>2 DEF Publish, TypeOK, dbVars, procVars, outVars
<1>3. ASSUME NEW m \in Messages, Remember(m) PROVE TypeOK'
  <2>1. CauseOf[m] \in Messages
    BY <1>3, SentinelAssumption DEF Remember
  <2> QED
    BY <1>3, <2>1 DEF Remember, TypeOK, busVars, procVars, outVars
<1>4. CASE Skip
  BY <1>4, NextTopicTyped DEF Skip, TypeOK, busVars, dbVars, outVars
<1>5. CASE Claim
  BY <1>5, ClaimTypeOK
<1>6. ASSUME NEW m \in Messages, NEW v \in Verdicts, Current(m), Record(m, v) PROVE TypeOK'
  <2>1. rows' \in [Messages -> [Layers -> Verdicts \cup {"none"}]]
    BY <1>6 DEF Record, TypeOK
  <2>2. inserted' \in BOOLEAN
    BY <1>6 DEF Record, IsNew
  <2> QED
    BY <1>6, <2>1, <2>2 DEF Record, TypeOK, busVars, outVars
<1>7. ASSUME NEW m \in Messages, Current(m), Announce(m) PROVE TypeOK'
  <2>1. AfterVerdict(m) \in {"hold", "retry", "record", "ack"}
    BY DEF AfterVerdict
  <2> QED
    <3>1. announced' \subseteq Messages \X Layers \X Verdicts
      <4>1. <<m, layer, verdict>> \in Messages \X Layers \X Verdicts
        BY DEF TypeOK
      <4> QED
        BY <1>7, <4>1 DEF Announce, TypeOK
    <3>2. layer' \in Layers /\ pc' \in Labels /\ pc' # "sweep" /\ pc # "sweep"
      BY <1>7, <2>1 DEF Announce, TypeOK
    <3> QED
      BY <1>7, <3>1, <3>2 DEF Announce, TypeOK, busVars, dbVars
<1>8. ASSUME NEW m \in Messages, Current(m), Hold(m) PROVE TypeOK'
  <2>1. quarantine' \in [Messages -> [Statuses -> Nat]]
    <3> HIDE DEF Statuses
    <3>1. quarantine \in [Messages -> [Statuses -> Nat]] /\ quarantine[m] \in [Statuses -> Nat]
      BY DEF TypeOK
    <3>2. [quarantine[m] EXCEPT !["pending"] = @ + 1] \in [Statuses -> Nat]
      <4>1. "pending" \in Statuses
        BY DEF Statuses
      <4> QED
        BY <3>1, <4>1, TickTyped
    <3>3. quarantine' = [quarantine EXCEPT ![m] = [quarantine[m] EXCEPT !["pending"] = @ + 1]]
      BY <1>8 DEF Hold
    <3> QED
      BY <3>1, <3>2, <3>3
  <2> QED
    BY <1>8, <2>1 DEF Hold, TypeOK, busVars, outVars
<1>9. ASSUME NEW m \in Messages, Current(m), Divert(m) PROVE TypeOK'
  <2>1. diverted' \in [Messages -> Nat]
    BY <1>9, TickTyped DEF Divert, TypeOK
  <2> QED
    BY <1>9, <2>1 DEF Divert, TypeOK, busVars, dbVars
<1>10. ASSUME NEW m \in Messages, Current(m), Retry(m) PROVE TypeOK'
  BY <1>10 DEF Retry, TypeOK, busVars, outVars
<1>11. ASSUME NEW m \in Messages, Current(m), Replay(m) PROVE TypeOK'
  <2>1. CauseOf[m] \in Messages
    BY <1>11 DEF Replay, InOrder, Progress
  <2> QED
    <3>1. /\ stream' \in [Topics -> Seq(Messages)]
          /\ \A t \in Topics : cursor'[t] \in 0..Len(stream'[t]) /\ pending'[t] \subseteq 1..cursor'[t]
      BY <1>1, <1>11, <2>1 DEF Replay
    <3>2. replays' \in [Messages -> Nat]
      BY <1>11, TickTyped DEF Replay, TypeOK
    <3> QED
      BY <1>11, <3>1, <3>2 DEF Replay, TypeOK, dbVars
<1>12. ASSUME NEW m \in Messages, Current(m), Ack(m) PROVE TypeOK'
  BY <1>12, AckTypeOK
<1>13. ASSUME Abandon, UNCHANGED <<busVars, dbVars, outVars>>, faults' \in Nat PROVE TypeOK'
  BY <1>13, AbandonTypeOK
<1>14. ASSUME NEW m \in Messages, RecordRaises(m) \/ HoldRaises(m) PROVE TypeOK'
  BY <1>13, <1>14 DEF RecordRaises, HoldRaises, TypeOK
<1>15. CASE LoopError
  <2>1. Abandon /\ UNCHANGED <<busVars, dbVars, outVars>>
    BY <1>15 DEF LoopError
  <2>2. faults' \in Nat
    BY <1>15 DEF LoopError, TypeOK
  <2> QED
    BY <1>13, <2>1, <2>2
<1>16. CASE UNCHANGED vars
  BY <1>16 DEF TypeOK, vars, busVars, dbVars, procVars, outVars
<1> QED
  BY <1>2, <1>3, <1>4, <1>5, <1>6, <1>7, <1>8, <1>9, <1>10, <1>11, <1>12, <1>14, <1>15, <1>16
  DEF Next, Sweep, Verify

-----------------------------------------------------------------------------
(* What is written stays.                                                  *)

\* Verdicts are never rewritten, and nothing announced, quarantined, diverted
\* or retried is taken back.
TablesGrow ==
  /\ \A m \in Messages, l \in Layers : rows[m][l] # "none" => rows'[m][l] = rows[m][l]
  /\ announced \subseteq announced'
  /\ \A m \in Messages : Held(m) => Held(m)'
  /\ \A m \in Messages : diverted[m] > 0 => diverted'[m] > 0
  /\ retried \subseteq retried'
  /\ Grows

\* A hold adds one pending row for its message, and no other.
LEMMA HoldAdds ==
  ASSUME TypeOK, NEW m \in Messages, Hold(m)
  PROVE  \A k \in Messages, x \in Statuses :
           quarantine'[k][x] = IF k = m /\ x = "pending" THEN quarantine[k][x] + 1 ELSE quarantine[k][x]
BY DEF Hold, TypeOK, Statuses

\* Every step leaves what is written.
LEMMA NextTablesGrow ==
  ASSUME TypeOK, InOrder, [Next]_vars
  PROVE  TablesGrow
<1> USE DEF TablesGrow
<1>1. ASSUME NEW m \in Messages, Publish(m) PROVE TablesGrow
  <2>1. Grows
    BY <1>1, AppendGrows DEF Publish
  <2> QED
    BY <1>1, <2>1 DEF Publish, dbVars, outVars, Held
<1>2. ASSUME NEW m \in Messages, Current(m), Replay(m) PROVE TablesGrow
  <2>1. Grows
    BY <1>2, AppendGrows DEF Replay, InOrder, Progress
  <2> QED
    BY <1>2, <2>1 DEF Replay, dbVars, Held
<1>3. ASSUME NEW m \in Messages, NEW v \in Verdicts, Record(m, v) PROVE TablesGrow
  <2>1. Grows
    BY <1>3, SameGrows DEF Record, busVars
  <2>2. \A k \in Messages, l \in Layers : rows[k][l] # "none" => rows'[k][l] = rows[k][l]
    BY <1>3 DEF Record, IsNew, TypeOK
  <2> QED
    BY <1>3, <2>1, <2>2 DEF Record, outVars, Held
<1>4. ASSUME NEW m \in Messages, Announce(m) PROVE TablesGrow
  <2>1. Grows
    BY <1>4, SameGrows DEF Announce, busVars
  <2> QED
    BY <1>4, <2>1 DEF Announce, dbVars, Held
<1>5. ASSUME NEW m \in Messages, Hold(m) PROVE TablesGrow
  <2>1. Grows
    BY <1>5, SameGrows DEF Hold, busVars
  <2>2. \A k \in Messages, x \in Statuses : quarantine[k][x] \in Nat
    BY DEF TypeOK
  <2>3. \A k \in Messages, x \in Statuses :
          quarantine'[k][x] = IF k = m /\ x = "pending" THEN quarantine[k][x] + 1 ELSE quarantine[k][x]
    BY <1>5, HoldAdds
  <2>4. \A k \in Messages : Held(k) => Held(k)'
    BY <2>2, <2>3 DEF Held
  <2> QED
    BY <1>5, <2>1, <2>4 DEF Hold, outVars
<1>6. ASSUME NEW m \in Messages, Divert(m) PROVE TablesGrow
  <2>1. Grows
    BY <1>6, SameGrows DEF Divert, busVars
  <2>2. \A k \in Messages : diverted[k] \in Nat /\ diverted'[k] = IF k = m THEN diverted[k] + 1 ELSE diverted[k]
    BY <1>6 DEF Divert, TypeOK
  <2> QED
    BY <1>6, <2>1, <2>2 DEF Divert, dbVars, Held
<1>7. ASSUME NEW m \in Messages, Retry(m) PROVE TablesGrow
  <2>1. Grows
    BY <1>7, SameGrows DEF Retry, busVars
  <2> QED
    BY <1>7, <2>1 DEF Retry, outVars, Held
<1>8. ASSUME UNCHANGED <<stream, rows, quarantine, retried, outVars>> PROVE TablesGrow
  <2>1. Grows
    BY <1>8, SameGrows
  <2> QED
    BY <1>8, <2>1 DEF outVars, Held
<1> QED
  BY <1>1, <1>2, <1>3, <1>4, <1>5, <1>6, <1>7, <1>8 DEF Next, Sweep, Verify, Remember, Skip, Claim,
     RecordRaises, HoldRaises, Ack, LoopError, vars, busVars, dbVars, outVars

-----------------------------------------------------------------------------
(* The order of Sentinel's steps.                                          *)

\* A message that has just been taken up has no history.
LEMMA ProgressFromStart ==
  ASSUME NEW m, pc = "record", layer = "L1"
  PROVE  Progress(m)
BY DEF Progress

\* A sweep that was dropped has no current message.
LEMMA NoneAfterAbandon ==
  ASSUME NEW m, Abandon
  PROVE  ~Current(m)'
BY DEF Abandon, Current

\* Each step of a sweep puts on record what the next one relies on.
LEMMA NextInOrder ==
  TypeOK /\ TypeOK' /\ InOrder /\ RetriedFirst /\ [Next]_vars => InOrder'
<1> SUFFICES ASSUME TypeOK, TypeOK', InOrder, RetriedFirst, [Next]_vars,
                    NEW k \in Messages, Current(k)'
             PROVE  Progress(k)'
  BY DEF InOrder
<1>0. TablesGrow /\ Grows
  BY NextTablesGrow DEF TablesGrow
<1>1. ASSUME NEW m \in Messages, Current(m), at' = at, batch' = batch
      PROVE  k = m /\ Current(k) /\ Progress(k) /\ pc # "sweep"
  <2>1. Current(k)
    BY <1>0, <1>1, CurrentKept
  <2>2. k = m
    BY <1>1, <2>1, CurrentIsOne
  <2> QED
    BY <2>1, <2>2, CurrentIsBusy DEF InOrder
<1>2. CASE \E m \in Messages : Publish(m) \/ Remember(m)
  <2>1. Current(k)
    BY <1>0, <1>2, CurrentKept DEF Publish, Remember, procVars
  <2> QED
    BY <1>2, <2>1 DEF InOrder, Publish, Remember, procVars, dbVars, outVars, Progress, Told, Held, Judgements
<1>3. CASE Skip
  BY <1>3, CurrentIsBusy DEF Skip, Current, TypeOK
<1>4. CASE Claim
  BY <1>4 DEF Claim, Progress
<1>5. ASSUME NEW m \in Messages, NEW v \in Verdicts, Current(m), Record(m, v) PROVE Progress(k)'
  <2>1. k = m /\ Progress(m)
    BY <1>1, <1>5 DEF Record
  <2>2. /\ verdict' = v /\ v \in Judgements(m) /\ layer' = layer /\ pc' = "announce"
        /\ announced' = announced /\ pc = "record"
    BY <1>5 DEF Record, outVars
  <2>3. IdOf[m] = "uuid" => rows'[m][layer] # "none"
    <3>1. layer \in Layers /\ v # "none"
      BY DEF TypeOK, Verdicts
    <3> QED
      BY <1>5, <3>1 DEF Record, IsNew, TypeOK
  <2>4. layer = "L2" => rows'[m]["L1"] # "none"
    BY <1>0, <2>1 DEF Progress, TablesGrow, Layers
  <2>5. Judgements(m)' = Judgements(m)
    BY <2>2 DEF Judgements
  <2> QED
    BY <2>1, <2>2, <2>3, <2>4, <2>5 DEF Progress, Told
<1>6. ASSUME NEW m \in Messages, Current(m), Announce(m) PROVE Progress(k)'
  <2>1. k = m /\ Progress(m) /\ pc = "announce"
    BY <1>1, <1>6 DEF Announce
  <2>2. /\ announced' = announced \cup {<<m, layer, verdict>>} /\ pc' = AfterVerdict(m)
        /\ layer' = IF AfterVerdict(m) = "record" THEN "L2" ELSE layer
        /\ verdict' = verdict /\ rows' = rows
    BY <1>6 DEF Announce, dbVars
  <2>3. verdict \in Verdicts /\ <<m, layer, verdict>> \in announced'
    BY <2>2 DEF TypeOK
  <2>4. verdict \in Judgements(m) /\ layer \in Layers /\ (IdOf[m] = "uuid" => rows[m][layer] # "none")
    BY <2>1 DEF Progress, TypeOK
  <2>5. CASE AfterVerdict(m) = "record"
    <3>1. layer = "L1" /\ verdict = "pass" /\ L2Of[m] # {}
      BY <2>5 DEF AfterVerdict
    <3>2. L1Of[m] = "pass" /\ IdOf[m] = "uuid"
      BY <2>4, <3>1, SentinelAssumption DEF Judgements
    <3>3. rows'[m]["L1"] # "none" /\ Told(m, "L1")'
      BY <2>2, <2>3, <2>4, <3>1, <3>2 DEF Told
    <3> QED
      BY <2>1, <2>2, <2>5, <3>1, <3>2, <3>3 DEF Progress
  <2>6. CASE AfterVerdict(m) # "record"
    <3>1. layer' = layer /\ Judgements(m)' = Judgements(m) /\ Told(m, layer)'
      BY <2>2, <2>3, <2>6 DEF Judgements, Told
    <3>2. layer = "L2" => Told(m, "L1")'
      BY <2>1, <2>2 DEF Progress, Told
    <3>3. /\ AfterVerdict(m) \in {"hold", "retry", "ack"}
          /\ AfterVerdict(m) = "hold" <=> verdict = "fail_hard"
          /\ AfterVerdict(m) = "retry" <=> verdict = "fail_soft"
          /\ AfterVerdict(m) = "ack" /\ layer = "L1" /\ verdict = "pass" => L2Of[m] = {}
      BY <2>6 DEF AfterVerdict
    <3>4. layer = "L1" => verdict = L1Of[m]
      BY <2>4 DEF Judgements
    <3> QED
      BY <2>1, <2>2, <2>3, <2>4, <3>1, <3>2, <3>3, <3>4 DEF Progress
  <2> QED
    BY <2>5, <2>6
<1>7. ASSUME NEW m \in Messages, Current(m), Hold(m) PROVE Progress(k)'
  <2>1. k = m /\ Progress(m) /\ pc = "hold" /\ pc' = "divert"
    BY <1>1, <1>7 DEF Hold
  <2>2. /\ UNCHANGED <<layer, verdict, rows, announced>>
    BY <1>7 DEF Hold, outVars
  <2>3. Held(m)'
    <3>1. "pending" \in Statuses /\ quarantine[m]["pending"] \in Nat
      BY DEF TypeOK, Statuses
    <3>2. quarantine'[m]["pending"] = quarantine[m]["pending"] + 1
      BY <1>7, <3>1, HoldAdds
    <3> QED
      BY <3>1, <3>2 DEF Held
  <2> QED
    BY <2>1, <2>2, <2>3 DEF Progress, Told, Judgements
<1>8. ASSUME NEW m \in Messages, Current(m), Divert(m) PROVE Progress(k)'
  <2>1. k = m /\ Progress(m) /\ pc = "divert" /\ pc' = "ack"
    BY <1>1, <1>8 DEF Divert
  <2>2. UNCHANGED <<layer, verdict, rows, announced, quarantine>>
    BY <1>8 DEF Divert, dbVars
  <2>3. diverted'[m] > 0 /\ Held(m)'
    BY <1>8, <2>1, <2>2 DEF Divert, TypeOK, Progress, Held
  <2>4. ~(layer = "L1" /\ L1Of[m] = "pass")
    BY <2>1 DEF Progress, Judgements
  <2> QED
    BY <2>1, <2>2, <2>3, <2>4 DEF Progress, Told, Judgements
<1>9. ASSUME NEW m \in Messages, Current(m), Retry(m) PROVE Progress(k)'
  <2>1. k = m /\ Progress(m) /\ pc = "retry" /\ verdict = "fail_soft"
    BY <1>1, <1>9 DEF Retry, Progress
  <2>2. UNCHANGED <<layer, verdict, rows, announced, quarantine, diverted, replays>>
    BY <1>9 DEF Retry, outVars
  <2>3. pc' \in {"hold", "replay", "ack"}
    BY <1>9 DEF Retry
  <2>4. pc' = "replay" => m \in retried' /\ replays[m] = 0 /\ CauseOf[m] \in Messages
    BY <1>9, SentinelAssumption DEF Retry, RetriedFirst
  <2>5. ~(layer = "L1" /\ L1Of[m] = "pass")
    BY <2>1 DEF Progress, Judgements
  <2> QED
    BY <2>1, <2>2, <2>3, <2>4, <2>5 DEF Progress, Told, Judgements
<1>10. ASSUME NEW m \in Messages, Current(m), Replay(m) PROVE Progress(k)'
  <2>1. k = m /\ Progress(m) /\ pc = "replay" /\ pc' = "ack" /\ verdict = "fail_soft"
    BY <1>1, <1>10 DEF Replay, Progress
  <2>2. UNCHANGED <<layer, verdict, rows, announced>>
    BY <1>10 DEF Replay, dbVars
  <2>3. ~(layer = "L1" /\ L1Of[m] = "pass")
    BY <2>1 DEF Progress, Judgements
  <2> QED
    BY <2>1, <2>2, <2>3 DEF Progress, Told, Judgements
<1>11. ASSUME NEW m \in Messages, Ack(m) PROVE Progress(k)'
  <2>1. pc' # "sweep"
    BY CurrentIsBusy, <1>11 DEF TypeOK, Current
  <2>2. pc' = "record" /\ layer' = "L1"
    BY <1>11, <2>1 DEF Ack
  <2> QED
    BY <2>2 DEF Progress
<1>12. CASE Abandon
  BY <1>12, NoneAfterAbandon
<1>13. CASE UNCHANGED vars
  <2>1. Current(k)
    BY <1>0, <1>13, CurrentKept DEF vars, procVars
  <2> QED
    BY <1>13, <2>1 DEF InOrder, vars, procVars, dbVars, outVars, Progress, Told, Held, Judgements
<1> QED
  BY <1>2, <1>3, <1>4, <1>5, <1>6, <1>7, <1>8, <1>9, <1>10, <1>11, <1>12, <1>13
  DEF Next, Sweep, Verify, RecordRaises, HoldRaises, LoopError

-----------------------------------------------------------------------------
(* Acked messages.                                                         *)

\* A message is acked by Ack alone, and then it is the current one.
LEMMA NewlyAcked ==
  ASSUME TypeOK, InOrder, [Next]_vars, NEW k \in Messages, Acked(k)'
  PROVE  Acked(k) \/ (Current(k) /\ pc = "ack")
<1> DEFINE t == TopicOf[k]
<1>0. t \in Topics
  BY SentinelAssumption
<1>1. PICK e \in 1..Len(stream'[t]) : stream'[t][e] = k /\ e \in 1..cursor'[t] /\ e \notin pending'[t]
  BY DEF Acked, Settled
<1>2. /\ Len(stream[t]) \in Nat /\ cursor[t] \in 0..Len(stream[t])
      /\ \A i \in 1..Len(stream[t]) : stream'[t][i] = stream[t][i]
  BY <1>0, NextTablesGrow DEF TablesGrow, Grows, TypeOK
<1>3. ASSUME e \in 1..cursor[t], e \notin pending[t] PROVE Acked(k)
  <2>1. e \in 1..Len(stream[t]) /\ stream[t][e] = k
    BY <1>1, <1>2, <1>3
  <2> QED
    BY <1>3, <2>1 DEF Acked, Settled
<1>4. CASE Claim
  <2>1. CASE t = at
    <3>1. pending'[at] = pending[at] \cup batch' /\ {x \in batch' : cursor[at] < x} = cursor[at] + 1 .. cursor'[at]
      BY <1>4, ClaimedFront
    <3>2. e \notin batch' /\ e \notin pending[t]
      BY <1>1, <2>1, <3>1
    <3>3. e \notin cursor[t] + 1 .. cursor'[t]
      BY <2>1, <3>1, <3>2
    <3>4. e \in 1..cursor[t]
      <4>1. cursor'[t] \in Int /\ cursor[t] \in Nat /\ e \in Int /\ 1 <= e /\ e <= cursor'[t]
        <5>1. cursor'[at] \in cursor[at]..Len(stream[at])
          BY <1>4, ClaimedFront
        <5> QED
          BY <1>1, <1>2, <2>1, <5>1
      <4> QED
        BY <3>3, <4>1
    <3> QED
      BY <1>3, <3>2, <3>4
  <2>2. CASE t # at
    <3>1. cursor'[t] = cursor[t] /\ pending'[t] = pending[t]
      BY <1>0, <1>4, <2>2 DEF Claim, TypeOK
    <3> QED
      BY <1>1, <1>3, <3>1
  <2> QED
    BY <2>1, <2>2
<1>5. ASSUME NEW m \in Messages, Ack(m) PROVE Acked(k) \/ (Current(k) /\ pc = "ack")
  <2>1. /\ cursor' = cursor /\ pc = "ack"
        /\ batch' = {x \in batch : \E y \in batch : y < x}
    BY <1>5 DEF Ack
  <2>2. pending'[t] = IF t = at THEN pending[t] \ (batch \ batch') ELSE pending[t]
    BY <1>0, <1>5 DEF Ack, TypeOK
  <2>3. CASE e \notin pending[t]
    BY <1>1, <1>3, <2>1, <2>3
  <2>4. CASE e \in pending[t]
    <3>1. t = at /\ e \in batch /\ \A y \in batch : ~(y < e)
      BY <1>1, <2>1, <2>2, <2>4
    <3>2. \A y \in batch : e <= y
      BY <3>1, BatchInStream
    <3>3. stream[t][e] = k
      BY <1>1, <1>2, <2>1
    <3> QED
      BY <2>1, <3>1, <3>2, <3>3 DEF Current
  <2> QED
    BY <2>3, <2>4
<1>6. CASE UNCHANGED <<cursor, pending>>
  BY <1>1, <1>3, <1>6
<1> QED
  BY <1>4, <1>5, <1>6 DEF Next, Sweep, Verify, Publish, Remember, Skip, Record, RecordRaises, Announce,
     Hold, HoldRaises, Divert, Retry, Replay, LoopError, Abandon, vars, busVars

\* What was announced stays announced.
LEMMA ToldKept ==
  ASSUME TablesGrow, NEW m, NEW l, Told(m, l)
  PROVE  Told(m, l)'
BY DEF TablesGrow, Told

\* No message is acked unjudged.
LEMMA NextAckedIsJudged ==
  TypeOK /\ InOrder /\ AckedIsJudged /\ [Next]_vars => AckedIsJudged'
<1> SUFFICES ASSUME TypeOK, InOrder, AckedIsJudged, [Next]_vars,
                    NEW k \in Messages, Acked(k)', IdOf[k] = "uuid"
             PROVE  /\ rows'[k]["L1"] # "none" /\ Told(k, "L1")'
                    /\ L1Of[k] = "pass" /\ L2Of[k] # {} => rows'[k]["L2"] # "none" /\ Told(k, "L2")'
  BY DEF AckedIsJudged
<1>1. TablesGrow
  BY NextTablesGrow
<1>2. /\ rows[k]["L1"] # "none" /\ Told(k, "L1")
      /\ L1Of[k] = "pass" /\ L2Of[k] # {} => rows[k]["L2"] # "none" /\ Told(k, "L2")
  <2>1. CASE Acked(k)
    BY <2>1 DEF AckedIsJudged
  <2>2. CASE Current(k) /\ pc = "ack"
    <3>1. Progress(k)
      BY <2>2 DEF InOrder
    <3>2. rows[k][layer] # "none" /\ Told(k, layer) /\ layer \in {"L1", "L2"}
      BY <2>2, <3>1 DEF Progress, TypeOK, Layers
    <3> QED
      BY <2>2, <3>1, <3>2 DEF Progress
  <2> QED
    BY <2>1, <2>2, NewlyAcked
<1>3. \A l \in Layers : rows[k][l] # "none" => rows'[k][l] # "none"
  BY <1>1 DEF TablesGrow
<1> QED
  BY <1>1, <1>2, <1>3, ToldKept DEF Layers

\* No hard failure is acked before it is held and diverted.
LEMMA NextFailedIsHeld ==
  TypeOK /\ InOrder /\ FailedIsHeld /\ [Next]_vars => FailedIsHeld'
<1> SUFFICES ASSUME TypeOK, InOrder, FailedIsHeld, [Next]_vars,
                    NEW k \in Messages, Acked(k)', Decided(k),
                    L1Of[k] = "fail_hard" \/ L2Of[k] = {"fail_hard"}
             PROVE  Held(k)' /\ diverted'[k] > 0
  BY DEF FailedIsHeld, Decided
<1>1. TablesGrow
  BY NextTablesGrow
<1>2. Held(k) /\ diverted[k] > 0
  <2>1. CASE Acked(k)
    BY <2>1 DEF FailedIsHeld
  <2>2. CASE Current(k) /\ pc = "ack"
    <3>1. Progress(k)
      BY <2>2 DEF InOrder
    <3>2. verdict \in Judgements(k) /\ layer \in {"L1", "L2"}
      BY <2>2, <3>1 DEF Progress, TypeOK, Layers
    <3>3. verdict = "fail_hard"
      <4>1. CASE layer = "L1"
        <5>1. verdict = L1Of[k] /\ L1Of[k] \in {"pass", "fail_hard"}
          BY <3>2, <4>1, SentinelAssumption DEF Judgements
        <5>2. ~(L1Of[k] = "pass" /\ L2Of[k] # {})
          BY <2>2, <3>1, <4>1 DEF Progress
        <5> QED
          BY <5>1, <5>2
      <4>2. CASE layer = "L2"
        <5>1. L1Of[k] = "pass" /\ verdict \in L2Of[k]
          BY <3>1, <3>2, <4>2 DEF Progress, Judgements
        <5> QED
          BY <5>1
      <4> QED
        BY <3>2, <4>1, <4>2
    <3> QED
      BY <2>2, <3>1, <3>3 DEF Progress
  <2> QED
    BY <2>1, <2>2, NewlyAcked
<1> QED
  BY <1>1, <1>2 DEF TablesGrow

-----------------------------------------------------------------------------
(* Quarantine.                                                             *)

\* A failing verdict comes from the layer that decides.
LEMMA FailureDecides ==
  ASSUME TypeOK, NEW m \in Messages, Progress(m), pc = "hold"
  PROVE  layer = Deciding(m) /\ verdict \in {"fail_hard", "fail_soft"}
<1>1. verdict \in {"fail_hard", "fail_soft"} /\ verdict \in Judgements(m) /\ layer \in {"L1", "L2"}
  BY DEF Progress, TypeOK, Layers
<1>2. CASE layer = "L1"
  BY <1>1, <1>2, SentinelAssumption DEF Judgements, Deciding
<1>3. CASE layer = "L2"
  BY <1>1, <1>3 DEF Progress, Deciding
<1> QED
  BY <1>1, <1>2, <1>3

\* A fresh verdict stays the first of its layer until its pass ends.
LEMMA NextFreshVerdict ==
  TypeOK /\ InOrder /\ FreshVerdict /\ HeldByRow /\ [Next]_vars => FreshVerdict'
<1> SUFFICES ASSUME TypeOK, InOrder, FreshVerdict, HeldByRow, [Next]_vars,
                    NEW k \in Messages, Current(k)', IdOf[k] = "uuid", inserted',
                    pc' \in {"announce", "hold", "retry"}
             PROVE  rows'[k][layer'] = verdict' /\ (layer' = Deciding(k) => ~Held(k)')
  BY DEF FreshVerdict, Deciding
<1>0. TablesGrow /\ Grows
  BY NextTablesGrow DEF TablesGrow
<1>1. ASSUME NEW m \in Messages, NEW v \in Verdicts, Current(m), Record(m, v)
      PROVE  rows'[k][layer'] = verdict' /\ (layer' = Deciding(k) => ~Held(k)')
  <2>1. Current(k)
    BY <1>0, <1>1, CurrentKept DEF Record
  <2>2. k = m
    BY <1>1, <2>1, CurrentIsOne
  <2>3. rows[m][layer] = "none" /\ layer \in Layers
    BY <1>1, <2>2 DEF Record, IsNew, TypeOK
  <2>4. rows'[m][layer'] = verdict'
    BY <1>1, <2>2, <2>3 DEF Record, IsNew, TypeOK
  <2>5. layer = Deciding(m) => ~Held(m)
    BY <2>2, <2>3 DEF HeldByRow
  <2> QED
    BY <1>1, <2>2, <2>4, <2>5 DEF Record, Held
<1>2. ASSUME Current(k), pc \in {"announce", "hold", "retry"},
             UNCHANGED <<rows, quarantine, layer, verdict, inserted>>
      PROVE  rows'[k][layer'] = verdict' /\ (layer' = Deciding(k) => ~Held(k)')
  BY <1>2 DEF FreshVerdict, Held
<1>3. CASE \E m \in Messages : Publish(m) \/ Remember(m)
  <2>1. Current(k)
    BY <1>0, <1>3, CurrentKept DEF Publish, Remember, procVars
  <2> QED
    BY <1>2, <1>3, <2>1 DEF Publish, Remember, procVars, dbVars
<1>4. ASSUME NEW m \in Messages, Announce(m)
      PROVE  rows'[k][layer'] = verdict' /\ (layer' = Deciding(k) => ~Held(k)')
  <2>1. Current(k)
    BY <1>0, <1>4, CurrentKept DEF Announce
  <2> QED
    BY <1>2, <1>4, <2>1 DEF Announce, dbVars
<1>5. ASSUME NEW m \in Messages, Retry(m)
      PROVE  rows'[k][layer'] = verdict' /\ (layer' = Deciding(k) => ~Held(k)')
  <2>1. Current(k)
    BY <1>0, <1>5, CurrentKept DEF Retry
  <2> QED
    BY <1>2, <1>5, <2>1 DEF Retry
<1>6. CASE UNCHANGED vars
  <2>1. Current(k)
    BY <1>0, <1>6, CurrentKept DEF vars, procVars
  <2> QED
    BY <1>2, <1>6, <2>1 DEF vars, procVars, dbVars
<1>7. CASE pc' \in {"sweep", "record", "divert", "ack"}
  BY <1>7
<1> QED
  BY <1>1, <1>3, <1>4, <1>5, <1>6, <1>7, CurrentIsBusy
  DEF Next, Sweep, Verify, Skip, Claim, RecordRaises, Hold, HoldRaises, Divert, Replay, Ack, LoopError,
      Abandon

\* What is in quarantine got there by a row that stays.
LEMMA NextHeldByRow ==
  TypeOK /\ InOrder /\ FreshVerdict /\ HeldByRow /\ [Next]_vars => HeldByRow'
<1> SUFFICES ASSUME TypeOK, InOrder, FreshVerdict, HeldByRow, [Next]_vars,
                    NEW k \in Messages, IdOf[k] = "uuid", Held(k)'
             PROVE  rows'[k][Deciding(k)] \in {"fail_hard", "fail_soft"}
  BY DEF HeldByRow, Deciding
<1>1. Deciding(k) \in Layers
  BY DEF Deciding, Layers
<1>2. TablesGrow
  BY NextTablesGrow
<1>3. CASE Held(k)
  BY <1>1, <1>2, <1>3 DEF HeldByRow, TablesGrow
<1>4. CASE ~Held(k)
  <2>1. PICK m \in Messages : Current(m) /\ Hold(m)
    <3>1. quarantine' # quarantine
      BY <1>4 DEF Held
    <3> QED
      BY <3>1 DEF Next, Sweep, Verify, Publish, Remember, Skip, Claim, Record, RecordRaises, Announce,
         HoldRaises, Divert, Retry, Replay, Ack, LoopError, vars, dbVars
  <2>2. k = m
    BY <1>4, <2>1, HoldAdds DEF Held
  <2>3. pc = "hold" /\ inserted /\ rows' = rows
    BY <2>1 DEF Hold
  <2>4. layer = Deciding(k) /\ verdict \in {"fail_hard", "fail_soft"}
    BY <2>1, <2>2, <2>3, FailureDecides DEF InOrder
  <2>5. rows[k][layer] = verdict
    BY <2>1, <2>2, <2>3 DEF FreshVerdict
  <2> QED
    BY <2>3, <2>4, <2>5
<1> QED
  BY <1>3, <1>4

\* A message is put into quarantine once.
LEMMA NextHeldOnce ==
  TypeOK /\ InOrder /\ FreshVerdict /\ HeldOnce /\ [Next]_vars => HeldOnce'
<1> SUFFICES ASSUME TypeOK, InOrder, FreshVerdict, HeldOnce, [Next]_vars PROVE HeldOnce'
  OBVIOUS
<1>1. ASSUME NEW m \in Messages, Current(m), Hold(m) PROVE HeldOnce'
  <2>1. pc = "hold" /\ inserted
    BY <1>1 DEF Hold
  <2>2. layer = Deciding(m)
    BY <1>1, <2>1, FailureDecides DEF InOrder
  <2>3. IdOf[m] = "uuid" => ~Held(m)
    BY <1>1, <2>1, <2>2 DEF FreshVerdict
  <2> SUFFICES ASSUME NEW k \in Messages, IdOf[k] = "uuid"
               PROVE  quarantine'[k]["pending"] + quarantine'[k]["released"] + quarantine'[k]["discarded"] <= 1
    BY DEF HeldOnce
  <2>4. \A x \in Statuses :
          quarantine'[k][x] = IF k = m /\ x = "pending" THEN quarantine[k][x] + 1 ELSE quarantine[k][x]
    BY <1>1, HoldAdds
  <2>5. \A x \in Statuses : quarantine[k][x] \in Nat
    BY DEF TypeOK
  <2>6. {"pending", "released", "discarded"} = Statuses
    BY DEF Statuses
  <2>7. CASE k = m
    <3>1. \A x \in Statuses : quarantine[k][x] = 0
      BY <2>3, <2>5, <2>7 DEF Held
    <3> QED
      BY <2>4, <2>6, <2>7, <3>1
  <2>8. CASE k # m
    BY <2>4, <2>6, <2>8 DEF HeldOnce
  <2> QED
    BY <2>7, <2>8
<1>2. CASE quarantine' = quarantine
  BY <1>2 DEF HeldOnce
<1> QED
  BY <1>1, <1>2 DEF Next, Sweep, Verify, Publish, Remember, Skip, Claim, Record, RecordRaises, Announce,
     HoldRaises, Divert, Retry, Replay, Ack, LoopError, vars, dbVars

-----------------------------------------------------------------------------
(* Retries.                                                                *)

\* A cause is replayed once, after the retry is on record.
LEMMA NextReplays ==
  TypeOK /\ InOrder /\ RetriedFirst /\ OneReplay /\ [Next]_vars => RetriedFirst' /\ OneReplay'
<1> SUFFICES ASSUME TypeOK, InOrder, RetriedFirst, OneReplay, [Next]_vars
             PROVE  RetriedFirst' /\ OneReplay'
  OBVIOUS
<1>1. ASSUME NEW m \in Messages, Current(m), Replay(m) PROVE RetriedFirst' /\ OneReplay'
  <2>1. m \in retried /\ replays[m] = 0
    BY <1>1 DEF Replay, InOrder, Progress
  <2>2. \A k \in Messages : replays'[k] = IF k = m THEN replays[k] + 1 ELSE replays[k]
    BY <1>1 DEF Replay, TypeOK
  <2>3. retried' = retried
    BY <1>1 DEF Replay, dbVars
  <2> QED
    BY <2>1, <2>2, <2>3 DEF RetriedFirst, OneReplay
<1>2. CASE replays' = replays
  <2>1. retried \subseteq retried'
    BY NextTablesGrow DEF TablesGrow
  <2> QED
    BY <1>2, <2>1 DEF RetriedFirst, OneReplay
<1> QED
  BY <1>1, <1>2 DEF Next, Sweep, Verify, Publish, Remember, Skip, Claim, Record, RecordRaises, Announce,
     Hold, HoldRaises, Divert, Retry, Ack, LoopError, vars, outVars

-----------------------------------------------------------------------------
(* The theorems.                                                           *)

\* The invariant holds at the start.
LEMMA InitIInv == Init => IInv
<1> SUFFICES ASSUME Init PROVE IInv
  OBVIOUS
<1>1. TypeOK
  BY InitTypeOK
<1>2. \A m : ~Current(m)
  BY DEF Init, Current
<1>3. \A m \in Messages : ~Acked(m) /\ ~Held(m)
  BY SentinelAssumption DEF Init, Acked, Settled, Held
<1>4. HeldOnce
  BY DEF Init, HeldOnce, Statuses
<1>5. RetriedFirst /\ OneReplay
  BY DEF Init, RetriedFirst, OneReplay
<1> QED
  BY <1>1, <1>2, <1>3, <1>4, <1>5 DEF IInv, InOrder, AckedIsJudged, FailedIsHeld, FreshVerdict, HeldByRow

\* Every step keeps it.
LEMMA NextIInv == IInv /\ [Next]_vars => IInv'
<1> SUFFICES ASSUME IInv, [Next]_vars PROVE IInv'
  OBVIOUS
<1>1. TypeOK'
  BY NextTypeOK DEF IInv
<1>2. InOrder'
  BY <1>1, NextInOrder DEF IInv
<1> QED
  BY <1>1, <1>2, NextAckedIsJudged, NextFailedIsHeld, NextFreshVerdict, NextHeldByRow, NextHeldOnce,
     NextReplays DEF IInv

\* What holds of Sentinel in every reachable state.
THEOREM SentinelInvariant == Spec => []IInv
BY InitIInv, NextIInv, PTL DEF Spec

\* Every variable of Sentinel keeps its type.
THEOREM SentinelTypeCorrect == Spec => []TypeOK
<1>1. IInv => TypeOK
  BY DEF IInv
<1> QED
  BY <1>1, SentinelInvariant, PTL

\* Nothing leaves Sentinel's pending list without a recorded and announced
\* verdict of every layer that applies to it (agent.py:133-149, 172-199).
THEOREM NothingAckedUnjudged == Spec => []AckedIsJudged
<1>1. IInv => AckedIsJudged
  BY DEF IInv
<1> QED
  BY <1>1, SentinelInvariant, PTL

\* Nothing that breaks its contract leaves it before a human can find it in
\* quarantine (agent.py:267-315).
THEOREM NoFailureSlipsThrough == Spec => []FailedIsHeld
<1>1. IInv => FailedIsHeld
  BY DEF IInv
<1> QED
  BY <1>1, SentinelInvariant, PTL

\* However often a message is redelivered, the triage queue holds it once
\* (agent.py:218, 0001_init.sql:265, 277).
THEOREM QuarantinedOnce == Spec => []HeldOnce
<1>1. IInv => HeldOnce
  BY DEF IInv
<1> QED
  BY <1>1, SentinelInvariant, PTL

\* The gate refuses whatever lies in quarantine, now and later
\* (agent.py:218, verdict_gate.py:94-112).
THEOREM QuarantinedIsRefused == Spec => []HeldIsFailing
<1>1. IInv => HeldIsFailing
  <2>1. ASSUME HeldByRow, NEW m \in Messages, Held(m), IdOf[m] = "uuid"
        PROVE  Failing(m)
    <3>1. Deciding(m) \in Layers
      BY DEF Deciding, Layers
    <3>2. rows[m][Deciding(m)] \in {"fail_hard", "fail_soft"}
      BY <2>1 DEF HeldByRow
    <3>3. \E l \in Layers : rows[m][l] = "fail_hard" \/ rows[m][l] = "fail_soft"
      BY <3>1, <3>2
    <3> QED
      BY <3>3 DEF Failing, Worst
  <2> QED
    BY <2>1 DEF IInv, HeldIsFailing
<1> QED
  BY <1>1, SentinelInvariant, PTL

\* A soft failure costs its producer one replay, however often Sentinel meets
\* it (agent.py:355-382).
THEOREM ReplayedOnce == Spec => []OneReplay
<1>1. IInv => OneReplay
  BY DEF IInv
<1> QED
  BY <1>1, SentinelInvariant, PTL

-----------------------------------------------------------------------------
(* A message met for the first time.                                       *)

\* What explains that a message is met again goes on explaining it.
LEMMA ExplainedKept ==
  ASSUME Grows, faults \in Nat, faults' \in {faults, faults + 1},
         NEW m \in Messages, Explained(m)
  PROVE  Explained(m)'
<1>1. TopicOf[m] \in Topics
  BY SentinelAssumption
<1>2. Repeated(m) => Repeated(m)'
  BY <1>1 DEF Grows, Repeated
<1> QED
  BY <1>2 DEF Explained

\* A step counts one fault or none.
LEMMA FaultsUp ==
  ASSUME TypeOK, [Next]_vars
  PROVE  faults \in Nat /\ faults' \in {faults, faults + 1}
BY DEF TypeOK, Next, Sweep, Verify, Publish, Remember, Skip, Claim, Record, RecordRaises, Announce, Hold,
   HoldRaises, Divert, Retry, Replay, Ack, LoopError, vars

\* A message is published to its own topic.
LEMMA NextOnTopic ==
  ASSUME TypeOK, InOrder, OnTopic, [Next]_vars
  PROVE  OnTopic'
<1>1. ASSUME NEW m \in Messages, Append1(m) PROVE OnTopic'
  <2>1. TopicOf[m] \in Topics
    BY SentinelAssumption
  <2>2. ASSUME NEW t \in Topics, NEW e \in 1..Len(stream'[t]) PROVE TopicOf[stream'[t][e]] = t
    <3>1. stream[t] \in Seq(Messages)
      BY DEF TypeOK
    <3>2. CASE t = TopicOf[m]
      <4>1. stream'[t] = Append(stream[t], m)
        BY <1>1, <2>1, <3>2 DEF Append1, TypeOK
      <4> QED
        BY <2>2, <3>1, <3>2, <4>1 DEF OnTopic
    <3>3. CASE t # TopicOf[m]
      <4>1. stream'[t] = stream[t]
        BY <1>1, <2>1, <3>3 DEF Append1, TypeOK
      <4> QED
        BY <2>2, <4>1 DEF OnTopic
    <3> QED
      BY <3>2, <3>3
  <2> QED
    BY <2>2 DEF OnTopic
<1>2. ASSUME NEW m \in Messages, Current(m), Replay(m) PROVE OnTopic'
  BY <1>1, <1>2 DEF Replay, InOrder, Progress
<1>3. CASE UNCHANGED stream
  BY <1>3 DEF OnTopic
<1> QED
  BY <1>1, <1>2, <1>3 DEF Next, Sweep, Verify, Publish, Remember, Skip, Claim, Record, RecordRaises,
     Announce, Hold, HoldRaises, Divert, Retry, Ack, LoopError, vars, busVars

\* An entry that was acked is never claimed again.
LEMMA AckedKept ==
  ASSUME TypeOK, InOrder, [Next]_vars, NEW k \in Messages, Acked(k)
  PROVE  Acked(k)'
<1> DEFINE t == TopicOf[k]
<1>0. t \in Topics
  BY SentinelAssumption
<1>1. PICK e \in 1..Len(stream[t]) : stream[t][e] = k /\ e \in 1..cursor[t] /\ e \notin pending[t]
  BY DEF Acked, Settled
<1>2. /\ Len(stream[t]) \in Nat /\ Len(stream'[t]) \in Nat /\ Len(stream[t]) <= Len(stream'[t])
      /\ cursor[t] \in 0..Len(stream[t])
      /\ \A i \in 1..Len(stream[t]) : stream'[t][i] = stream[t][i]
  BY <1>0, NextTablesGrow DEF TablesGrow, Grows, TypeOK
<1>3. e \in 1..Len(stream'[t]) /\ stream'[t][e] = k
  BY <1>1, <1>2
<1>4. e \in 1..cursor'[t] /\ e \notin pending'[t]
  <2>1. CASE Claim
    <3>1. CASE t = at
      <4>1. /\ batch' \subseteq Claimable(at) /\ cursor'[at] \in cursor[at]..Len(stream[at])
            /\ pending'[at] = pending[at] \cup batch'
        BY <2>1, ClaimedFront
      <4>2. e \notin Claimable(at)
        BY <1>1, <1>2, <3>1 DEF Claimable
      <4> QED
        BY <1>1, <1>2, <3>1, <4>1, <4>2
    <3>2. CASE t # at
      BY <1>0, <1>1, <2>1, <3>2 DEF Claim, TypeOK
    <3> QED
      BY <3>1, <3>2
  <2>2. ASSUME NEW m \in Messages, Ack(m) PROVE e \in 1..cursor'[t] /\ e \notin pending'[t]
    <3>1. cursor' = cursor /\ pending'[t] \subseteq pending[t]
      BY <1>0, <2>2 DEF Ack, TypeOK
    <3> QED
      BY <1>1, <3>1
  <2>3. CASE UNCHANGED <<cursor, pending>>
    BY <1>1, <2>3
  <2> QED
    BY <2>1, <2>2, <2>3 DEF Next, Sweep, Verify, Publish, Remember, Skip, Record, RecordRaises, Announce,
       Hold, HoldRaises, Divert, Retry, Replay, LoopError, Abandon, vars, busVars
<1> QED
  BY <1>3, <1>4 DEF Acked, Settled

\* Two entries of one topic hold the same message only if it is repeated.
LEMMA TwoEntries ==
  ASSUME OnTopic, NEW t \in Topics, NEW d \in 1..Len(stream[t]), NEW e \in 1..Len(stream[t]),
         d # e, stream[t][d] = stream[t][e]
  PROVE  Repeated(stream[t][e])
<1>1. TopicOf[stream[t][e]] = t
  BY DEF OnTopic
<1> QED
  BY <1>1 DEF Repeated

\* A message that is taken up, and was published once, is on its first pass.
LEMMA TakenUpFirst ==
  ASSUME TypeOK, OnTopic, NEW m \in Messages, NEW e \in 1..Len(stream[at]), stream[at][e] = m,
         ~(e \in 1..cursor[at] /\ e \notin pending[at]), Acked(m)
  PROVE  Repeated(m)
<1>1. at \in Topics /\ TopicOf[m] = at
  BY DEF TypeOK, OnTopic
<1>2. PICK d \in 1..Len(stream[at]) : stream[at][d] = m /\ d \in 1..cursor[at] /\ d \notin pending[at]
  BY <1>1 DEF Acked, Settled
<1> QED
  BY <1>1, <1>2, TwoEntries

\* The message of a claimed batch's first entry had not been acked, unless it
\* is repeated.
LEMMA ClaimedUnacked ==
  ASSUME TypeOK, OnTopic, Claim, NEW k \in Messages, Current(k)', Acked(k)
  PROVE  Repeated(k)
<1>1. PICK e \in batch' : stream[at][e] = k
  BY DEF Claim, Current
<1>2. e \in Claimable(at) /\ e \in 1..Len(stream[at])
  BY <1>1, ClaimedFront, ClaimableInStream
<1>3. cursor[at] \in Nat /\ ~(e \in 1..cursor[at] /\ e \notin pending[at])
  BY <1>2, ClaimableInStream DEF Claimable
<1> QED
  BY <1>1, <1>2, <1>3, TakenUpFirst

\* Nor had that of the batch's next entry, nor was it the one at work.
LEMMA NextOfBatch ==
  ASSUME TypeOK, OnTopic, NEW m \in Messages, Current(m), Ack(m), NEW k \in Messages, Current(k)',
         Acked(k) \/ k = m
  PROVE  Repeated(k)
<1>1. PICK d \in batch : stream[at][d] = m /\ \A x \in batch : d <= x
  BY DEF Current
<1>2. batch' = {e \in batch : \E x \in batch : x < e} /\ stream' = stream
  BY DEF Ack
<1>3. batch' # {}
  BY DEF Current
<1>4. at' = at
  BY <1>3 DEF Ack
<1>5. PICK e \in batch' : stream[at][e] = k
  BY <1>2, <1>4 DEF Current
<1>6. e \in batch /\ at \in Topics /\ batch \subseteq 1..Len(stream[at]) /\ batch \subseteq Nat
  BY <1>2, <1>5, BatchInStream
<1>7. d # e
  BY <1>1, <1>2, <1>5, <1>6
<1>8. CASE k = m
  BY <1>1, <1>5, <1>6, <1>7, <1>8, TwoEntries
<1>9. CASE Acked(k)
  <2>1. e \in pending[at]
    BY <1>6 DEF TypeOK
  <2> QED
    BY <1>5, <1>6, <1>9, <2>1, TakenUpFirst
<1> QED
  BY <1>8, <1>9

\* The message at work is acked by Ack.
LEMMA AckAcks ==
  ASSUME TypeOK, OnTopic, NEW m \in Messages, Current(m), Ack(m)
  PROVE  Acked(m)'
<1>1. PICK d \in batch : stream[at][d] = m /\ \A x \in batch : d <= x
  BY DEF Current
<1>2. at \in Topics /\ batch \subseteq 1..Len(stream[at]) /\ batch \subseteq Nat
  BY BatchInStream
<1>3. TopicOf[m] = at
  BY <1>1, <1>2 DEF OnTopic
<1>4. d \notin batch'
  BY <1>1, <1>2 DEF Ack
<1>5. d \in 1..cursor[at]
  BY <1>1, <1>2 DEF TypeOK
<1>6. d \notin pending'[at] /\ cursor' = cursor /\ stream' = stream
  BY <1>1, <1>2, <1>4 DEF Ack, TypeOK
<1> QED
  BY <1>1, <1>2, <1>3, <1>5, <1>6 DEF Acked, Settled

\* A row shows that its message was met.
LEMMA NextRowsMet ==
  ASSUME TypeOK, InOrder, OnTopic, RowsMet, FirstPass, [Next]_vars
  PROVE  RowsMet'
<1> SUFFICES ASSUME NEW k \in Messages, NEW l \in Layers, rows'[k][l] # "none", ~Explained(k)'
             PROVE  Acked(k)' \/ Current(k)'
  BY DEF RowsMet
<1>1. TablesGrow /\ Grows
  BY NextTablesGrow DEF TablesGrow
<1>2. ~Explained(k)
  BY <1>1, ExplainedKept, FaultsUp
<1>3. faults' = 0
  BY <1>1, FaultsUp DEF Explained, TypeOK
<1>4. Acked(k) \/ Current(k)
  <2>1. CASE rows[k][l] # "none"
    BY <1>2, <2>1 DEF RowsMet
  <2>2. CASE rows[k][l] = "none"
    <3>1. PICK m \in Messages, v \in Verdicts : Current(m) /\ Record(m, v)
      <4>1. rows' # rows
        BY <2>2
      <4> QED
        BY <4>1 DEF Next, Sweep, Verify, Publish, Remember, Skip, Claim, RecordRaises, Announce, Hold,
           HoldRaises, Divert, Retry, Replay, Ack, LoopError, vars, dbVars
    <3>2. k = m
      BY <2>2, <3>1 DEF Record, TypeOK
    <3> QED
      BY <3>1, <3>2
  <2> QED
    BY <2>1, <2>2
<1>5. CASE Acked(k)
  BY <1>5, AckedKept
<1>6. CASE Current(k)
  <2>1. pc # "sweep"
    BY <1>6, CurrentIsBusy
  <2>2. CASE at' = at /\ batch' = batch
    BY <1>1, <1>6, <2>2, CurrentKept
  <2>3. ASSUME NEW m \in Messages, Current(m), Ack(m) PROVE Acked(k)'
    BY <1>6, <2>3, CurrentIsOne, AckAcks
  <2>4. ASSUME NEW m \in Messages, Current(m), RecordRaises(m) PROVE FALSE
    <3>1. k = m /\ IdOf[m] = "garbled"
      BY <1>6, <2>4, CurrentIsOne DEF RecordRaises
    <3> QED
      BY <1>2, <3>1 DEF Explained
  <2>5. ASSUME NEW m \in Messages, Current(m), HoldRaises(m) PROVE FALSE
    <3>1. k = m /\ pc = "hold" /\ ~inserted
      BY <1>6, <2>5, CurrentIsOne DEF HoldRaises
    <3> QED
      BY <1>2, <1>6, <3>1 DEF FirstPass
  <2>6. ~LoopError
    BY <1>3 DEF LoopError, TypeOK
  <2> QED
    BY <2>1, <2>2, <2>3, <2>4, <2>5, <2>6 DEF Next, Sweep, Verify, Publish, Remember, Skip, Claim, Record,
       Announce, Hold, Divert, Retry, Replay, vars, procVars
<1> QED
  BY <1>4, <1>5, <1>6

\* A first pass finds no row, and inserts those of its verdicts.
LEMMA NextFirstPass ==
  ASSUME TypeOK, InOrder, OnTopic, RowsMet, FirstPass, [Next]_vars
  PROVE  FirstPass'
<1> SUFFICES ASSUME NEW k \in Messages, Current(k)', ~Explained(k)'
             PROVE  /\ layer' = "L1" => rows'[k]["L2"] = "none"
                    /\ IF pc' = "record" THEN rows'[k][layer'] = "none" ELSE inserted'
  BY DEF FirstPass
<1>1. TablesGrow /\ Grows
  BY NextTablesGrow DEF TablesGrow
<1>2. ~Explained(k) /\ ~Repeated(k)
  BY <1>1, ExplainedKept, FaultsUp DEF Explained
<1>3. ASSUME ~Acked(k), ~Current(k) PROVE \A l \in Layers : rows[k][l] = "none"
  BY <1>2, <1>3 DEF RowsMet
<1>4. ASSUME Current(k)
      PROVE  /\ layer = "L1" => rows[k]["L2"] = "none"
             /\ IF pc = "record" THEN rows[k][layer] = "none" ELSE inserted
  BY <1>2, <1>4 DEF FirstPass
<1>5. ASSUME at' = at, batch' = batch PROVE Current(k)
  BY <1>1, <1>5, CurrentKept
<1>6. CASE Claim
  <2>1. ~Acked(k) /\ ~Current(k)
    BY <1>2, <1>6, ClaimedUnacked, CurrentIsBusy DEF Claim
  <2> QED
    BY <1>3, <1>6, <2>1 DEF Claim, dbVars, Layers
<1>7. ASSUME NEW m \in Messages, Current(m), Ack(m)
      PROVE  /\ layer' = "L1" /\ pc' = "record" /\ rows'[k]["L1"] = "none" /\ rows'[k]["L2"] = "none"
  <2>1. ~Acked(k) /\ k # m
    BY <1>2, <1>7, NextOfBatch
  <2>2. ~Current(k)
    BY <1>7, <2>1, CurrentIsOne
  <2>3. batch' # {}
    BY DEF Current
  <2> QED
    BY <1>3, <1>7, <2>1, <2>2, <2>3 DEF Ack, dbVars, Layers
<1>8. ASSUME NEW m \in Messages, NEW v \in Verdicts, Current(m), Record(m, v)
      PROVE  /\ layer' = "L1" => rows'[k]["L2"] = "none"
             /\ pc' = "announce" /\ inserted'
  <2>1. k = m
    BY <1>5, <1>8, CurrentIsOne DEF Record
  <2>2. (layer = "L1" => rows[k]["L2"] = "none") /\ rows[k][layer] = "none"
    BY <1>4, <1>8, <2>1 DEF Record
  <2>3. layer = "L1" => rows'[k]["L2"] = "none"
    BY <1>8, <2>1, <2>2 DEF Record, TypeOK, Layers
  <2> QED
    BY <1>8, <2>1, <2>2, <2>3 DEF Record, IsNew
<1>9. ASSUME NEW m \in Messages, Current(m), Announce(m)
      PROVE  /\ layer' = "L1" => rows'[k]["L2"] = "none"
             /\ IF pc' = "record" THEN rows'[k][layer'] = "none" ELSE inserted'
  <2>1. Current(k)
    BY <1>5, <1>9 DEF Announce
  <2>2. /\ rows' = rows /\ inserted' = inserted /\ pc = "announce" /\ pc' = AfterVerdict(m)
        /\ layer' = IF AfterVerdict(m) = "record" THEN "L2" ELSE layer
    BY <1>9 DEF Announce, dbVars
  <2>3. AfterVerdict(m) = "record" => layer = "L1"
    BY DEF AfterVerdict
  <2> QED
    BY <1>4, <2>1, <2>2, <2>3
<1>10. ASSUME UNCHANGED <<at, batch, rows, layer, inserted>>, pc = "record" <=> pc' = "record"
       PROVE  /\ layer' = "L1" => rows'[k]["L2"] = "none"
              /\ IF pc' = "record" THEN rows'[k][layer'] = "none" ELSE inserted'
  BY <1>4, <1>5, <1>10
<1>11. ~Abandon /\ ~Skip
  <2>1. ~Abandon
    BY NoneAfterAbandon
  <2>2. ASSUME Skip PROVE FALSE
    BY <2>2 DEF Skip, TypeOK, Current
  <2> QED
    BY <2>1, <2>2
<1> QED
  BY <1>6, <1>7, <1>8, <1>9, <1>10, <1>11 DEF Next, Sweep, Verify, Publish, Remember, RecordRaises, Hold,
     HoldRaises, Divert, Retry, Replay, LoopError, vars, dbVars, procVars

\* Verifying a message raises for the reasons that are known and no other: the
\* id is garbled, the message was published again, or a fault made Sentinel
\* start over (agent.py:133-149, 218, 267-282).
THEOREM OnlyTheMetRaise == Spec => []RaisesExplained
<1>1. Init => MetInv
  <2> SUFFICES ASSUME Init PROVE MetInv
    OBVIOUS
  <2>1. \A m : ~Current(m)
    BY DEF Init, Current
  <2> QED
    BY <2>1, InitIInv DEF MetInv, Init, OnTopic, RowsMet, FirstPass
<1>2. MetInv /\ [Next]_vars => MetInv'
  BY NextIInv, NextOnTopic, NextRowsMet, NextFirstPass DEF MetInv, IInv
<1>3. MetInv => RaisesExplained
  BY DEF MetInv, FirstPass, RaisesExplained, Raising, Explained
<1> QED
  BY <1>1, <1>2, <1>3, PTL DEF Spec
=============================================================================
